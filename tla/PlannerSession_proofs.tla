------------------------- MODULE PlannerSession_proofs -------------------------
(***************************************************************************)
(* Why the backend of pick-and-place moves the robot with the planner and  *)
(* the plan it asked for, whatever the panel does beside it.               *)
(*                                                                         *)
(* The backend has one call in flight at most, which it gives up at a      *)
(* timeout; a call that comes late no longer answers it.  While nobody     *)
(* else selects a planner it therefore believes what is true once a        *)
(* selection was answered, the planner that began its plan is the one that *)
(* is selected, and the name in the answer is that of the planner.  The    *)
(* execution it waits for is its own, and the only one that is.  What the  *)
(* planner and the robot context hold for it is its plan or a live goal,   *)
(* until a plan of the panel, a stop of it or an execution of the panel    *)
(* replaces it; and every way from an accepted execution to its end, the   *)
(* loop of MPC and its handoff to the classic planner too, takes what is   *)
(* held.                                                                   *)
(*                                                                         *)
(* The second half is about what cameras tell that planner: the operators  *)
(* of Perception for every grid, cloud, image, robot and configuration.    *)
(***************************************************************************)
EXTENDS MCPlannerSession, TLAPS, FiniteSetTheorems, WellFoundedInduction

(* The values of the variables.                                            *)
Kinds == {"set", "generate"}
Named == Planners \cup {None, Unavailable}
RequestStates == [kind : Kinds, by : Clients, planner : Named, goal : {"none", "pose", "joints"},
                  begun : BOOLEAN, late : BOOLEAN]
Asked(r) ==
  /\ r.kind = "set" => r.planner # None
  /\ r.begun => r.kind = "generate" /\ r.planner \in Planners
AnswerStates == [result : {"none", "ok", "failed"}, planner : Named]
ExecutionStates ==
  [at : {"none", "accepted", "starting", "sent", "running", "context", "loop", "body", "handoff", "done"},
   by : Clients \cup {Nobody}, planner : Planners \cup {None}, follows : Plans,
   steps : 0 .. MaxIterations - 1, ok : BOOLEAN]
ContextStates == [command : Plans, at : {"rest", "running", "done", "stopped", "error"}, replaced : BOOLEAN]
Motions == {"none", "running", "success", "failed", "canceled", "rejected"}
SettingTypes ==
  /\ current \in Planners /\ planned \in [Planners -> Plans] /\ flagged \subseteq Trajectory
  /\ mpcActive \in BOOLEAN /\ live \in BOOLEAN
RequestTypes == requests \subseteq RequestStates /\ \A r \in requests : Asked(r)
AnswerTypes == answers \in [Clients -> AnswerStates]
FaultTypes == faults \in 0 .. MaxFaults
NodeTypes == SettingTypes /\ RequestTypes /\ AnswerTypes /\ FaultTypes
ExecutionTypes ==
  /\ executions \in [Executions -> ExecutionStates]
  /\ \A e \in Executions : executions[e].at = "starting" => executions[e].planner \in Planners
  /\ handle \in Executions \cup {None}
ArmTypes ==
  /\ controller \in {"trajectory", "stream"} /\ motions \in [Goals -> Motions]
  /\ \A g, h \in Goals : Moving(g) /\ Moving(h) => g = h
ContextTypes == context \in ContextStates
BackendStates ==
  [at : {"new", "idle", "select", "setting", "prepare", "planning", "submit", "executing",
         "switch", "send", "moving", "restoring", "done"},
   known : Planners \cup {Unknown}, original : Planners \cup {Unknown}, wanted : Planners,
   attempt : 0 .. MaxAttempts, targets : Targets, execution : Executions \cup {None},
   planned : Named, followed : Plans, refreshed : BOOLEAN,
   verdict : {"none", "success", "failed", "restored"}]
PanelStates ==
  [call : {"none", "set", "generate", "generate and send", "track", "start", "activate", "send"},
   planner : Named, selects : Named, trajectory : {"none", "old", "panel"}, tracking : BOOLEAN,
   waiting : SUBSET Executions, handle : Executions \cup {None}, arm : {"none", "sent", "held"},
   canSend : BOOLEAN, canStop : BOOLEAN]
BackendTypes ==
  /\ backend \in BackendStates /\ backend.attempt <= backend.targets
  /\ backend.at = "executing" => backend.execution \in Executions
  /\ backend.at = "restoring" => backend.original # Unknown
PanelTypes == panel \in PanelStates
CountTypes ==
  /\ moves \in 0 .. MaxMoves /\ clicks \in 0 .. MaxClicks
  /\ disturbed \in BOOLEAN /\ overtaken \in BOOLEAN /\ foreign \in BOOLEAN
Types ==
  /\ NodeTypes /\ ExecutionTypes /\ ArmTypes /\ ContextTypes
  /\ BackendTypes /\ PanelTypes /\ CountTypes

(* A call of the backend that it still waits for; it has one at most, and  *)
(* waits in one of three places.                                           *)
Pending(r) == r.by = "backend" /\ ~ r.late
Waits == {"setting", "planning", "restoring"}
AskedFor(r) ==
  CASE backend.at = "setting" -> r.kind = "set" /\ r.planner = backend.wanted
    [] backend.at = "restoring" -> r.kind = "set" /\ r.planner = backend.original
    [] backend.at = "planning" -> r.kind = "generate"
    [] OTHER -> FALSE
AsksHold ==
  /\ \A r \in requests : Pending(r) => AskedFor(r) /\ ~ Answered("backend")
  /\ \A r, q \in requests : Pending(r) /\ Pending(q) => r = q
  /\ Answered("backend") => backend.at \in Waits

(* What the backend believes of the planner, and when it is right.         *)
Told(result) == answers["backend"].result = result
InMove == {"prepare", "planning", "submit", "executing", "switch", "send", "moving"}
Driving == {"submit", "executing", "switch", "send", "moving"}
BeliefHolds ==
  /\ backend.at \in InMove => backend.known = backend.wanted
  /\ backend.at = "setting" /\ Told("ok") /\ ~ disturbed => current = backend.wanted
  /\ backend.at \in {"prepare", "planning"} /\ backend.refreshed /\ ~ disturbed => current = backend.wanted
  /\ backend.at = "planning" /\ Told("ok") /\ ~ disturbed => answers["backend"].planner = current
  /\ ~ disturbed => \A r \in requests : Pending(r) /\ r.begun => r.planner = current
  /\ backend.at \in Driving /\ backend.refreshed /\ ~ disturbed => backend.planned = backend.wanted
OriginalHolds ==
  /\ backend.at = "new" => backend.original = Unknown
  /\ backend.verdict = "restored" => backend.at = "done" /\ (backend.original = Unknown \/ backend.known = backend.original)
  /\ ~ foreign /\ backend.original # Unknown =>
       /\ backend.at \in {"setting", "restoring"} => ~ Told("failed")
       /\ IF backend.at = "setting" /\ Answered("backend") THEN current = backend.wanted
          ELSE IF backend.at = "restoring" /\ Answered("backend") THEN current = backend.original
          ELSE current = backend.known

(* The execution that belongs to the backend is the one it waits for.      *)
OwnersHold ==
  /\ \A e \in Executions : executions[e].by = "backend" =>
       backend.at = "executing" /\ backend.execution = e /\ executions[e].at # "none"
  /\ backend.at = "executing" => executions[backend.execution].by = "backend"
  /\ \A e \in panel.waiting : executions[e].by = "panel" /\ executions[e].at # "none"

(* The plan that the backend was given is what will be followed.           *)
Own == {"backend", "live"}
Follows(x) ==
  /\ x.at = "accepted" => planned[current] \in Own
  /\ x.at = "starting" => planned[x.planner] \in Own
  /\ x.at \in {"loop", "body", "handoff"} => planned["mpc"] \in Own
  /\ x.at \in {"sent", "running"} => x.follows \in Own
  /\ x.at # "done" => context.command \in Own /\ ~ x.ok
  /\ x.ok => x.follows \in Own
PlanHolds ==
  /\ backend.verdict # "none" => backend.at \in {"idle", "restoring", "done"}
  /\ ~ disturbed /\ ~ overtaken =>
       /\ (backend.at = "planning" /\ Told("ok")) \/ backend.at = "submit" =>
            planned[current] \in Own /\ context.command \in Own
       /\ backend.at = "executing" => Follows(executions[backend.execution])
       /\ backend.verdict = "success" => backend.followed \in Own


-----------------------------------------------------------------------------
(* What the helpers of the model keep.                                     *)
LEMMA BothClients == "backend" \in Clients /\ "panel" \in Clients
  BY ClientsAssumption

LEMMA CallTyped ==
  ASSUME RequestTypes, NEW c \in Clients, NEW kind \in Kinds, NEW p \in Named,
         NEW goal \in {"none", "pose", "joints"}, kind = "set" => p # None, Call(c, kind, p, goal)
  PROVE  RequestTypes'
<1> DEFINE r == [kind |-> kind, by |-> c, planner |-> p, goal |-> goal, begun |-> FALSE, late |-> FALSE]
<1>1. r \in RequestStates /\ Asked(r)
  BY DEF RequestStates, Asked
<1>2. requests' = requests \cup {r}
  BY DEF Call
<1> HIDE DEF r
<1> QED BY <1>1, <1>2 DEF RequestTypes

LEMMA GivenUpTyped ==
  ASSUME RequestTypes, NEW c \in Clients, GiveUpCall(c)
  PROVE  RequestTypes'
<1> DEFINE L(r) == [r EXCEPT !.late = @ \/ r.by = c]
<1>1. requests' = {L(r) : r \in requests}
  BY DEF GiveUpCall
<1>2. ASSUME NEW r \in requests PROVE L(r) \in RequestStates /\ Asked(L(r))
  <2>1. r \in RequestStates /\ Asked(r)
    BY DEF RequestTypes
  <2>2. L(r) = [kind |-> r.kind, by |-> r.by, planner |-> r.planner, goal |-> r.goal,
                begun |-> r.begun, late |-> (r.late \/ r.by = c)]
    BY <2>1 DEF RequestStates
  <2> QED BY <2>1, <2>2 DEF RequestStates, Asked
<1> QED BY <1>1, <1>2 DEF RequestTypes

LEMMA AnswerTyped ==
  ASSUME RequestTypes, AnswerTypes, NEW r \in RequestStates, NEW ok \in BOOLEAN, NEW p \in Named,
         Answer(r, ok, p)
  PROVE  RequestTypes' /\ AnswerTypes'
<1>1. RequestTypes'
  BY DEF RequestTypes, Answer
<1>2. r.by \in Clients /\ r.late \in BOOLEAN
  BY DEF RequestStates
<1>3. [result |-> IF ok THEN "ok" ELSE "failed", planner |-> p] \in AnswerStates
  BY DEF AnswerStates
<1>4. AnswerTypes'
  BY <1>2, <1>3 DEF AnswerTypes, Answer
<1> QED BY <1>1, <1>4

LEMMA ForgetTyped ==
  ASSUME AnswerTypes, NEW c \in Clients, Forget(c)
  PROVE  AnswerTypes'
<1>1. NoAnswer \in AnswerStates
  BY DEF NoAnswer, AnswerStates, Named
<1> QED BY <1>1 DEF AnswerTypes, Forget

LEMMA FaultTyped ==
  ASSUME FaultTypes, Fault \/ Fine
  PROVE  FaultTypes'
<1>1. CASE Fault
  BY <1>1, PlannerFaultsAssumption DEF FaultTypes, Fault
<1>2. CASE Fine
  BY <1>2 DEF FaultTypes, Fine
<1> QED BY <1>1, <1>2

LEMMA BecomeTyped ==
  ASSUME ExecutionTypes, NEW e \in Executions,
         NEW at \in {"none", "accepted", "sent", "running", "context", "loop", "body", "handoff", "done"},
         Become(e, at)
  PROVE  executions' \in [Executions -> ExecutionStates]
         /\ \A x \in Executions : executions'[x].at = "starting" => executions'[x].planner \in Planners
<1>1. executions[e] \in ExecutionStates
  BY DEF ExecutionTypes
<1>2. /\ [executions[e] EXCEPT !.at = at] \in ExecutionStates
      /\ [executions[e] EXCEPT !.at = at].at = at
  BY <1>1 DEF ExecutionStates
<1>3. executions' = [executions EXCEPT ![e] = [executions[e] EXCEPT !.at = at]]
  BY DEF Become
<1> QED BY <1>2, <1>3 DEF ExecutionTypes

LEMMA NothingTyped == NoExecution \in ExecutionStates /\ NoExecution.at = "none"
  BY IterationsAssumption DEF NoExecution, ExecutionStates, Plans, Nobody, None

LEMMA EndedTyped ==
  ASSUME ExecutionTypes, NEW e \in Executions, NEW ok \in BOOLEAN, Ended(e, ok)
  PROVE  executions' \in [Executions -> ExecutionStates]
         /\ \A x \in Executions : executions'[x].at = "starting" => executions'[x].planner \in Planners
<1> DEFINE x == IF executions[e].by = Nobody THEN NoExecution
                ELSE [executions[e] EXCEPT !.at = "done", !.ok = ok]
<1>1. executions' = [executions EXCEPT ![e] = x]
  BY DEF Ended
<1>2. x \in ExecutionStates /\ x.at # "starting"
  <2>1. executions[e] \in ExecutionStates
    BY DEF ExecutionTypes
  <2>2. [executions[e] EXCEPT !.at = "done", !.ok = ok] \in ExecutionStates
        /\ [executions[e] EXCEPT !.at = "done", !.ok = ok].at = "done"
    BY <2>1 DEF ExecutionStates
  <2> QED BY <2>2, NothingTyped
<1> HIDE DEF x
<1> QED BY <1>1, <1>2 DEF ExecutionTypes

LEMMA NewIsFree == FreeExecutions # {} => NewExecution \in Executions /\ executions[NewExecution].at = "none"
  BY DEF FreeExecutions, NewExecution

LEMMA AcceptedTyped ==
  ASSUME ExecutionTypes, FreeExecutions # {}, NEW c \in Clients, executions' = Accepted(NewExecution, c)
  PROVE  executions' \in [Executions -> ExecutionStates]
         /\ \A x \in Executions : executions'[x].at = "starting" => executions'[x].planner \in Planners
<1> DEFINE y == [NoExecution EXCEPT !.at = "accepted", !.by = c]
<1>1. y \in ExecutionStates /\ y.at = "accepted"
  BY NothingTyped DEF ExecutionStates
<1>2. executions' = [executions EXCEPT ![NewExecution] = y]
  BY DEF Accepted
<1> HIDE DEF y
<1> QED BY <1>1, <1>2, NewIsFree DEF ExecutionTypes

LEMMA SendTyped ==
  ASSUME ArmTypes, NEW g \in Goals, SendToArm(g), UNCHANGED controller
  PROVE  ArmTypes'
<1>1. CASE controller = "trajectory"
  <2>1. motions' = Taken(g)
    BY <1>1 DEF SendToArm
  <2>2. motions' \in [Goals -> Motions]
    BY <2>1 DEF Taken, ArmTypes, Motions
  <2>3. ASSUME NEW h \in Goals, motions'[h] = "running" PROVE h = g
    BY <2>1, <2>3 DEF Taken, Moving, ArmTypes
  <2> QED BY <2>2, <2>3 DEF ArmTypes, Moving
<1>2. CASE controller # "trajectory"
  BY <1>2 DEF SendToArm, ArmTypes, Moving, Motions
<1> QED BY <1>1, <1>2

LEMMA SwitchTyped ==
  ASSUME ArmTypes, NEW c \in {"trajectory", "stream"}, SwitchTo(c) \/ UNCHANGED arm
  PROVE  ArmTypes'
<1>1. CASE UNCHANGED arm
  BY <1>1 DEF arm, ArmTypes, Moving
<1>2. CASE SwitchTo(c) /\ motions' = motions
  BY <1>2 DEF SwitchTo, ArmTypes, Moving
<1>3. CASE SwitchTo(c) /\ motions' = Stopped("failed")
  <2>1. motions' \in [Goals -> Motions] /\ \A h \in Goals : motions'[h] # "running"
    BY <1>3 DEF Stopped, Moving, ArmTypes, Motions
  <2> QED BY <1>3, <2>1 DEF SwitchTo, ArmTypes, Moving
<1> QED BY <1>1, <1>2, <1>3 DEF SwitchTo

LEMMA SwitchFailsTyped ==
  ASSUME ArmTypes, FaultTypes, NEW c \in {"trajectory", "stream"}, SwitchFails(c)
  PROVE  ArmTypes' /\ FaultTypes'
  BY SwitchTyped, FaultTyped DEF SwitchFails

(* Where a goal of the arm is forgotten, none begins.                      *)
LEMMA QuietTyped ==
  ASSUME ArmTypes, UNCHANGED controller, motions' \in [Goals -> Motions],
         \A g \in Goals : motions'[g] = "running" => motions[g] = "running"
  PROVE  ArmTypes'
  BY DEF ArmTypes, Moving

LEMMA GivenTyped ==
  ASSUME ContextTypes, NEW whose \in Plans, context' = Given(whose)
  PROVE  ContextTypes' /\ context'.command = whose
  BY DEF ContextTypes, ContextStates, Given

LEMMA HaltedTyped ==
  /\ Halted \in ContextStates /\ Fresh \in ContextStates
  /\ Halted.command = "none" /\ Fresh.command = "none"
  BY DEF ContextStates, Halted, Fresh, Plans

LEMMA SentTyped ==
  ASSUME ContextTypes, context' = Sent
  PROVE  ContextTypes' /\ context'.command = context.command
  BY DEF ContextTypes, ContextStates, Sent

LEMMA EmulatorTyped ==
  ASSUME ContextTypes, RunEmulator
  PROVE  ContextTypes' /\ context'.command = context.command
  BY DEF ContextTypes, ContextStates, RunEmulator

LEMMA RetryIs ==
  ASSUME NEW b \in BackendStates, b.attempt <= b.targets
  PROVE  /\ Retry(b) \in BackendStates /\ Retry(b).attempt <= Retry(b).targets
         /\ Retry(b).at \in {"select", "idle"}
         /\ Retry(b).known = b.known /\ Retry(b).original = b.original /\ Retry(b).followed = b.followed
         /\ Retry(b).verdict = IF Retry(b).at = "idle" THEN "failed" ELSE b.verdict
<1>1. CASE b.attempt < b.targets
  <2>1. Retry(b) = [b EXCEPT !.at = "select", !.attempt = b.attempt + 1]
    BY <1>1 DEF Retry
  <2>2. b.attempt + 1 \in 0 .. MaxAttempts /\ b.attempt + 1 <= b.targets
    BY <1>1, SessionAssumption DEF BackendStates, Targets
  <2> QED BY <2>1, <2>2 DEF BackendStates
<1>2. CASE ~ b.attempt < b.targets
  BY <1>2 DEF Retry, BackendStates
<1> QED BY <1>1, <1>2

LEMMA FailedIs ==
  ASSUME NEW b \in BackendStates, b.attempt <= b.targets
  PROVE  /\ ExecutionFailed(b) \in BackendStates
         /\ ExecutionFailed(b).attempt <= ExecutionFailed(b).targets
         /\ ExecutionFailed(b).at \in {"select", "idle"}
         /\ ExecutionFailed(b).known = b.known /\ ExecutionFailed(b).original = b.original
         /\ ExecutionFailed(b).followed = b.followed
         /\ ExecutionFailed(b).verdict = IF ExecutionFailed(b).at = "idle" THEN "failed" ELSE b.verdict
<1>1. CASE b.wanted = "joint_space"
  BY <1>1 DEF ExecutionFailed, BackendStates
<1>2. CASE b.wanted # "joint_space"
  BY <1>2, RetryIs DEF ExecutionFailed
<1> QED BY <1>1, <1>2

-----------------------------------------------------------------------------
(* Type correctness: what a step leaves alone keeps its type.              *)
LEMMA SettingStays == SettingTypes /\ UNCHANGED <<current, planned, flagged, mpcActive, live>> => SettingTypes'
  BY DEF SettingTypes
LEMMA RequestStays == RequestTypes /\ UNCHANGED requests => RequestTypes'
  BY DEF RequestTypes
LEMMA AnswerStays == AnswerTypes /\ UNCHANGED answers => AnswerTypes'
  BY DEF AnswerTypes
LEMMA FaultStays == FaultTypes /\ UNCHANGED faults => FaultTypes'
  BY DEF FaultTypes
LEMMA ExecutionStays == ExecutionTypes /\ UNCHANGED <<executions, handle>> => ExecutionTypes'
  BY DEF ExecutionTypes
LEMMA ArmStays == ArmTypes /\ UNCHANGED <<controller, motions>> => ArmTypes'
  BY DEF ArmTypes, Moving
LEMMA ContextStays == ContextTypes /\ UNCHANGED context => ContextTypes'
  BY DEF ContextTypes
LEMMA BackendStays == BackendTypes /\ UNCHANGED backend => BackendTypes'
  BY DEF BackendTypes
LEMMA PanelStays == PanelTypes /\ UNCHANGED panel => PanelTypes'
  BY DEF PanelTypes
LEMMA CountStays == CountTypes /\ UNCHANGED <<moves, clicks, disturbed, overtaken, foreign>> => CountTypes'
  BY DEF CountTypes

(* The initial values.                                                     *)
LEMMA InitTypes == Init => Types
<1> SUFFICES ASSUME Init PROVE Types
  OBVIOUS
<1>1. PlannerInit
  BY DEF Init
<1>2. SettingTypes
  <2>1. PICK before \in {"none", "old"} :
          planned = [p \in Planners |-> IF p = "mpc" /\ current = "mpc" THEN before ELSE "none"]
    BY <1>1 DEF PlannerInit
  <2>2. planned \in [Planners -> Plans]
    BY <2>1 DEF Plans
  <2>3. current \in Planners /\ flagged = {} /\ mpcActive = FALSE /\ live = FALSE
    BY <1>1 DEF PlannerInit, Planners, Trajectory
  <2> QED BY <2>2, <2>3 DEF SettingTypes
<1>3. RequestTypes /\ FaultTypes
  BY <1>1, PlannerFaultsAssumption DEF PlannerInit, RequestTypes, FaultTypes
<1>4. AnswerTypes
  BY <1>1 DEF PlannerInit, AnswerTypes, AnswerStates, NoAnswer, Named
<1>5. ExecutionTypes
  BY <1>1, NothingTyped DEF PlannerInit, ExecutionTypes
<1>6. ArmTypes
  BY <1>1 DEF PlannerInit, ArmTypes, Motions, Moving
<1>7. ContextTypes
  <2>1. /\ "mpc" \in Planners
        /\ context = [command |-> planned["mpc"], at |-> "rest", replaced |-> FALSE]
    BY <1>1 DEF PlannerInit, ContextInit, Fresh, Planners
  <2> QED BY <2>1, <1>2 DEF SettingTypes, ContextTypes, ContextStates
<1>8. BackendTypes
  <2>1. 1 \in Targets /\ 0 \in 0 .. MaxAttempts /\ "classic" \in Planners /\ "none" \in Plans
    BY SessionAssumption DEF Targets, Planners, Trajectory, Plans
  <2>2. backend \in BackendStates
    BY <2>1 DEF Init, BackendStates, Named
  <2> QED BY <2>2 DEF Init, BackendTypes
<1>9. PanelTypes
  BY <1>1 DEF Init, PanelTypes, PanelStates, PlannerInit, Named, Planners, Trajectory
<1>10. CountTypes
  <2>1. moves = 0 /\ clicks = 0 /\ disturbed = FALSE /\ overtaken = FALSE /\ foreign = FALSE
    BY DEF Init
  <2>2. 0 \in 0 .. MaxMoves /\ 0 \in 0 .. MaxClicks
    BY SessionAssumption
  <2> QED BY <2>1, <2>2 DEF CountTypes
<1> QED BY <1>2, <1>3, <1>4, <1>5, <1>6, <1>7, <1>8, <1>9, <1>10 DEF Types, NodeTypes

(* The services.                                                           *)
LEMMA SetPlannerTypes ==
  ASSUME Types, ServeSetPlanner
  PROVE  NodeTypes' /\ ExecutionTypes' /\ ArmTypes' /\ ContextTypes'
<1>1. PICK r \in requests : /\ r.kind = "set"
                            /\ \/ Switch(r.planner) /\ Answer(r, TRUE, r.planner) /\ Fine
                               \/ Switch(r.planner) /\ Answer(r, FALSE, r.planner) /\ Fault
                               \/ r.planner = Unavailable /\ Answer(r, FALSE, current) /\ Fine /\ UNCHANGED current
  BY DEF ServeSetPlanner
<1>2. r \in RequestStates /\ r.planner \in Named /\ current \in Named
  BY DEF Types, NodeTypes, RequestTypes, RequestStates, SettingTypes, Named
<1>3. RequestTypes' /\ AnswerTypes'
  BY <1>1, <1>2, AnswerTyped DEF Types, NodeTypes
<1>4. SettingTypes'
  BY <1>1 DEF Types, NodeTypes, SettingTypes, Switch, ServeSetPlanner
<1>5. FaultTypes'
  BY <1>1, FaultTyped DEF Types, NodeTypes
<1>6. ExecutionTypes' /\ ArmTypes' /\ ContextTypes'
  BY ExecutionStays, ArmStays, ContextStays DEF ServeSetPlanner, arm, Types
<1> QED BY <1>3, <1>4, <1>5, <1>6 DEF NodeTypes

LEMMA BegunIs ==
  ASSUME NEW r \in RequestStates, NEW p \in Planners
  PROVE  LET q == [r EXCEPT !.begun = TRUE, !.planner = p] IN
         /\ q \in RequestStates /\ q.begun = TRUE /\ q.planner = p
         /\ q.kind = r.kind /\ q.by = r.by /\ q.late = r.late /\ q.goal = r.goal
  BY DEF RequestStates, Named

LEMMA BeginPlanningTypes ==
  ASSUME Types, BeginPlanning
  PROVE  NodeTypes' /\ ExecutionTypes' /\ ArmTypes' /\ ContextTypes'
<1>1. PICK r \in requests : /\ r.kind = "generate"
                            /\ requests' = (requests \ {r}) \cup {[r EXCEPT !.begun = TRUE, !.planner = current]}
  BY DEF BeginPlanning
<1> DEFINE q == [r EXCEPT !.begun = TRUE, !.planner = current]
<1>2. q \in RequestStates /\ Asked(q)
  <2>1. r \in RequestStates /\ current \in Planners
    BY DEF Types, NodeTypes, RequestTypes, SettingTypes
  <2>2. /\ q \in RequestStates /\ q.planner = current /\ q.kind = r.kind
    BY <2>1, BegunIs
  <2> HIDE DEF q
  <2> QED BY <1>1, <2>1, <2>2 DEF Asked
<1>3. RequestTypes'
  <2> HIDE DEF q
  <2>1. requests' = (requests \ {r}) \cup {q}
    BY <1>1 DEF q
  <2> QED BY <2>1, <1>2 DEF Types, NodeTypes, RequestTypes
<1>4. SettingTypes' /\ AnswerTypes' /\ FaultTypes'
  BY SettingStays, AnswerStays, FaultStays DEF BeginPlanning, Types, NodeTypes
<1>5. ExecutionTypes' /\ ArmTypes' /\ ContextTypes'
  BY ExecutionStays, ArmStays, ContextStays DEF BeginPlanning, arm, Types
<1> QED BY <1>3, <1>4, <1>5 DEF NodeTypes

LEMMA EndPlanningTypes ==
  ASSUME Types, EndPlanning
  PROVE  NodeTypes' /\ ExecutionTypes' /\ ArmTypes' /\ ContextTypes'
<1> DEFINE Whose(r) == IF r.late THEN "old" ELSE r.by
<1>1. PICK r \in requests :
        /\ r.begun
        /\ \/ /\ Hold(r.planner, Whose(r))
              /\ \/ Answer(r, TRUE, r.planner) /\ context' = Given(Whose(r)) /\ Fine
                 \/ Answer(r, FALSE, r.planner) /\ context' \in {context, Given(Whose(r))} /\ Fault
           \/ /\ Answer(r, FALSE, r.planner)
              /\ IF Outcomes(r.planner, r.goal) = {"refused"} THEN Fine ELSE Fault
              /\ UNCHANGED <<planned, mpcActive, context>>
  BY Zenon DEF EndPlanning
<1>2. r \in RequestStates /\ r.planner \in Planners /\ r.by \in Clients
  BY <1>1 DEF Types, NodeTypes, RequestTypes, RequestStates, Asked
<1>3. Whose(r) \in Plans /\ r.planner \in Named
  BY <1>2 DEF Plans, Named
<1> HIDE DEF Whose
<1>4. RequestTypes' /\ AnswerTypes'
  BY <1>1, <1>2, <1>3, AnswerTyped DEF Types, NodeTypes
<1>5. FaultTypes'
  BY <1>1, FaultTyped DEF Types, NodeTypes
<1>6. SettingTypes'
  BY <1>1, <1>2, <1>3 DEF Types, NodeTypes, SettingTypes, Hold, SetActiveGoal, EndPlanning
<1>7. ContextTypes'
  BY <1>1, <1>3, GivenTyped, ContextStays DEF Types
<1>8. ExecutionTypes' /\ ArmTypes'
  BY ExecutionStays, ArmStays DEF EndPlanning, arm, Types
<1> QED BY <1>4, <1>5, <1>6, <1>7, <1>8 DEF NodeTypes

(* The executions.                                                         *)
LEMMA UpdateTyped ==
  ASSUME ExecutionTypes, NEW e \in Executions, NEW x \in ExecutionStates,
         x.at = "starting" => x.planner \in Planners, executions' = [executions EXCEPT ![e] = x],
         UNCHANGED handle
  PROVE  ExecutionTypes'
  BY DEF ExecutionTypes

(* What an execution becomes when it begins.                               *)
LEMMA BeginIs ==
  ASSUME Types, NEW e \in Executions, BeginExecution(e)
  PROVE  /\ executions[e].at = "accepted"
         /\ ArmTypes' /\ FaultTypes'
         /\ \/ executions' = [executions EXCEPT ![e] = [executions[e] EXCEPT !.at = "starting", !.planner = current]]
            \/ /\ current = "mpc"
               /\ executions' = [executions EXCEPT ![e] =
                    [executions[e] EXCEPT !.at = "loop", !.planner = "mpc", !.follows = planned["mpc"]]]
            \/ Ended(e, FALSE)
<1>1. CASE current # "mpc" /\ SwitchTo("trajectory") /\ Fine
           /\ executions' = [executions EXCEPT ![e].at = "starting", ![e].planner = current]
  BY <1>1, SwitchTyped, FaultTyped DEF BeginExecution, Types, NodeTypes, ExecutionTypes
<1>2. CASE current = "mpc" /\ StartLoop(e) /\ Fine
  <2>1. CASE /\ planned["mpc"] # "none" /\ SwitchTo("stream")
             /\ executions' = [executions EXCEPT ![e].at = "loop", ![e].planner = "mpc", ![e].follows = planned["mpc"]]
    BY <1>2, <2>1, SwitchTyped, FaultTyped DEF BeginExecution, Types, NodeTypes, ExecutionTypes
  <2>2. CASE planned["mpc"] = "none" /\ Ended(e, FALSE) /\ UNCHANGED arm
    BY <1>2, <2>2, SwitchTyped, FaultTyped DEF BeginExecution, Types, NodeTypes
  <2> QED BY <1>2, <2>1, <2>2 DEF StartLoop
<1>3. CASE Ended(e, FALSE) /\ SwitchFails(IF current = "mpc" THEN "stream" ELSE "trajectory")
  BY <1>3, SwitchFailsTyped DEF BeginExecution, Types, NodeTypes
<1> QED BY <1>1, <1>2, <1>3 DEF BeginExecution

LEMMA BeginTypes ==
  ASSUME Types, NEW e \in Executions, BeginExecution(e)
  PROVE  NodeTypes' /\ ExecutionTypes' /\ ArmTypes' /\ ContextTypes'
<1>1. /\ executions[e] \in ExecutionStates /\ current \in Planners /\ planned["mpc"] \in Plans
      /\ "mpc" \in Planners
  BY DEF Types, NodeTypes, SettingTypes, ExecutionTypes, Planners
<1>2. UNCHANGED <<current, planned, flagged, mpcActive, live, requests, handle, answers, context>>
  BY DEF BeginExecution
<1>3. ExecutionTypes'
  <2>1. CASE executions' = [executions EXCEPT ![e] = [executions[e] EXCEPT !.at = "starting", !.planner = current]]
    <3> DEFINE x == [executions[e] EXCEPT !.at = "starting", !.planner = current]
    <3>1. x \in ExecutionStates /\ x.planner \in Planners
      BY <1>1 DEF ExecutionStates
    <3>2. executions' = [executions EXCEPT ![e] = x] /\ UNCHANGED handle /\ ExecutionTypes
      BY <2>1, <1>2 DEF Types
    <3> HIDE DEF x
    <3> QED BY <3>1, <3>2, UpdateTyped
  <2>2. CASE executions' = [executions EXCEPT ![e] =
                    [executions[e] EXCEPT !.at = "loop", !.planner = "mpc", !.follows = planned["mpc"]]]
    <3> DEFINE x == [executions[e] EXCEPT !.at = "loop", !.planner = "mpc", !.follows = planned["mpc"]]
    <3>1. x \in ExecutionStates /\ x.planner \in Planners
      BY <1>1 DEF ExecutionStates
    <3>2. executions' = [executions EXCEPT ![e] = x] /\ UNCHANGED handle /\ ExecutionTypes
      BY <2>2, <1>2 DEF Types
    <3> HIDE DEF x
    <3> QED BY <3>1, <3>2, UpdateTyped
  <2>3. CASE Ended(e, FALSE)
    BY <2>3, <1>2, EndedTyped DEF Types, ExecutionTypes
  <2> QED BY <2>1, <2>2, <2>3, BeginIs
<1>4. NodeTypes' /\ ContextTypes'
  BY <1>2, BeginIs, SettingStays, RequestStays, AnswerStays, ContextStays DEF Types, NodeTypes
<1> QED BY <1>3, <1>4, BeginIs

(* ... when its plan is sent ...                                           *)
LEMMA SendPlanTypes ==
  ASSUME Types, NEW e \in Executions, SendPlan(e)
  PROVE  NodeTypes' /\ ExecutionTypes' /\ ArmTypes' /\ ContextTypes'
<1> DEFINE p == executions[e].planner
<1>1. /\ executions[e] \in ExecutionStates /\ executions[e].at = "starting" /\ p \in Planners
      /\ planned[p] \in Plans
  BY DEF Types, NodeTypes, SettingTypes, ExecutionTypes, SendPlan
<1>2. UNCHANGED <<current, planned, mpcActive, live, requests, handle, answers>>
  BY DEF SendPlan
<1>3. flagged' \subseteq Trajectory
  <2>1. flagged' = IF planned[p] = "none" THEN flagged ELSE flagged \ {p}
    BY DEF SendPlan
  <2>2. flagged \subseteq Trajectory
    BY DEF Types, NodeTypes, SettingTypes
  <2> QED BY <2>1, <2>2
<1>4. NodeTypes' /\ ArmTypes' /\ ContextTypes' /\ ExecutionTypes'
  <2>1. SettingTypes' /\ RequestTypes' /\ AnswerTypes'
    BY <1>2, <1>3, RequestStays, AnswerStays DEF Types, NodeTypes, SettingTypes
  <2>2. CASE Ended(e, FALSE) /\ UNCHANGED <<arm, context>> /\ Fine
    <3>1. FaultTypes' /\ ArmTypes' /\ ContextTypes'
      BY <2>2, FaultTyped, ArmStays, ContextStays DEF Types, NodeTypes, arm
    <3>2. ExecutionTypes'
      BY <2>2, <1>2, EndedTyped DEF Types, ExecutionTypes
    <3> QED BY <2>1, <3>1, <3>2 DEF NodeTypes
  <2>3. CASE /\ executions' = [executions EXCEPT ![e].at = "sent", ![e].follows = planned[p]]
             /\ SendToArm(e) /\ Fine /\ UNCHANGED <<controller, context>>
    <3>1. FaultTypes' /\ ArmTypes' /\ ContextTypes'
      BY <2>3, FaultTyped, SendTyped, ContextStays DEF Types, NodeTypes, Goals
    <3>2. executions' = [executions EXCEPT ![e] = [executions[e] EXCEPT !.at = "sent", !.follows = planned[p]]]
      BY <2>3 DEF Types, ExecutionTypes
    <3>3. ExecutionTypes'
      <4> DEFINE x == [executions[e] EXCEPT !.at = "sent", !.follows = planned[p]]
      <4>1. x \in ExecutionStates /\ x.at # "starting"
        BY <1>1 DEF ExecutionStates
      <4>2. executions' = [executions EXCEPT ![e] = x] /\ UNCHANGED handle /\ ExecutionTypes
        BY <3>2, <1>2 DEF Types
      <4> HIDE DEF x
      <4> QED BY <4>1, <4>2, UpdateTyped
    <3> QED BY <2>1, <3>1, <3>3 DEF NodeTypes
  <2>4. CASE /\ executions' = [executions EXCEPT ![e].at = "context"] /\ context' = Sent
             /\ Fault /\ UNCHANGED arm
    <3>1. FaultTypes' /\ ArmTypes' /\ ContextTypes'
      BY <2>4, FaultTyped, ArmStays, SentTyped DEF Types, NodeTypes, arm
    <3>2. ExecutionTypes'
      BY <2>4, <1>2, BecomeTyped DEF Types, ExecutionTypes, Become
    <3> QED BY <2>1, <3>1, <3>2 DEF NodeTypes
  <2> QED BY <2>2, <2>3, <2>4 DEF SendPlan
<1> QED BY <1>4

LEMMA RegisterTypes ==
  ASSUME Types, NEW e \in Executions, RegisterGoal(e)
  PROVE  NodeTypes' /\ ExecutionTypes' /\ ArmTypes' /\ ContextTypes'
<1>1. ExecutionTypes'
  <2>1. CASE Ended(e, FALSE) /\ UNCHANGED handle
    BY <2>1, EndedTyped DEF Types, ExecutionTypes
  <2>2. CASE Become(e, "running") /\ handle' = e
    BY <2>2, BecomeTyped DEF Types, ExecutionTypes
  <2> QED BY <2>1, <2>2 DEF RegisterGoal
<1>2. UNCHANGED <<current, planned, flagged, mpcActive, live, requests, answers, arm, context, faults>>
  BY DEF RegisterGoal
<1> QED BY <1>1, <1>2, SettingStays, RequestStays, AnswerStays, FaultStays, ArmStays, ContextStays DEF Types, NodeTypes, arm

LEMMA TakeResultTypes ==
  ASSUME Types, NEW e \in Executions, TakeResult(e)
  PROVE  NodeTypes' /\ ExecutionTypes' /\ ArmTypes' /\ ContextTypes'
<1>1. ExecutionTypes'
  <2>1. Ended(e, Succeeded(motions[e])) /\ handle' = None /\ Succeeded(motions[e]) \in BOOLEAN
    BY DEF TakeResult, Succeeded
  <2> QED BY <2>1, EndedTyped DEF Types, ExecutionTypes
<1>2. UNCHANGED <<current, planned, flagged, mpcActive, live, requests, answers, controller, context, faults>>
  BY DEF TakeResult
<1>3. ArmTypes'
  <2>1. motions' = [motions EXCEPT ![e] = "none"]
    BY DEF TakeResult
  <2>2. motions' \in [Goals -> Motions] /\ \A g \in Goals : motions'[g] = "running" => motions[g] = "running"
    BY <2>1 DEF Types, ArmTypes, Motions
  <2> QED BY <2>2, <1>2, QuietTyped DEF Types
<1> QED BY <1>1, <1>2, <1>3, SettingStays, RequestStays, AnswerStays, FaultStays, ContextStays DEF Types, NodeTypes

LEMMA EndContextTypes ==
  ASSUME Types, NEW e \in Executions, EndContext(e)
  PROVE  NodeTypes' /\ ExecutionTypes' /\ ArmTypes' /\ ContextTypes'
<1>1. UNCHANGED <<current, planned, flagged, mpcActive, live, requests, handle, answers, arm>>
  BY DEF EndContext
<1>2. ExecutionTypes'
  <2>1. CASE Ended(e, FALSE)
    BY <2>1, <1>1, EndedTyped DEF Types, ExecutionTypes
  <2>2. CASE executions' = [executions EXCEPT ![e] = IF @.by = Nobody THEN NoExecution
                              ELSE [@ EXCEPT !.at = "done", !.ok = TRUE, !.follows = context.command]]
    <3> DEFINE x == IF executions[e].by = Nobody THEN NoExecution
                    ELSE [executions[e] EXCEPT !.at = "done", !.ok = TRUE, !.follows = context.command]
    <3>1. executions[e] \in ExecutionStates /\ context.command \in Plans
      BY DEF Types, ExecutionTypes, ContextTypes, ContextStates
    <3>2. x \in ExecutionStates /\ x.at # "starting"
      <4>1. LET y == [executions[e] EXCEPT !.at = "done", !.ok = TRUE, !.follows = context.command]
            IN  y \in ExecutionStates /\ y.at = "done"
        BY <3>1 DEF ExecutionStates
      <4> QED BY <4>1, NothingTyped
    <3>3. executions' = [executions EXCEPT ![e] = x] /\ UNCHANGED handle /\ ExecutionTypes
      BY <2>2, <1>1 DEF Types
    <3> HIDE DEF x
    <3> QED BY <3>2, <3>3, UpdateTyped
  <2> QED BY <2>1, <2>2 DEF EndContext
<1>3. FaultTypes' /\ ContextTypes'
  BY FaultTyped, HaltedTyped, ContextStays DEF EndContext, Types, NodeTypes, ContextTypes
<1> QED BY <1>1, <1>2, <1>3, SettingStays, RequestStays, AnswerStays, ArmStays DEF Types, NodeTypes, arm

LEMMA IterateTypes ==
  ASSUME Types, NEW e \in Executions, Iterate(e)
  PROVE  NodeTypes' /\ ExecutionTypes' /\ ArmTypes' /\ ContextTypes'
<1>1. UNCHANGED <<current, planned, flagged, mpcActive, live, requests, handle, answers, arm, context, faults>>
  BY DEF Iterate
<1>2. ExecutionTypes'
  BY <1>1, BecomeTyped, EndedTyped DEF Iterate, Types, ExecutionTypes
<1> QED BY <1>1, <1>2, SettingStays, RequestStays, AnswerStays, FaultStays, ArmStays, ContextStays DEF Types, NodeTypes, arm

LEMMA FollowedTyped == ASSUME Types, NEW e PROVE Followed(e) \in Plans
  BY DEF Types, NodeTypes, SettingTypes, Followed, Plans, Planners

(* What an execution becomes after a step of the loop.                     *)
LEMMA SteppedTyped ==
  ASSUME Types, NEW e \in Executions, UNCHANGED handle, executions[e].at = "body",
         executions' \in {Counted(e), Converged(e), NearGoal(e)}
  PROVE  ExecutionTypes'
<1>1. executions[e] \in ExecutionStates /\ ExecutionTypes
  BY DEF Types, ExecutionTypes
<1>2. Followed(e) \in Plans
  BY FollowedTyped
<1> DEFINE f == Followed(e)
<1> HIDE DEF f
<1>3. ASSUME NEW x \in ExecutionStates, x.at # "starting", executions' = [executions EXCEPT ![e] = x]
      PROVE  ExecutionTypes'
  BY <1>3, <1>1, UpdateTyped
<1>4. CASE executions' = Counted(e)
  <2>1. CASE executions[e].steps + 1 < MaxIterations
    <3>1. executions' = [executions EXCEPT ![e] =
            [executions[e] EXCEPT !.at = "loop", !.steps = executions[e].steps + 1, !.follows = f]]
      BY <1>4, <2>1, <1>1 DEF Counted, f, ExecutionTypes
    <3>2. executions[e].steps + 1 \in 0 .. MaxIterations - 1
      BY <2>1, <1>1, IterationsAssumption DEF ExecutionStates
    <3>3. LET x == [executions[e] EXCEPT !.at = "loop", !.steps = executions[e].steps + 1, !.follows = f]
          IN  x \in ExecutionStates /\ x.at # "starting"
      BY <3>2, <1>1, <1>2 DEF ExecutionStates, f
    <3> QED BY <3>1, <3>3, <1>3
  <2>2. CASE ~ executions[e].steps + 1 < MaxIterations
    <3>1. executions' = [executions EXCEPT ![e] = IF executions[e].by = Nobody THEN NoExecution
                                                  ELSE [executions[e] EXCEPT !.at = "done"]]
      BY <1>4, <2>2 DEF Counted
    <3>2. LET x == [executions[e] EXCEPT !.at = "done"] IN x \in ExecutionStates /\ x.at # "starting"
      BY <1>1 DEF ExecutionStates
    <3> QED BY <3>1, <3>2, <1>3, NothingTyped
  <2> QED BY <2>1, <2>2
<1>5. CASE executions' = Converged(e)
  <2>1. executions' = [executions EXCEPT ![e] = IF executions[e].by = Nobody THEN NoExecution
                         ELSE [executions[e] EXCEPT !.at = "done", !.ok = TRUE, !.follows = f]]
    BY <1>5 DEF Converged, f
  <2>2. LET x == [executions[e] EXCEPT !.at = "done", !.ok = TRUE, !.follows = f]
        IN  x \in ExecutionStates /\ x.at # "starting"
    BY <1>1, <1>2 DEF ExecutionStates, f
  <2> QED BY <2>1, <2>2, <1>3, NothingTyped
<1>6. CASE executions' = NearGoal(e)
  <2>1. executions' = [executions EXCEPT ![e] = [executions[e] EXCEPT !.at = "handoff", !.follows = f]]
    BY <1>6, <1>1 DEF NearGoal, f, ExecutionTypes
  <2>2. LET x == [executions[e] EXCEPT !.at = "handoff", !.follows = f]
        IN  x \in ExecutionStates /\ x.at # "starting"
    BY <1>1, <1>2 DEF ExecutionStates, f
  <2> QED BY <2>1, <2>2, <1>3
<1> QED BY <1>4, <1>5, <1>6

LEMMA StepTypes ==
  ASSUME Types, NEW e \in Executions, Step(e)
  PROVE  NodeTypes' /\ ExecutionTypes' /\ ArmTypes' /\ ContextTypes'
<1>1. UNCHANGED <<current, flagged, requests, handle, answers, arm>>
  BY DEF Step
<1>2. ExecutionTypes'
  BY <1>1, SteppedTyped, EndedTyped DEF Step, Types, ExecutionTypes
<1>3. SettingTypes'
  BY <1>1 DEF Step, TakeGoal, SetActiveGoal, Types, NodeTypes, SettingTypes, Plans
<1>4. FaultTypes' /\ ContextTypes'
  <2>1. Fine \/ Fault
    BY DEF Step
  <2>2. context' \in {context, Halted} \/ Streamed(e)
    BY DEF Step
  <2> QED BY <2>1, <2>2, FaultTyped, HaltedTyped, GivenTyped, FollowedTyped, ContextStays
          DEF Streamed, Types, NodeTypes, ContextTypes
<1> QED BY <1>1, <1>2, <1>3, <1>4, RequestStays, AnswerStays, ArmStays DEF Types, NodeTypes, arm

LEMMA HandOffTypes ==
  ASSUME Types, NEW e \in Executions, HandOff(e)
  PROVE  NodeTypes' /\ ExecutionTypes' /\ ArmTypes' /\ ContextTypes'
<1>1. UNCHANGED <<current, flagged, mpcActive, live, requests, handle, answers>>
  BY DEF HandOff
<1>2. HandoffGoal \in Plans
  BY DEF HandoffGoal, Types, NodeTypes, SettingTypes, Plans, Planners
<1>3. ExecutionTypes' /\ ArmTypes' /\ FaultTypes'
  <2>1. CASE /\ SwitchTo("trajectory") /\ Fine
             /\ executions' = [executions EXCEPT ![e].at = "starting", ![e].planner = "classic"]
    <3> DEFINE x == [executions[e] EXCEPT !.at = "starting", !.planner = "classic"]
    <3>1. executions' = [executions EXCEPT ![e] = x] /\ UNCHANGED handle /\ ExecutionTypes
      BY <2>1, <1>1 DEF Types, ExecutionTypes
    <3>2. x \in ExecutionStates /\ x.planner \in Planners
      BY <3>1 DEF ExecutionTypes, ExecutionStates, Planners, Trajectory
    <3> HIDE DEF x
    <3>3. ExecutionTypes'
      BY <3>1, <3>2, UpdateTyped
    <3> QED BY <2>1, <3>3, SwitchTyped, FaultTyped DEF Types, NodeTypes
  <2>2. CASE SwitchFails("trajectory") /\ Ended(e, FALSE)
    BY <2>2, <1>1, SwitchFailsTyped, EndedTyped DEF Types, NodeTypes, ExecutionTypes
  <2>3. CASE Ended(e, FALSE) /\ Fault /\ UNCHANGED <<planned, arm, context>>
    BY <2>3, <1>1, FaultTyped, EndedTyped, ArmStays DEF Types, NodeTypes, ExecutionTypes, arm
  <2> QED BY <2>1, <2>2, <2>3 DEF HandOff
<1>4. SettingTypes'
  <2>1. UNCHANGED planned \/ planned' = [planned EXCEPT !["classic"] = HandoffGoal]
    BY DEF HandOff
  <2> QED BY <2>1, <1>1, <1>2 DEF Types, NodeTypes, SettingTypes
<1>5. ContextTypes'
  <2>1. UNCHANGED context \/ context' = Given(HandoffGoal)
    BY DEF HandOff
  <2> QED BY <2>1, <1>2, ContextStays, GivenTyped DEF Types
<1> QED BY <1>1, <1>3, <1>4, <1>5, RequestStays, AnswerStays DEF Types, NodeTypes

LEMMA ExecutionStepTypes ==
  ASSUME Types, NEW e \in Executions, Executes(e)
  PROVE  Types'
<1>1. NodeTypes' /\ ExecutionTypes' /\ ArmTypes' /\ ContextTypes'
  <2>1. Execution(e)
    BY DEF Executes
  <2> QED BY <2>1, BeginTypes, SendPlanTypes, RegisterTypes, TakeResultTypes, EndContextTypes, IterateTypes,
             StepTypes, HandOffTypes DEF Execution
<1>2. UNCHANGED <<backend, panel, moves, clicks, disturbed, foreign>> /\ overtaken' \in BOOLEAN
  BY DEF Executes, Types, CountTypes
<1> QED BY <1>1, <1>2, BackendStays, PanelStays DEF Types, CountTypes

(* The arm, and the emulator.                                              *)
LEMMA ArmEndsTypes ==
  ASSUME Types, ArmEnds
  PROVE  NodeTypes' /\ ExecutionTypes' /\ ArmTypes' /\ ContextTypes'
<1>1. UNCHANGED <<node, answers, controller, context, faults>>
  BY DEF ArmEnds
<1>2. ArmTypes'
  <2>1. motions' \in [Goals -> Motions] /\ \A g \in Goals : motions'[g] = "running" => motions[g] = "running"
    BY DEF ArmEnds, Types, ArmTypes, Motions
  <2> QED BY <2>1, <1>1, QuietTyped DEF Types
<1> QED BY <1>1, <1>2, SettingStays, RequestStays, AnswerStays, FaultStays, ExecutionStays, ContextStays
        DEF Types, NodeTypes, node

LEMMA EmulatorTypes ==
  ASSUME Types, EmulatorMoves
  PROVE  NodeTypes' /\ ExecutionTypes' /\ ArmTypes' /\ ContextTypes'
<1>1. UNCHANGED <<node, answers, arm, faults>> /\ RunEmulator
  BY DEF EmulatorMoves
<1> QED BY <1>1, EmulatorTyped, SettingStays, RequestStays, AnswerStays, FaultStays, ExecutionStays, ArmStays
        DEF Types, NodeTypes, node, arm

(* The backend.                                                            *)
LEMMA NewBackend ==
  ASSUME NEW b \in BackendStates, b.attempt <= b.targets, backend' = b,
         b.at = "executing" => b.execution \in Executions, b.at = "restoring" => b.original # Unknown
  PROVE  BackendTypes'
  BY DEF BackendTypes

LEMMA RetryTyped ==
  ASSUME NEW b \in BackendStates, b.attempt <= b.targets, backend' \in {Retry(b), ExecutionFailed(b)}
  PROVE  BackendTypes'
<1>1. CASE backend' = Retry(b)
  BY <1>1, RetryIs DEF BackendTypes
<1>2. CASE backend' = ExecutionFailed(b)
  BY <1>2, FailedIs DEF BackendTypes
<1> QED BY <1>1, <1>2

LEMMA CaptureTypes == ASSUME Types, Capture PROVE Types'
<1>1. UNCHANGED <<node, answers, arm, context, panel, moves, clicks, disturbed, overtaken, foreign>>
  BY DEF Capture
<1>2. FaultTypes'
  BY FaultTyped DEF Capture, Types, NodeTypes
<1>3. BackendTypes'
  BY DEF Capture, ActivePlanner, Types, NodeTypes, SettingTypes, BackendTypes, BackendStates
<1> QED BY <1>1, <1>2, <1>3, SettingStays, RequestStays, AnswerStays, ExecutionStays, ArmStays, ContextStays,
           PanelStays, CountStays DEF Types, NodeTypes, node, arm

LEMMA StartMoveTypes == ASSUME Types, StartMove PROVE Types'
<1>1. UNCHANGED <<plannerVars, panel, clicks, disturbed, overtaken, foreign>>
  BY DEF StartMove
<1>2. moves' \in 0 .. MaxMoves
  BY SessionAssumption DEF StartMove, Types, CountTypes
<1>3. BackendTypes'
  <2>1. PICK wanted \in {PosePlanner, "joint_space"}, targets \in Targets :
          backend' = [backend EXCEPT !.at = "select", !.wanted = wanted, !.attempt = 1, !.targets = targets,
                                     !.verdict = "none", !.followed = "none"]
    BY DEF StartMove
  <2>2. wanted \in Planners /\ 1 \in 0 .. MaxAttempts /\ 1 <= targets /\ "none" \in Plans
    BY SessionAssumption DEF Planners, Trajectory, Targets, Plans
  <2> QED BY <2>1, <2>2 DEF Types, BackendTypes, BackendStates
<1> QED BY <1>1, <1>2, <1>3, SettingStays, RequestStays, AnswerStays, FaultStays, ExecutionStays, ArmStays,
           ContextStays, PanelStays DEF Types, NodeTypes, CountTypes, plannerVars, node, arm

LEMMA EnsureTypes == ASSUME Types, Ensure PROVE Types'
<1>1. UNCHANGED <<current, flagged, mpcActive, live, executions, handle, answers, arm, panel, moves, clicks, foreign>>
      /\ disturbed' = FALSE /\ overtaken' = FALSE
  BY DEF Ensure
<1>2. SettingTypes'
  <2>1. planned' = [p \in Planners |-> IF planned[p] = "backend" THEN "old" ELSE planned[p]]
    BY DEF Ensure, Aged
  <2>2. planned' \in [Planners -> Plans]
    BY <2>1 DEF Types, NodeTypes, SettingTypes, Plans
  <2> QED BY <1>1, <2>2 DEF Types, NodeTypes, SettingTypes
<1>3. ContextTypes'
  <2>1. context' = [context EXCEPT !.command = IF context.command = "backend" THEN "old" ELSE context.command]
    BY DEF Ensure
  <2> QED BY <2>1 DEF Types, ContextTypes, ContextStates, Plans
<1>4. PICK fails \in BOOLEAN :
        LET known == IF fails THEN backend.known ELSE Refreshed
            b == [backend EXCEPT !.known = known, !.refreshed = ~ fails, !.planned = None]
        IN /\ IF fails THEN Fault ELSE Fine
           /\ IF known = backend.wanted
              THEN backend' = [b EXCEPT !.at = "prepare"] /\ UNCHANGED requests
              ELSE backend' = [b EXCEPT !.at = "setting"] /\ Call("backend", "set", backend.wanted, "none")
  BY DEF Ensure
<1>5. FaultTypes'
  BY <1>4, FaultTyped DEF Types, NodeTypes
<1>6. backend \in BackendStates /\ backend.wanted \in Planners /\ backend.attempt <= backend.targets
  BY DEF Types, BackendTypes, BackendStates
<1>7. RequestTypes'
  <2>1. backend.wanted \in Named /\ backend.wanted # None /\ "set" \in Kinds
    BY <1>6 DEF Named, Planners, Trajectory, None, Kinds
  <2>2. UNCHANGED requests \/ Call("backend", "set", backend.wanted, "none")
    BY <1>4
  <2> QED BY <2>1, <2>2, CallTyped, RequestStays, BothClients DEF Types, NodeTypes
<1>8. BackendTypes'
  <2> DEFINE known == IF fails THEN backend.known ELSE Refreshed
             b == [backend EXCEPT !.known = known, !.refreshed = ~ fails, !.planned = None]
  <2>1. known \in Planners \cup {Unknown} /\ None \in Named
    BY <1>6 DEF Refreshed, ActivePlanner, Types, NodeTypes, SettingTypes, BackendStates, Named
  <2> HIDE DEF known
  <2>2. b \in BackendStates /\ b.attempt <= b.targets
    BY <2>1, <1>6 DEF BackendStates
  <2>3. backend' = [b EXCEPT !.at = "prepare"] \/ backend' = [b EXCEPT !.at = "setting"]
    BY <1>4 DEF known
  <2> HIDE DEF b
  <2> QED BY <2>2, <2>3 DEF BackendTypes, BackendStates
<1> QED BY <1>1, <1>2, <1>3, <1>5, <1>7, <1>8, AnswerStays, ExecutionStays, ArmStays, PanelStays
        DEF Types, NodeTypes, CountTypes, arm

LEMMA PlannerSetTypes == ASSUME Types, PlannerSet PROVE Types'
<1>1. UNCHANGED <<node, arm, context, faults, panel, moves, clicks, disturbed, overtaken, foreign>>
  BY DEF PlannerSet
<1>2. AnswerTypes'
  BY ForgetTyped, BothClients DEF PlannerSet, Types, NodeTypes
<1>3. backend \in BackendStates /\ backend.attempt <= backend.targets
  BY DEF Types, BackendTypes
<1>4. BackendTypes'
  <2> DEFINE ok == answers["backend"].result = "ok"
  <2>1. \/ backend' = [backend EXCEPT !.at = "done", !.known = IF ok THEN backend.original ELSE backend.known,
                                      !.verdict = IF ok THEN "restored" ELSE "failed"]
        \/ backend' = [backend EXCEPT !.at = "prepare", !.known = backend.wanted]
        \/ backend' = Retry(backend)
    BY DEF PlannerSet
  <2> HIDE DEF ok
  <2>2. CASE backend' = [backend EXCEPT !.at = "done", !.known = IF ok THEN backend.original ELSE backend.known,
                                        !.verdict = IF ok THEN "restored" ELSE "failed"]
    BY <1>3, <2>2 DEF BackendTypes, BackendStates
  <2>3. CASE backend' = [backend EXCEPT !.at = "prepare", !.known = backend.wanted]
    BY <1>3, <2>3 DEF BackendTypes, BackendStates
  <2> QED BY <1>3, <2>1, <2>2, <2>3, RetryTyped
<1> QED BY <1>1, <1>2, <1>4, SettingStays, RequestStays, FaultStays, ExecutionStays, ArmStays, ContextStays,
           PanelStays, CountStays DEF Types, NodeTypes, node, arm

LEMMA RequestPlanTypes == ASSUME Types, RequestPlan PROVE Types'
<1>1. UNCHANGED <<current, planned, flagged, mpcActive, live, executions, handle, answers, arm, context, panel,
                  moves, clicks, disturbed, overtaken, foreign>>
  BY DEF RequestPlan
<1>2. backend \in BackendStates /\ backend.attempt <= backend.targets
  BY DEF Types, BackendTypes
<1>3. FaultTypes'
  BY FaultTyped DEF RequestPlan, Types, NodeTypes
<1>4. RequestTypes'
  <2>1. UNCHANGED requests \/ Call("backend", "generate", None, GoalOf(backend.wanted))
    BY DEF RequestPlan
  <2>2. /\ None \in Named /\ "generate" \in Kinds
        /\ GoalOf(backend.wanted) \in {"none", "pose", "joints"}
    BY DEF Named, Kinds, GoalOf
  <2> QED BY <2>1, <2>2, CallTyped, RequestStays, BothClients DEF Types, NodeTypes
<1>5. BackendTypes'
  <2>1. CASE backend' = [backend EXCEPT !.at = "planning"]
    BY <2>1, <1>2 DEF BackendTypes, BackendStates
  <2> QED BY <2>1, <1>2, RetryTyped DEF RequestPlan
<1> QED BY <1>1, <1>3, <1>4, <1>5, SettingStays, AnswerStays, ExecutionStays, ArmStays, ContextStays, PanelStays,
           CountStays DEF Types, NodeTypes, arm

LEMMA PlanAnsweredTypes == ASSUME Types, PlanAnswered PROVE Types'
<1>1. UNCHANGED <<node, arm, context, faults, panel, moves, clicks, disturbed, overtaken, foreign>>
  BY DEF PlanAnswered
<1>2. AnswerTypes'
  BY ForgetTyped, BothClients DEF PlanAnswered, Types, NodeTypes
<1>3. backend \in BackendStates /\ backend.attempt <= backend.targets
  BY DEF Types, BackendTypes
<1>4. BackendTypes'
  <2> DEFINE a == answers["backend"]
             b == [backend EXCEPT !.planned = a.planner]
  <2>1. a.planner \in Named
    BY BothClients DEF Types, NodeTypes, AnswerTypes, AnswerStates
  <2>2. b \in BackendStates /\ b.attempt <= b.targets
    BY <1>3, <2>1 DEF BackendStates
  <2>3. \/ backend' = Retry(b)
        \/ \E at \in {"submit", "switch"} : backend' = [b EXCEPT !.at = at]
    BY DEF PlanAnswered
  <2> HIDE DEF b
  <2>4. ASSUME NEW at \in {"submit", "switch"}, backend' = [b EXCEPT !.at = at] PROVE BackendTypes'
    BY <2>2, <2>4 DEF BackendTypes, BackendStates
  <2> QED BY <2>2, <2>3, <2>4, RetryTyped
<1> QED BY <1>1, <1>2, <1>4, SettingStays, RequestStays, FaultStays, ExecutionStays, ArmStays, ContextStays,
           PanelStays, CountStays DEF Types, NodeTypes, node, arm

LEMMA GiveUpTypes == ASSUME Types, GiveUp PROVE Types'
<1>1. UNCHANGED <<current, planned, flagged, mpcActive, live, executions, handle, answers, arm, context, panel,
                  moves, clicks, disturbed, overtaken, foreign>>
  BY DEF GiveUp
<1>2. RequestTypes' /\ FaultTypes'
  BY GivenUpTyped, FaultTyped, BothClients DEF GiveUp, Types, NodeTypes
<1>3. BackendTypes'
  <2>1. backend \in BackendStates /\ backend.attempt <= backend.targets
    BY DEF Types, BackendTypes
  <2>2. CASE backend' = [backend EXCEPT !.at = "done", !.verdict = "failed"]
    BY <2>1, <2>2 DEF BackendTypes, BackendStates
  <2> QED BY <2>1, <2>2, RetryTyped DEF GiveUp
<1> QED BY <1>1, <1>2, <1>3, SettingStays, AnswerStays, ExecutionStays, ArmStays, ContextStays, PanelStays,
           CountStays DEF Types, NodeTypes, arm

LEMMA SubmitTypes == ASSUME Types, Submit PROVE Types'
<1>1. UNCHANGED <<current, planned, flagged, mpcActive, live, requests, handle, answers, arm, context, faults,
                  panel, moves, clicks, disturbed, overtaken, foreign>>
  BY DEF Submit
<1>2. ExecutionTypes'
  BY <1>1, AcceptedTyped, BothClients DEF Submit, Types, ExecutionTypes
<1>3. BackendTypes'
  <2>1. /\ NewExecution \in Executions
        /\ backend' = [backend EXCEPT !.at = "executing", !.execution = NewExecution]
    BY NewIsFree DEF Submit
  <2> QED BY <2>1 DEF Types, BackendTypes, BackendStates
<1> QED BY <1>1, <1>2, <1>3, SettingStays, RequestStays, AnswerStays, FaultStays, ArmStays, ContextStays,
           PanelStays, CountStays DEF Types, NodeTypes, arm

LEMMA ArrivedIs ==
  ASSUME NEW b \in BackendStates, b.attempt <= b.targets, NEW follows \in Plans
  PROVE  /\ Arrived(b, follows) \in BackendStates
         /\ Arrived(b, follows).attempt <= Arrived(b, follows).targets
         /\ Arrived(b, follows).at = "idle" /\ Arrived(b, follows).verdict = "success"
         /\ Arrived(b, follows).followed = follows
         /\ Arrived(b, follows).known = b.known /\ Arrived(b, follows).original = b.original
  BY DEF Arrived, BackendStates

LEMMA ReleasedIs ==
  ASSUME NEW b \in BackendStates, b.attempt <= b.targets
  PROVE  LET c == [b EXCEPT !.execution = None] IN
         /\ c \in BackendStates /\ c.attempt <= c.targets
         /\ c.known = b.known /\ c.original = b.original /\ c.followed = b.followed /\ c.verdict = b.verdict
  BY DEF BackendStates

LEMMA ExecutionEndedTypes == ASSUME Types, ExecutionEnded PROVE Types'
<1> DEFINE e == backend.execution
<1>1. UNCHANGED <<current, planned, flagged, mpcActive, live, requests, handle, answers, arm, context, panel,
                  moves, clicks, disturbed, overtaken, foreign>>
  BY DEF ExecutionEnded
<1>2. backend \in BackendStates /\ backend.attempt <= backend.targets /\ e \in Executions
  BY DEF ExecutionEnded, Types, BackendTypes
<1>3. executions[e] \in ExecutionStates /\ ExecutionTypes
  BY <1>2 DEF Types, ExecutionTypes
<1>4. ExecutionTypes'
  <2>1. CASE executions' = [executions EXCEPT ![e] = NoExecution]
    BY <2>1, <1>1, <1>2, <1>3, NothingTyped, UpdateTyped
  <2>2. CASE executions' = [executions EXCEPT ![e].by = Nobody]
    <3> DEFINE x == [executions[e] EXCEPT !.by = Nobody]
    <3>1. x \in ExecutionStates /\ x.at = executions[e].at /\ x.planner = executions[e].planner
      BY <1>3 DEF ExecutionStates
    <3>2. executions' = [executions EXCEPT ![e] = x]
      BY <2>2, <1>3 DEF ExecutionTypes
    <3>3. x.at = "starting" => x.planner \in Planners
      BY <3>1, <1>2, <1>3 DEF ExecutionTypes
    <3> HIDE DEF x
    <3> QED BY <3>1, <3>2, <3>3, <1>1, <1>2, <1>3, UpdateTyped
  <2> QED BY <2>1, <2>2 DEF ExecutionEnded
<1>5. FaultTypes'
  BY FaultTyped DEF ExecutionEnded, Types, NodeTypes
<1>6. BackendTypes'
  <2>1. executions[e].follows \in Plans
    BY <1>3 DEF ExecutionStates
  <2>2. CASE backend' = Arrived(backend, executions[e].follows)
    BY <2>1, <2>2, <1>2, ArrivedIs, NewBackend
  <2>3. CASE backend' = ExecutionFailed([backend EXCEPT !.execution = None])
    <3> DEFINE c == [backend EXCEPT !.execution = None]
    <3>1. c \in BackendStates /\ c.attempt <= c.targets
      BY <1>2, ReleasedIs
    <3> HIDE DEF c
    <3>2. backend' = ExecutionFailed(c)
      BY <2>3 DEF c
    <3> QED BY <3>1, <3>2, RetryTyped
  <2> QED BY <2>2, <2>3 DEF ExecutionEnded
<1> QED BY <1>1, <1>4, <1>5, <1>6, SettingStays, RequestStays, AnswerStays, ArmStays, ContextStays,
           PanelStays, CountStays DEF Types, NodeTypes, arm

LEMMA SendTrajectoryTypes == ASSUME Types, SendTrajectory PROVE Types'
<1>1. UNCHANGED <<node, answers, context, panel, moves, clicks, disturbed, overtaken, foreign>>
  BY DEF SendTrajectory
<1>2. backend \in BackendStates /\ backend.attempt <= backend.targets
  BY DEF Types, BackendTypes
<1>3. CASE SwitchTo("trajectory") /\ backend' = [backend EXCEPT !.at = "send"] /\ Fine
  <2>1. BackendTypes'
    BY <1>2, <1>3 DEF BackendTypes, BackendStates
  <2>2. ArmTypes' /\ FaultTypes'
    BY <1>3, SwitchTyped, FaultTyped DEF Types, NodeTypes
  <2> QED BY <1>1, <2>1, <2>2, SettingStays, RequestStays, AnswerStays, ExecutionStays, ContextStays, PanelStays,
             CountStays DEF Types, NodeTypes, node
<1>4. CASE SwitchFails("trajectory") /\ backend' = ExecutionFailed(backend)
  <2>1. BackendTypes'
    BY <1>2, <1>4, RetryTyped
  <2>2. ArmTypes' /\ FaultTypes'
    BY <1>4, SwitchFailsTyped DEF Types, NodeTypes
  <2> QED BY <1>1, <2>1, <2>2, SettingStays, RequestStays, AnswerStays, ExecutionStays, ContextStays, PanelStays,
             CountStays DEF Types, NodeTypes, node
<1> QED BY <1>3, <1>4 DEF SendTrajectory

LEMMA SendArmGoalTypes == ASSUME Types, SendArmGoal PROVE Types'
<1>1. UNCHANGED <<node, answers, controller, context, faults, panel, moves, clicks, disturbed, overtaken, foreign>>
  BY DEF SendArmGoal
<1>2. ArmTypes'
  BY <1>1, SendTyped, BothClients DEF SendArmGoal, Types, Goals
<1>3. BackendTypes'
  BY DEF SendArmGoal, Types, BackendTypes, BackendStates
<1> QED BY <1>1, <1>2, <1>3, SettingStays, RequestStays, AnswerStays, FaultStays, ExecutionStays, ContextStays,
           PanelStays, CountStays DEF Types, NodeTypes, node

LEMMA ArmGoalEndedTypes == ASSUME Types, ArmGoalEnded PROVE Types'
<1>1. UNCHANGED <<node, answers, controller, context, panel, moves, clicks, disturbed, overtaken, foreign>>
  BY DEF ArmGoalEnded
<1>2. backend \in BackendStates /\ backend.attempt <= backend.targets
  BY DEF Types, BackendTypes
<1>3. FaultTypes'
  BY FaultTyped DEF ArmGoalEnded, Types, NodeTypes
<1>4. ArmTypes'
  <2>1. CASE motions' = [motions EXCEPT !["backend"] = "none"]
    <3>1. motions' \in [Goals -> Motions] /\ \A g \in Goals : motions'[g] = "running" => motions[g] = "running"
      BY <2>1 DEF Types, ArmTypes, Motions
    <3> QED BY <3>1, <1>1, QuietTyped DEF Types
  <2>2. CASE UNCHANGED motions
    BY <2>2, <1>1, ArmStays DEF Types
  <2> QED BY <2>1, <2>2 DEF ArmGoalEnded
<1>5. BackendTypes'
  <2>1. CASE backend' = Arrived(backend, "backend")
    <3>1. "backend" \in Plans
      BY BothClients DEF Plans
    <3> QED BY <2>1, <3>1, <1>2, ArrivedIs, NewBackend
  <2>2. CASE backend' = ExecutionFailed(backend)
    BY <2>2, <1>2, RetryTyped
  <2> QED BY <2>1, <2>2 DEF ArmGoalEnded
<1> QED BY <1>1, <1>3, <1>4, <1>5, SettingStays, RequestStays, AnswerStays, ExecutionStays, ContextStays,
           PanelStays, CountStays DEF Types, NodeTypes, node

LEMMA RestoreTypes == ASSUME Types, Restore PROVE Types'
<1>1. UNCHANGED <<current, planned, flagged, mpcActive, live, executions, handle, answers, arm, context, faults,
                  panel, moves, clicks, disturbed, overtaken, foreign>>
  BY DEF Restore
<1>2. backend \in BackendStates /\ backend.attempt <= backend.targets
  BY DEF Types, BackendTypes
<1>3. CASE backend' = [backend EXCEPT !.at = "done", !.verdict = "restored"] /\ UNCHANGED requests
  <2>1. BackendTypes'
    BY <1>2, <1>3 DEF BackendTypes, BackendStates
  <2> QED BY <1>1, <1>3, <2>1, SettingStays, RequestStays, AnswerStays, FaultStays, ExecutionStays, ArmStays,
             ContextStays, PanelStays, CountStays DEF Types, NodeTypes, arm
<1>4. CASE /\ backend.original # Unknown /\ backend' = [backend EXCEPT !.at = "restoring"]
           /\ Call("backend", "set", backend.original, "none")
  <2>1. BackendTypes'
    BY <1>2, <1>4 DEF BackendTypes, BackendStates
  <2>2. RequestTypes'
    <3>1. backend.original \in Named /\ backend.original # None /\ "set" \in Kinds
      BY <1>2, <1>4 DEF BackendStates, Named, Planners, Trajectory, None, Kinds
    <3> QED BY <3>1, <1>4, CallTyped, BothClients DEF Types, NodeTypes
  <2> QED BY <1>1, <2>1, <2>2, SettingStays, AnswerStays, FaultStays, ExecutionStays, ArmStays,
             ContextStays, PanelStays, CountStays DEF Types, NodeTypes, arm
<1> QED BY <1>3, <1>4 DEF Restore

LEMMA BackendStepTypes == ASSUME Types, Backend PROVE Types'
  BY CaptureTypes, StartMoveTypes, EnsureTypes, PlannerSetTypes, RequestPlanTypes,
     PlanAnsweredTypes, GiveUpTypes,
     SubmitTypes, ExecutionEndedTypes, SendTrajectoryTypes, SendArmGoalTypes, ArmGoalEndedTypes, RestoreTypes
     DEF Backend

(* The services, beside what the ghosts remember of them.                  *)
LEMMA ServiceTypes == ASSUME Types, Services PROVE Types'
<1>1. NodeTypes' /\ ExecutionTypes' /\ ArmTypes' /\ ContextTypes'
  BY SetPlannerTypes, BeginPlanningTypes, EndPlanningTypes DEF Services, PlannerServices
<1>2. /\ UNCHANGED <<backend, panel, moves, clicks, overtaken>> /\ disturbed' \in BOOLEAN
      /\ foreign' \in BOOLEAN
  BY DEF Services, Types, CountTypes
<1> QED BY <1>1, <1>2, BackendStays, PanelStays DEF Types, CountTypes

(* The panel.                                                              *)
LEMMA PressedIs ==
  ASSUME NEW p \in PanelStates
  PROVE  /\ Sending(p) \in PanelStates /\ Resting(p) \in PanelStates
         /\ Sending(p).waiting = p.waiting /\ Resting(p).waiting = p.waiting
         /\ Sending(p).tracking = p.tracking /\ Resting(p).tracking = p.tracking
         /\ Sending(p).call = p.call /\ Resting(p).call = p.call
  BY DEF PanelStates, Sending, Resting

LEMMA ClickTyped ==
  ASSUME CountTypes, Click, UNCHANGED <<moves, overtaken, foreign>>, disturbed' \in BOOLEAN
  PROVE  CountTypes'
  BY SessionAssumption DEF CountTypes, Click

LEMMA SelectPlannerTypes == ASSUME Types, SelectPlanner PROVE Types'
<1>1. UNCHANGED <<current, planned, flagged, mpcActive, live, executions, handle, answers, arm, context, faults,
                  backend, moves, disturbed, overtaken, foreign>>
  BY DEF SelectPlanner
<1>2. PICK p \in {"classic", "mpc", Unavailable} :
        /\ Call("panel", "set", p, "none") /\ panel' = [panel EXCEPT !.call = "set", !.selects = p]
  BY DEF SelectPlanner
<1>3. p \in Named /\ p # None /\ "set" \in Kinds
  BY DEF Named, Planners, Trajectory, None, Unavailable, Kinds
<1>4. RequestTypes'
  BY <1>2, <1>3, CallTyped, BothClients DEF Types, NodeTypes
<1>5. PanelTypes'
  BY <1>2, <1>3 DEF Types, PanelTypes, PanelStates
<1>6. CountTypes'
  BY <1>1, ClickTyped DEF SelectPlanner, Types, CountTypes
<1> QED BY <1>1, <1>4, <1>5, <1>6, SettingStays, AnswerStays, FaultStays, ExecutionStays, ArmStays, ContextStays,
           BackendStays DEF Types, NodeTypes, arm

LEMMA SelectStrategyTypes == ASSUME Types, SelectStrategy PROVE Types'
<1>1. /\ UNCHANGED <<node, answers, arm, faults, backend, panel, moves, overtaken, foreign>>
      /\ disturbed' = TRUE
  BY DEF SelectStrategy
<1>2. ContextTypes'
  BY HaltedTyped DEF SelectStrategy, SwitchStrategy, Selected, Types, ContextTypes
<1>3. CountTypes'
  BY <1>1, ClickTyped DEF SelectStrategy, Types, CountTypes
<1> QED BY <1>1, <1>2, <1>3, SettingStays, RequestStays, AnswerStays, FaultStays, ExecutionStays, ArmStays,
           BackendStays, PanelStays DEF Types, NodeTypes, node, arm

LEMMA GenerateTypes == ASSUME Types, Generate PROVE Types'
<1>1. UNCHANGED <<current, planned, flagged, mpcActive, live, executions, handle, answers, arm, context, faults,
                  backend, moves, disturbed, overtaken, foreign>>
  BY DEF Generate
<1>2. RequestTypes'
  <2>1. None \in Named /\ "generate" \in Kinds
    BY DEF Named, Kinds
  <2> QED BY <2>1, CallTyped, BothClients DEF Generate, Types, NodeTypes
<1>3. PanelTypes'
  BY DEF Generate, Types, PanelTypes, PanelStates
<1>4. CountTypes'
  BY <1>1, ClickTyped DEF Generate, Types, CountTypes
<1> QED BY <1>1, <1>2, <1>3, <1>4, SettingStays, AnswerStays, FaultStays, ExecutionStays, ArmStays, ContextStays,
           BackendStays DEF Types, NodeTypes, arm

LEMMA SendTypes == ASSUME Types, Send PROVE Types'
<1>1. UNCHANGED <<plannerVars, backend, moves, disturbed, overtaken, foreign>>
  BY DEF Send
<1>2. PanelTypes'
  BY DEF Send, Types, PanelTypes, PanelStates
<1>3. CountTypes'
  BY <1>1, ClickTyped DEF Send, Types, CountTypes
<1> QED BY <1>1, <1>2, <1>3, SettingStays, RequestStays, AnswerStays, FaultStays, ExecutionStays, ArmStays,
           ContextStays, BackendStays DEF Types, NodeTypes, plannerVars, node, arm

LEMMA StopTypes == ASSUME Types, Stop PROVE Types'
<1>1. UNCHANGED <<answers, faults, backend, moves, clicks, overtaken, foreign>>
  BY DEF Stop
<1>2. PanelTypes'
  <2>1. panel \in PanelStates /\ panel' = [Resting(panel) EXCEPT !.tracking = FALSE]
    BY DEF Stop, Types, PanelTypes
  <2>2. Resting(panel) \in PanelStates
    BY <2>1, PressedIs
  <2> DEFINE p == Resting(panel)
  <2> HIDE DEF p
  <2>3. p \in PanelStates /\ panel' = [p EXCEPT !.tracking = FALSE]
    BY <2>1, <2>2 DEF p
  <2> QED BY <2>3 DEF PanelTypes, PanelStates
<1> DEFINE e == panel.handle
           cancels == e # None /\ InProgress(e)
           stopped == (IF cancels THEN ArmGoalToCancel ELSE {}) \cup (IF panel.arm = "held" THEN {"panel"} ELSE {})
<1>3. /\ IF cancels THEN Canceled(e) ELSE UNCHANGED <<node, controller, context>>
      /\ disturbed' = (disturbed \/ cancels)
      /\ motions' = [g \in Goals |-> IF Moving(g) /\ g \in stopped THEN "canceled" ELSE motions[g]]
  BY Zenon DEF Stop
<1>4. cancels \in BOOLEAN
  OBVIOUS
<1> HIDE DEF cancels, stopped
<1>5. UNCHANGED <<current, planned, live, requests, executions, handle, controller>>
  BY <1>3 DEF Canceled, node
<1>6. SettingTypes'
  <2>1. flagged' \subseteq Trajectory /\ mpcActive' \in BOOLEAN
    BY <1>3 DEF Canceled, node, Types, NodeTypes, SettingTypes
  <2> QED BY <2>1, <1>5 DEF Types, NodeTypes, SettingTypes
<1>7. ContextTypes'
  BY <1>3, HaltedTyped DEF Canceled, Types, ContextTypes
<1>8. ArmTypes'
  <2>1. motions' \in [Goals -> Motions] /\ \A g \in Goals : motions'[g] = "running" => motions[g] = "running"
    BY <1>3 DEF Types, ArmTypes, Motions
  <2> QED BY <2>1, <1>5, QuietTyped DEF Types
<1>9. CountTypes'
  BY <1>1, <1>3, <1>4 DEF Types, CountTypes
<1> QED BY <1>1, <1>2, <1>5, <1>6, <1>7, <1>8, <1>9, RequestStays, AnswerStays, FaultStays, ExecutionStays,
           BackendStays DEF Types, NodeTypes

LEMMA UserTypes == ASSUME Types, User PROVE Types'
  BY SelectPlannerTypes, SelectStrategyTypes, GenerateTypes, SendTypes, StopTypes DEF User

LEMMA TakeAnswerTypes == ASSUME Types, TakeAnswer PROVE Types'
<1>1. UNCHANGED <<node, arm, context, faults, backend, moves, clicks, disturbed, overtaken, foreign>>
  BY DEF TakeAnswer
<1>2. AnswerTypes'
  BY ForgetTyped, BothClients DEF TakeAnswer, Types, NodeTypes
<1>3. PanelTypes'
  <2> DEFINE ok == answers["panel"].result = "ok"
             trajectory == IF ok /\ answers["panel"].planner \in Trajectory THEN "panel" ELSE "none"
  <2>1. trajectory \in {"none", "old", "panel"} /\ ok \in BOOLEAN
    OBVIOUS
  <2>2. /\ panel.call \in {"set", "generate", "generate and send", "track"}
        /\ panel' = CASE panel.call = "set" -> [panel EXCEPT !.call = "none", !.planner = IF ok THEN panel.selects ELSE panel.planner, !.selects = None]
                   [] panel.call = "generate" -> [panel EXCEPT !.call = "none", !.trajectory = trajectory]
                   [] panel.call = "generate and send" -> [panel EXCEPT !.call = IF trajectory = "none" THEN "none" ELSE "activate", !.trajectory = trajectory]
                   [] panel.call = "track" -> [panel EXCEPT !.call = IF ok THEN "start" ELSE "none", !.tracking = panel.tracking \/ ok]
    BY DEF TakeAnswer
  <2> HIDE DEF ok, trajectory
  <2>3. panel \in PanelStates /\ None \in Named
    BY DEF Types, PanelTypes, Named
  <2>4. CASE panel.call = "set"
    BY <2>1, <2>2, <2>3, <2>4 DEF PanelTypes, PanelStates
  <2>5. CASE panel.call = "generate"
    BY <2>1, <2>2, <2>3, <2>5 DEF PanelTypes, PanelStates
  <2>6. CASE panel.call = "generate and send"
    BY <2>1, <2>2, <2>3, <2>6 DEF PanelTypes, PanelStates
  <2>7. CASE panel.call = "track"
    BY <2>1, <2>2, <2>3, <2>7 DEF PanelTypes, PanelStates
  <2> QED BY <2>2, <2>4, <2>5, <2>6, <2>7
<1> QED BY <1>1, <1>2, <1>3, SettingStays, RequestStays, FaultStays, ExecutionStays, ArmStays, ContextStays,
           BackendStays, CountStays DEF Types, NodeTypes, node, arm

LEMMA LiveTyped ==
  ASSUME SettingTypes, TakeLiveGoal, UNCHANGED <<current, planned, flagged, mpcActive>>
  PROVE  SettingTypes'
  BY DEF SettingTypes, TakeLiveGoal

LEMMA StartExecutionTypes == ASSUME Types, StartExecution PROVE Types'
<1>1. UNCHANGED <<current, planned, flagged, mpcActive, requests, handle, answers, arm, context, faults, backend,
                  moves, clicks, disturbed, overtaken, foreign>>
  BY DEF StartExecution
<1>2. ExecutionTypes'
  BY <1>1, AcceptedTyped, BothClients DEF StartExecution, Types, ExecutionTypes
<1>3. SettingTypes'
  BY <1>1, LiveTyped DEF StartExecution, Types, NodeTypes
<1>4. PanelTypes'
  <2> DEFINE p == Sending(panel)
  <2>1. p \in PanelStates
    BY PressedIs DEF Types, PanelTypes
  <2>2. NewExecution \in Executions
    BY NewIsFree DEF StartExecution
  <2>3. panel' = [p EXCEPT !.call = "none", !.waiting = p.waiting \cup {NewExecution}]
    BY DEF StartExecution
  <2> HIDE DEF p
  <2> QED BY <2>1, <2>2, <2>3 DEF PanelTypes, PanelStates
<1> QED BY <1>1, <1>2, <1>3, <1>4, RequestStays, AnswerStays, FaultStays, ArmStays, ContextStays, BackendStays,
           CountStays DEF Types, NodeTypes, arm

LEMMA PublishGoalTypes == ASSUME Types, PublishGoal PROVE Types'
<1>1. UNCHANGED <<current, planned, flagged, mpcActive, requests, executions, handle, answers, arm, context, faults,
                  sessionVars>>
  BY DEF PublishGoal
<1>2. SettingTypes'
  BY <1>1, LiveTyped DEF PublishGoal, Types, NodeTypes
<1> QED BY <1>1, <1>2, RequestStays, AnswerStays, FaultStays, ExecutionStays, ArmStays, ContextStays, BackendStays,
           PanelStays, CountStays DEF Types, NodeTypes, arm, sessionVars

(* What changes the panel alone.                                           *)
LEMMA PanelAlone ==
  ASSUME Types, PanelTypes', UNCHANGED <<plannerVars, backend, moves, clicks, disturbed, overtaken, foreign>>
  PROVE  Types'
  BY SettingStays, RequestStays, AnswerStays, FaultStays, ExecutionStays, ArmStays, ContextStays,
     BackendStays,
     CountStays DEF Types, NodeTypes, plannerVars, node, arm

LEMMA HoldTypes == ASSUME Types, HoldExecution \/ HoldArmGoal PROVE Types'
<1>1. panel \in PanelStates
  BY DEF Types, PanelTypes
<1>2. CASE HoldExecution
  <2>1. PanelTypes'
    BY <1>1, <1>2 DEF HoldExecution, PanelTypes, PanelStates
  <2> QED BY <2>1, <1>2, PanelAlone DEF HoldExecution
<1>3. CASE HoldArmGoal
  <2> DEFINE p == Resting(panel)
  <2>1. p \in PanelStates
    BY <1>1, PressedIs
  <2>2. panel' = [p EXCEPT !.arm = "none"] \/ panel' = [panel EXCEPT !.arm = "held"]
    BY <1>3 DEF HoldArmGoal
  <2> HIDE DEF p
  <2>3. PanelTypes'
    BY <2>1, <2>2, <1>1 DEF PanelTypes, PanelStates
  <2> QED BY <2>3, <1>3, PanelAlone DEF HoldArmGoal
<1> QED BY <1>2, <1>3

LEMMA ReportedIs ==
  ASSUME NEW p \in PanelStates, p = panel, NEW e \in Executions
  PROVE  Reported(e) \in PanelStates /\ Reported(e).tracking = FALSE /\ Reported(e).waiting = p.waiting \ {e}
<1> DEFINE q == Resting(p)
<1>1. q \in PanelStates /\ q.waiting = p.waiting
  BY PressedIs
<1>2. Reported(e) = [q EXCEPT !.tracking = FALSE, !.waiting = q.waiting \ {e}, !.handle = IF q.handle = e THEN None ELSE q.handle]
  BY DEF Reported
<1> HIDE DEF q
<1>3. (IF q.handle = e THEN None ELSE q.handle) \in Executions \cup {None}
  BY <1>1 DEF PanelStates
<1>4. q.waiting \ {e} \in SUBSET Executions
  BY <1>1 DEF PanelStates
<1> DEFINE h == IF q.handle = e THEN None ELSE q.handle
           w == q.waiting \ {e}
<1>5. Reported(e) = [q EXCEPT !.tracking = FALSE, !.waiting = w, !.handle = h]
  BY <1>2
<1>6. h \in Executions \cup {None} /\ w \in SUBSET Executions /\ w = p.waiting \ {e}
  BY <1>1, <1>3, <1>4
<1> HIDE DEF h, w
<1>7. Reported(e) \in PanelStates
  BY <1>1, <1>5, <1>6 DEF PanelStates
<1>8. Reported(e).tracking = FALSE /\ Reported(e).waiting = w
  BY <1>1, <1>5 DEF PanelStates
<1> QED BY <1>6, <1>7, <1>8

LEMMA ExecutionReportedTypes == ASSUME Types, ExecutionReported PROVE Types'
<1>1. UNCHANGED <<current, planned, flagged, mpcActive, live, requests, handle, answers, arm, context, faults,
                  backend, moves, clicks, disturbed, overtaken, foreign>>
  BY DEF ExecutionReported
<1>2. PICK e \in panel.waiting : panel' = Reported(e) /\ executions' = [executions EXCEPT ![e] = NoExecution]
  BY DEF ExecutionReported
<1>3. panel \in PanelStates /\ e \in Executions
  BY DEF Types, PanelTypes, PanelStates
<1>4. PanelTypes'
  BY <1>2, <1>3, ReportedIs DEF PanelTypes
<1>5. ExecutionTypes'
  BY <1>1, <1>2, <1>3, NothingTyped, UpdateTyped DEF Types
<1> QED BY <1>1, <1>4, <1>5, SettingStays, RequestStays, AnswerStays, FaultStays, ArmStays, ContextStays,
           BackendStays, CountStays DEF Types, NodeTypes, arm

LEMMA ActivateTypes == ASSUME Types, Activate PROVE Types'
<1>1. UNCHANGED <<node, answers, context, backend, moves, clicks, disturbed, overtaken, foreign>>
  BY DEF Activate
<1>2. PanelTypes'
  BY DEF Activate, Types, PanelTypes, PanelStates
<1>3. ArmTypes' /\ FaultTypes'
  BY SwitchTyped, SwitchFailsTyped, FaultTyped DEF Activate, Types, NodeTypes
<1> QED BY <1>1, <1>2, <1>3, SettingStays, RequestStays, AnswerStays, ExecutionStays, ContextStays, BackendStays,
           CountStays DEF Types, NodeTypes, node

LEMMA MoveArmTypes == ASSUME Types, MoveArm PROVE Types'
<1>1. UNCHANGED <<node, answers, controller, context, faults, backend, moves, clicks, disturbed, overtaken, foreign>>
  BY DEF MoveArm
<1>2. ArmTypes'
  BY <1>1, SendTyped, BothClients DEF MoveArm, Types, Goals
<1>3. PanelTypes'
  <2> DEFINE p == Sending(panel)
  <2>1. p \in PanelStates
    BY PressedIs DEF Types, PanelTypes
  <2>2. panel' = [p EXCEPT !.call = "none", !.arm = "sent"]
    BY DEF MoveArm
  <2> HIDE DEF p
  <2> QED BY <2>1, <2>2 DEF PanelTypes, PanelStates
<1> QED BY <1>1, <1>2, <1>3, SettingStays, RequestStays, AnswerStays, FaultStays, ExecutionStays, ContextStays,
           BackendStays, CountStays DEF Types, NodeTypes, node

LEMMA ArmGoalReportedTypes == ASSUME Types, ArmGoalReported PROVE Types'
<1>1. UNCHANGED <<node, answers, controller, context, faults, backend, moves, clicks, disturbed, overtaken, foreign>>
  BY DEF ArmGoalReported
<1>2. ArmTypes'
  <2>1. motions' = [motions EXCEPT !["panel"] = "none"]
    BY DEF ArmGoalReported
  <2>2. motions' \in [Goals -> Motions] /\ \A g \in Goals : motions'[g] = "running" => motions[g] = "running"
    BY <2>1 DEF Types, ArmTypes, Motions
  <2> QED BY <2>2, <1>1, QuietTyped DEF Types
<1>3. PanelTypes'
  <2> DEFINE p == Resting(panel)
  <2>1. p \in PanelStates
    BY PressedIs DEF Types, PanelTypes
  <2>2. panel' = [p EXCEPT !.arm = "none"]
    BY DEF ArmGoalReported
  <2> HIDE DEF p
  <2> QED BY <2>1, <2>2 DEF PanelTypes, PanelStates
<1> QED BY <1>1, <1>2, <1>3, SettingStays, RequestStays, AnswerStays, FaultStays, ExecutionStays, ContextStays,
           BackendStays, CountStays DEF Types, NodeTypes, node

LEMMA PanelStepTypes == ASSUME Types, PanelCallbacks PROVE Types'
  BY TakeAnswerTypes, StartExecutionTypes, PublishGoalTypes, HoldTypes, ExecutionReportedTypes,
     ActivateTypes,
     MoveArmTypes, ArmGoalReportedTypes DEF PanelCallbacks

LEMMA StepKeepsTypes == Types /\ [Next]_vars => Types'
<1> SUFFICES ASSUME Types, [Next]_vars PROVE Types'
  OBVIOUS
<1>1. CASE UNCHANGED vars
  BY <1>1, PanelAlone, PanelStays DEF vars, sessionVars, Types
<1>2. CASE (ArmEnds \/ EmulatorMoves) /\ UNCHANGED sessionVars
  BY <1>2, ArmEndsTypes, EmulatorTypes, BackendStays, PanelStays, CountStays DEF Types, sessionVars
<1> QED BY <1>1, <1>2, ServiceTypes, BackendStepTypes, PanelStepTypes, UserTypes, ExecutionStepTypes DEF Next

LEMMA TypesImplyTypeOK == Types => TypeOK
<1> SUFFICES ASSUME Types PROVE TypeOK
  OBVIOUS
<1>1. current \in Planners /\ planned \in [Planners -> Plans] /\ flagged \subseteq Trajectory
      /\ mpcActive \in BOOLEAN /\ live \in BOOLEAN /\ faults \in 0 .. MaxFaults
  BY DEF Types, NodeTypes, SettingTypes, FaultTypes
<1>2. ASSUME NEW r \in requests
      PROVE  r.kind \in {"set", "generate"} /\ r.by \in Clients /\ r.planner \in Planners \cup {None, Unavailable}
             /\ r.goal \in {"none", "pose", "joints"}
  BY <1>2 DEF Types, NodeTypes, RequestTypes, RequestStates, Kinds, Named
<1>3. ASSUME NEW e \in Executions
      PROVE  executions[e].planner \in Planners \cup {None} /\ executions[e].steps \in 0 .. MaxIterations - 1
  BY <1>3 DEF Types, ExecutionTypes, ExecutionStates
<1>4. handle \in Executions \cup {None} /\ controller \in {"trajectory", "stream"}
      /\ motions \in [Goals -> {"none", "running", "success", "failed", "canceled", "rejected"}]
  BY DEF Types, ExecutionTypes, ArmTypes, Motions
<1>5. Cardinality({g \in Goals : Moving(g)}) <= 1
  <2> DEFINE S == {g \in Goals : Moving(g)}
  <2>1. CASE S = {}
    BY <2>1, FS_EmptySet
  <2>2. CASE S # {}
    <3>1. PICK g \in Goals : S = {g}
      BY <2>2 DEF Types, ArmTypes
    <3> QED BY <3>1, FS_Singleton
  <2> QED BY <2>1, <2>2
<1>6. context.command \in Plans /\ context.at \in {"rest", "running", "done", "stopped", "error"}
  BY DEF Types, ContextTypes, ContextStates
<1>7. PlannerTypeOK
  BY <1>1, <1>2, <1>3, <1>4, <1>5, <1>6 DEF PlannerTypeOK
<1>8. /\ backend.wanted \in Planners /\ backend.attempt \in 0 .. backend.targets /\ backend.targets \in Targets
      /\ backend.known \in Planners \cup {Unknown} /\ backend.original \in Planners \cup {Unknown}
      /\ backend.followed \in Plans
  BY SessionAssumption DEF Types, BackendTypes, BackendStates, Targets
<1>9. panel.waiting \subseteq Executions /\ panel.handle \in Executions \cup {None}
  BY DEF Types, PanelTypes, PanelStates
<1> QED BY <1>7, <1>8, <1>9 DEF TypeOK, Types, CountTypes

LEMMA AlwaysTyped == Spec => []Types
  BY InitTypes, StepKeepsTypes, PTL DEF Spec

(* Every variable keeps its type, and one goal moves the arm at most,      *)
(* whatever the two clients, the executions and the arm do.                *)
THEOREM SessionTypeCorrect == Spec => []TypeOK
  BY AlwaysTyped, TypesImplyTypeOK, PTL

-----------------------------------------------------------------------------
(* The panel tracks the marker while it waits for an execution.            *)
LEMMA TrackingKept ==
  ASSUME Types, TrackingHasExecution, PanelCallbacks \/ User
  PROVE  TrackingHasExecution'
<1>1. panel \in PanelStates
  BY DEF Types, PanelTypes
<1>2. CASE SelectPlanner \/ Generate \/ Send \/ SelectStrategy
  BY <1>1, <1>2 DEF SelectPlanner, Generate, Send, SelectStrategy, TrackingHasExecution, PanelStates
<1>3. CASE Stop
  <2> DEFINE p == Resting(panel)
  <2>1. p \in PanelStates
    BY <1>1, PressedIs
  <2>2. panel' = [p EXCEPT !.tracking = FALSE]
    BY <1>3 DEF Stop
  <2> HIDE DEF p
  <2> QED BY <2>1, <2>2 DEF TrackingHasExecution, PanelStates
<1>4. CASE TakeAnswer
  <2> DEFINE ok == answers["panel"].result = "ok"
             trajectory == IF ok /\ answers["panel"].planner \in Trajectory THEN "panel" ELSE "none"
  <2>1. ok \in BOOLEAN
    OBVIOUS
  <2>2. /\ panel.call \in {"set", "generate", "generate and send", "track"}
        /\ panel' = CASE panel.call = "set" -> [panel EXCEPT !.call = "none", !.planner = IF ok THEN panel.selects ELSE panel.planner, !.selects = None]
                   [] panel.call = "generate" -> [panel EXCEPT !.call = "none", !.trajectory = trajectory]
                   [] panel.call = "generate and send" -> [panel EXCEPT !.call = IF trajectory = "none" THEN "none" ELSE "activate", !.trajectory = trajectory]
                   [] panel.call = "track" -> [panel EXCEPT !.call = IF ok THEN "start" ELSE "none", !.tracking = panel.tracking \/ ok]
    BY <1>4 DEF TakeAnswer
  <2> HIDE DEF ok, trajectory
  <2>3. CASE panel.call = "track"
    BY <2>1, <2>2, <2>3, <1>1 DEF TrackingHasExecution, PanelStates
  <2>4. CASE panel.call # "track"
    <3>1. panel'.tracking = panel.tracking /\ panel'.waiting = panel.waiting
      BY <2>2, <2>4, <1>1 DEF PanelStates
    <3> QED BY <3>1, <2>2, <2>4 DEF TrackingHasExecution
  <2> QED BY <2>3, <2>4
<1>5. CASE StartExecution
  <2> DEFINE p == Sending(panel)
  <2>1. p \in PanelStates
    BY <1>1, PressedIs
  <2>2. panel' = [p EXCEPT !.call = "none", !.waiting = p.waiting \cup {NewExecution}]
    BY <1>5 DEF StartExecution
  <2> HIDE DEF p
  <2> QED BY <2>1, <2>2 DEF TrackingHasExecution, PanelStates
<1>6. CASE ExecutionReported
  <2>1. PICK e \in panel.waiting : panel' = Reported(e)
    BY <1>6 DEF ExecutionReported
  <2> QED BY <2>1, <1>1, ReportedIs DEF TrackingHasExecution, PanelStates
<1>7. CASE MoveArm
  <2> DEFINE p == Sending(panel)
  <2>1. /\ p \in PanelStates /\ p.waiting = panel.waiting /\ p.tracking = panel.tracking
        /\ panel.call = "send"
    BY <1>1, <1>7, PressedIs DEF MoveArm
  <2>2. panel' = [p EXCEPT !.call = "none", !.arm = "sent"]
    BY <1>7 DEF MoveArm
  <2> HIDE DEF p
  <2> QED BY <2>1, <2>2 DEF TrackingHasExecution, PanelStates
<1>8. CASE HoldArmGoal \/ ArmGoalReported
  <2> DEFINE p == Resting(panel)
  <2>1. /\ p \in PanelStates /\ p.waiting = panel.waiting /\ p.tracking = panel.tracking
        /\ p.call = panel.call
    BY <1>1, PressedIs
  <2>2. panel' = [p EXCEPT !.arm = "none"] \/ panel' = [panel EXCEPT !.arm = "held"]
    BY <1>8 DEF HoldArmGoal, ArmGoalReported
  <2> HIDE DEF p
  <2> QED BY <2>1, <2>2, <1>1 DEF TrackingHasExecution, PanelStates
<1>9. CASE PublishGoal \/ HoldExecution \/ Activate
  BY <1>1, <1>9 DEF PublishGoal, HoldExecution, Activate, sessionVars, TrackingHasExecution,
     PanelStates
<1> QED BY <1>2, <1>3, <1>4, <1>5, <1>6, <1>7, <1>8, <1>9 DEF PanelCallbacks, User

(* The panel publishes live goals only while an execution of its own has   *)
(* not been reported to it, however its buttons, answers and results come  *)
(* (publishMpcGoal, goal_response_callback, result_callback).              *)
THEOREM TrackingIsOwned == Spec => []TrackingHasExecution
<1>1. Init => TrackingHasExecution
  BY DEF Init, TrackingHasExecution
<1>2. Types /\ TrackingHasExecution /\ [Next]_vars => TrackingHasExecution'
  <2> SUFFICES ASSUME Types, TrackingHasExecution, [Next]_vars PROVE TrackingHasExecution'
    OBVIOUS
  <2>1. CASE Services \/ Backend \/ (\E e \in Executions : Executes(e))
             \/ ((ArmEnds \/ EmulatorMoves) /\ UNCHANGED sessionVars) \/ UNCHANGED vars
    <3>1. UNCHANGED panel
      BY <2>1 DEF Services, Backend, Capture, StartMove, Ensure, PlannerSet, RequestPlan,
         PlanAnswered, GiveUp,
         Submit, ExecutionEnded, SendTrajectory, SendArmGoal, ArmGoalEnded, Restore, Executes, vars, sessionVars
    <3> QED BY <3>1 DEF TrackingHasExecution
  <2> QED BY <2>1, TrackingKept DEF Next
<1> QED BY <1>1, <1>2, AlwaysTyped, PTL DEF Spec

-----------------------------------------------------------------------------
(* The calls of the backend.                                               *)
NothingPending == (\A r \in requests : ~ Pending(r)) /\ ~ Answered("backend")

LEMMA NonePending == AsksHold /\ (backend.at \notin Waits \/ Answered("backend")) => \A r \in requests : ~ Pending(r)
  BY DEF AsksHold, AskedFor, Waits

LEMMA NoneAsked == ASSUME NothingPending' PROVE AsksHold'
  BY DEF NothingPending, AsksHold

(* A call that is served.                                                  *)
LEMMA AskAnswered ==
  ASSUME Types, AsksHold, NEW r \in requests, NEW ok \in BOOLEAN, NEW p \in Named, Answer(r, ok, p),
         UNCHANGED backend
  PROVE  AsksHold'
<1>1. requests' = requests \ {r}
  BY DEF Answer
<1>2. CASE Pending(r)
  <2>1. \A q \in requests' : ~ Pending(q)
    BY <1>1, <1>2 DEF AsksHold
  <2>2. backend.at \in Waits
    BY <1>2 DEF AsksHold, AskedFor, Waits
  <2> QED BY <1>1, <2>1, <2>2 DEF AsksHold, Waits, Pending
<1>3. CASE ~ Pending(r)
  <2>1. answers'["backend"] = answers["backend"]
    BY <1>3, BothClients DEF Answer, Pending, Types, NodeTypes, AnswerTypes
  <2> QED BY <1>1, <2>1 DEF AsksHold, AskedFor, Pending, Answered
<1> QED BY <1>2, <1>3

LEMMA ServicesKeepAsks == ASSUME Types, AsksHold, Services PROVE AsksHold'
<1>1. UNCHANGED backend
  BY DEF Services
<1>2. CASE ServeSetPlanner
  <2>1. PICK r \in requests : \E ok \in BOOLEAN : Answer(r, ok, r.planner) \/ Answer(r, ok, current)
    BY <1>2 DEF ServeSetPlanner
  <2>2. r.planner \in Named /\ current \in Named
    BY DEF Types, NodeTypes, RequestTypes, RequestStates, SettingTypes, Named
  <2> QED BY <2>1, <2>2, <1>1, AskAnswered
<1>3. CASE EndPlanning
  <2>1. PICK r \in requests : \E ok \in BOOLEAN : Answer(r, ok, r.planner)
    BY <1>3 DEF EndPlanning
  <2>2. r.planner \in Named
    BY DEF Types, NodeTypes, RequestTypes, RequestStates
  <2> QED BY <2>1, <2>2, <1>1, AskAnswered
<1>4. CASE BeginPlanning
  <2>1. PICK r \in requests : /\ r.kind = "generate"
                              /\ requests' = (requests \ {r}) \cup {[r EXCEPT !.begun = TRUE, !.planner = current]}
    BY <1>4 DEF BeginPlanning
  <2> DEFINE q == [r EXCEPT !.begun = TRUE, !.planner = current]
  <2>2. q.kind = r.kind /\ q.by = r.by /\ q.late = r.late
    BY BegunIs DEF Types, NodeTypes, RequestTypes, SettingTypes
  <2> HIDE DEF q
  <2>3. requests' = (requests \ {r}) \cup {q} /\ UNCHANGED answers
    BY <2>1, <1>4 DEF q, BeginPlanning
  <2>4. Pending(q) = Pending(r) /\ (Pending(r) => backend.at = "planning")
    BY <2>1, <2>2 DEF Pending, AsksHold, AskedFor
  <2>5. ASSUME NEW x \in requests', Pending(x)
        PROVE  AskedFor(x)' /\ ~ Answered("backend")' /\ \A y \in requests' : Pending(y) => x = y
    <3>1. CASE x = q
      BY <3>1, <2>1, <2>2, <2>3, <2>4, <2>5, <1>1 DEF AsksHold, AskedFor, Answered
    <3>2. CASE x # q
      BY <3>2, <2>3, <2>4, <2>5, <1>1 DEF AsksHold, AskedFor, Answered
    <3> QED BY <3>1, <3>2
  <2>6. Answered("backend")' => backend'.at \in Waits
    BY <2>3, <1>1 DEF AsksHold, Answered
  <2> QED BY <2>5, <2>6 DEF AsksHold, Pending
<1> QED BY <1>2, <1>3, <1>4 DEF Services, PlannerServices

(* A call that the backend makes when it has none.                         *)
LEMMA AskMade ==
  ASSUME NothingPending, UNCHANGED answers, NEW kind \in Kinds, NEW p, NEW goal,
         Call("backend", kind, p, goal),
         \/ backend'.at = "setting" /\ kind = "set" /\ p = backend'.wanted
         \/ backend'.at = "restoring" /\ kind = "set" /\ p = backend'.original
         \/ backend'.at = "planning" /\ kind = "generate"
  PROVE  AsksHold'
<1> DEFINE r == [kind |-> kind, by |-> "backend", planner |-> p, goal |-> goal, begun |-> FALSE, late |-> FALSE]
<1>1. requests' = requests \cup {r} /\ r.kind = kind /\ r.planner = p
  BY DEF Call
<1> HIDE DEF r
<1>2. \A q \in requests' : Pending(q) => q = r
  BY <1>1 DEF NothingPending
<1>3. AskedFor(r)' /\ ~ Answered("backend")'
  BY <1>1 DEF AskedFor, Answered, NothingPending
<1> QED BY <1>2, <1>3 DEF AsksHold, Pending

LEMMA BackendKeepsAsks == ASSUME Types, AsksHold, Backend PROVE AsksHold'
<1>1. ASSUME backend.at \notin Waits PROVE NothingPending
  BY <1>1, NonePending DEF NothingPending, AsksHold
<1>2. ASSUME NothingPending, UNCHANGED requests, answers'["backend"] = answers["backend"] PROVE AsksHold'
  BY <1>2, NoneAsked DEF NothingPending, Answered
<1>3. CASE Capture \/ StartMove \/ Submit \/ ExecutionEnded \/ SendTrajectory \/ SendArmGoal \/ ArmGoalEnded
  <2>1. UNCHANGED <<requests, answers>>
    BY <1>3 DEF Capture, StartMove, Submit, ExecutionEnded, SendTrajectory, SendArmGoal,
       ArmGoalEnded, plannerVars, node
  <2>2. backend.at \notin Waits
    BY <1>3 DEF Capture, StartMove, Submit, ExecutionEnded, SendTrajectory, SendArmGoal,
       ArmGoalEnded, Waits
  <2> QED BY <2>1, <2>2, <1>1, <1>2
<1>4. CASE Ensure
  <2>1. NothingPending /\ UNCHANGED answers
    BY <1>1, <1>4 DEF Ensure, Waits
  <2>2. PICK fails \in BOOLEAN :
        LET known == IF fails THEN backend.known ELSE Refreshed
            b == [backend EXCEPT !.known = known, !.refreshed = ~ fails, !.planned = None]
        IN  IF known = backend.wanted
            THEN backend' = [b EXCEPT !.at = "prepare"] /\ UNCHANGED requests
            ELSE backend' = [b EXCEPT !.at = "setting"] /\ Call("backend", "set", backend.wanted, "none")
    BY <1>4 DEF Ensure
  <2>3. CASE UNCHANGED requests
    BY <2>1, <2>3, <1>2
  <2>4. CASE ~ UNCHANGED requests
    <3>1. /\ Call("backend", "set", backend.wanted, "none") /\ backend'.at = "setting"
          /\ backend'.wanted = backend.wanted
      BY <2>2, <2>4 DEF Types, BackendTypes, BackendStates
    <3> QED BY <2>1, <3>1, AskMade DEF Kinds
  <2> QED BY <2>3, <2>4
<1>5. CASE RequestPlan
  <2>1. NothingPending /\ UNCHANGED answers
    BY <1>1, <1>5 DEF RequestPlan, Waits
  <2>2. CASE UNCHANGED requests
    BY <2>1, <2>2, <1>2
  <2>3. CASE ~ UNCHANGED requests
    <3>1. Call("backend", "generate", None, GoalOf(backend.wanted)) /\ backend'.at = "planning"
      BY <1>5, <2>3 DEF RequestPlan, Types, BackendTypes, BackendStates
    <3> QED BY <2>1, <3>1, AskMade DEF Kinds
  <2> QED BY <2>2, <2>3
<1>6. CASE Restore
  <2>1. NothingPending /\ UNCHANGED answers
    BY <1>1, <1>6 DEF Restore, Waits
  <2>2. CASE UNCHANGED requests
    BY <2>1, <2>2, <1>2
  <2>3. CASE ~ UNCHANGED requests
    <3>1. /\ Call("backend", "set", backend.original, "none") /\ backend'.at = "restoring"
          /\ backend'.original = backend.original
      BY <1>6, <2>3 DEF Restore, Types, BackendTypes, BackendStates
    <3> QED BY <2>1, <3>1, AskMade DEF Kinds
  <2> QED BY <2>2, <2>3
<1>7. CASE PlannerSet \/ PlanAnswered
  <2>1. Answered("backend") /\ UNCHANGED requests /\ Forget("backend")
    BY <1>7 DEF PlannerSet, PlanAnswered, node
  <2>2. ~ Answered("backend")'
    BY <2>1, BothClients DEF Forget, Answered, NoAnswer, Types, NodeTypes, AnswerTypes
  <2>3. \A r \in requests' : ~ Pending(r)
    BY <2>1, NonePending
  <2> QED BY <2>2, <2>3, NoneAsked DEF NothingPending, Pending
<1>8. CASE GiveUp
  <2>1. ~ Answered("backend")'
    BY <1>8 DEF GiveUp, Answered
  <2>2. \A r \in requests' : ~ Pending(r)
    <3>1. requests' = {[r EXCEPT !.late = @ \/ r.by = "backend"] : r \in requests}
      BY <1>8 DEF GiveUp, GiveUpCall
    <3>2. ASSUME NEW r \in requests PROVE ~ Pending([r EXCEPT !.late = @ \/ r.by = "backend"])
      BY DEF Pending, Types, NodeTypes, RequestTypes, RequestStates
    <3> QED BY <3>1, <3>2
  <2> QED BY <2>1, <2>2, NoneAsked DEF NothingPending, Pending
<1> QED BY <1>3, <1>4, <1>5, <1>6, <1>7, <1>8 DEF Backend

(* The panel has calls of its own.                                         *)
LEMMA PanelCalls ==
  ASSUME Types, PanelCallbacks \/ User \/ (\E e \in Executions : Executes(e))
                \/ ((ArmEnds \/ EmulatorMoves) /\ UNCHANGED sessionVars) \/ UNCHANGED vars
  PROVE  /\ UNCHANGED backend /\ answers'["backend"] = answers["backend"]
         /\ requests \subseteq requests' /\ \A r \in requests' : Pending(r) => r \in requests
<1>1. CASE SelectPlanner \/ Generate
  <2>1. \E kind \in Kinds, p \in Named, goal \in {"none", "pose"} : Call("panel", kind, p, goal)
    BY <1>1 DEF SelectPlanner, Generate, Kinds, Named, Planners, Trajectory
  <2>2. UNCHANGED <<backend, answers>>
    BY <1>1 DEF SelectPlanner, Generate
  <2> QED BY <2>1, <2>2 DEF Call, Pending
<1>2. CASE TakeAnswer
  BY <1>2, BothClients DEF TakeAnswer, node, Forget, Types, NodeTypes, AnswerTypes
<1>3. CASE SelectStrategy \/ Send \/ Stop
  BY <1>3 DEF SelectStrategy, Send, Stop, Canceled, node, plannerVars
<1>4. CASE StartExecution \/ PublishGoal \/ HoldExecution \/ ExecutionReported \/ Activate \/ MoveArm
           \/ HoldArmGoal \/ ArmGoalReported
  BY <1>4 DEF StartExecution, PublishGoal, HoldExecution, ExecutionReported, Activate, MoveArm,
     HoldArmGoal,
     ArmGoalReported, node, plannerVars, sessionVars
<1>5. CASE \E e \in Executions : Executes(e)
  <2>1. PICK e \in Executions : Executes(e)
    BY <1>5
  <2>2. UNCHANGED <<requests, answers, backend>>
    BY <2>1 DEF Executes, Execution, BeginExecution, SendPlan, RegisterGoal, TakeResult,
       EndContext, Iterate, Step, HandOff
  <2> QED BY <2>2
<1>6. CASE ((ArmEnds \/ EmulatorMoves) /\ UNCHANGED sessionVars) \/ UNCHANGED vars
  BY <1>6 DEF ArmEnds, EmulatorMoves, vars, plannerVars, node, sessionVars
<1> QED BY <1>1, <1>2, <1>3, <1>4, <1>5, <1>6 DEF PanelCallbacks, User

LEMMA OthersKeepAsks ==
  ASSUME Types, AsksHold, UNCHANGED backend, answers'["backend"] = answers["backend"],
         \A r \in requests' : Pending(r) => r \in requests
  PROVE  AsksHold'
  BY DEF AsksHold, AskedFor, Pending, Answered

LEMMA StepKeepsAsks == ASSUME Types, AsksHold, [Next]_vars PROVE AsksHold'
  BY ServicesKeepAsks, BackendKeepsAsks, PanelCalls, OthersKeepAsks DEF Next

-----------------------------------------------------------------------------
(* What the backend believes.                                              *)
LEMMA AnswerIs ==
  ASSUME Types, NEW r \in requests, NEW ok \in BOOLEAN, NEW p, Answer(r, ok, p)
  PROVE  /\ Served = {r}
         /\ Pending(r) => /\ answers'["backend"].result = (IF ok THEN "ok" ELSE "failed")
                          /\ answers'["backend"].planner = p
         /\ ~ Pending(r) => answers'["backend"] = answers["backend"] /\ Meddles(r)
         /\ requests' \subseteq requests
<1>1. r.by \in Clients /\ r.late \in BOOLEAN
  BY DEF Types, NodeTypes, RequestTypes, RequestStates
<1> QED BY <1>1, BothClients DEF Answer, Served, Pending, Meddles, Types, NodeTypes, AnswerTypes

LEMMA ServicesKeepBelief == ASSUME Types, AsksHold, BeliefHolds, Services PROVE BeliefHolds'
<1>1. UNCHANGED backend /\ disturbed' = (disturbed \/ \E r \in Served : Meddles(r))
  BY DEF Services
<1>2. backend.at \in InMove => backend.known = backend.wanted
  BY DEF BeliefHolds
<1>3. CASE disturbed'
  BY <1>1, <1>2, <1>3 DEF BeliefHolds
<1>4. CASE ~ disturbed'
  <2>1. ~ disturbed /\ \A r \in Served : ~ Meddles(r)
    BY <1>1, <1>4
  <2>2. CASE ServeSetPlanner
    <3>1. PICK r \in requests :
            /\ r.kind = "set"
            /\ \/ current' = r.planner /\ Answer(r, TRUE, r.planner)
               \/ Answer(r, FALSE, r.planner) \/ Answer(r, FALSE, current)
      BY <2>2 DEF ServeSetPlanner, Switch
    <3>2. Pending(r) /\ requests' = requests \ {r}
      BY <3>1, <2>1, AnswerIs DEF Answer
    <3>3. /\ backend.at \in {"setting", "restoring"} /\ (backend.at = "setting" => r.planner = backend.wanted)
          /\ \A q \in requests' : ~ Pending(q)
      BY <3>1, <3>2 DEF AsksHold, AskedFor
    <3>4. Told("ok")' => current' = r.planner
      BY <3>1, <3>2, AnswerIs DEF Told
    <3> QED BY <3>3, <3>4, <1>1, <1>2 DEF BeliefHolds, InMove, Driving, Pending
  <2>3. CASE EndPlanning
    <3>1. PICK r \in requests : r.begun /\ \E ok \in BOOLEAN : Answer(r, ok, r.planner)
      BY <2>3 DEF EndPlanning
    <3>2. Pending(r) /\ requests' = requests \ {r} /\ answers'["backend"].planner = r.planner
      BY <3>1, <2>1, AnswerIs DEF Answer
    <3>3. backend.at = "planning" /\ \A q \in requests' : ~ Pending(q)
      BY <3>1, <3>2 DEF AsksHold, AskedFor, Types, NodeTypes, RequestTypes, Asked
    <3>4. r.planner = current /\ UNCHANGED current
      BY <3>1, <3>2, <2>1, <2>3 DEF BeliefHolds, EndPlanning
    <3> QED BY <3>2, <3>3, <3>4, <1>1, <1>2, <2>1 DEF BeliefHolds, InMove, Driving, Pending
  <2>4. CASE BeginPlanning
    <3>1. PICK r \in requests : requests' = (requests \ {r}) \cup {[r EXCEPT !.begun = TRUE, !.planner = current]}
      BY <2>4 DEF BeginPlanning
    <3> DEFINE q == [r EXCEPT !.begun = TRUE, !.planner = current]
    <3>2. q.planner = current
      BY BegunIs DEF Types, NodeTypes, RequestTypes, SettingTypes
    <3> HIDE DEF q
    <3>3. requests' = (requests \ {r}) \cup {q} /\ UNCHANGED <<answers, current>>
      BY <3>1, <2>4 DEF q, BeginPlanning
    <3> QED BY <3>2, <3>3, <1>1, <1>2, <2>1 DEF BeliefHolds, Pending, Told
  <2> QED BY <2>2, <2>3, <2>4 DEF Services, PlannerServices
<1> QED BY <1>3, <1>4

LEMMA OthersLeave ==
  ASSUME Types, PanelCallbacks \/ User \/ (\E e \in Executions : Executes(e))
                \/ ((ArmEnds \/ EmulatorMoves) /\ UNCHANGED sessionVars) \/ UNCHANGED vars
  PROVE  UNCHANGED <<current, foreign>> /\ (disturbed => disturbed')
<1>1. CASE User
  <2>1. UNCHANGED <<current, foreign>>
    BY <1>1 DEF User, SelectPlanner, SelectStrategy, Generate, Send, Stop, Canceled, node,
       plannerVars
  <2>2. UNCHANGED disturbed \/ disturbed' = TRUE \/ \E cancels \in BOOLEAN : disturbed' = (disturbed \/ cancels)
    <3>1. CASE Stop
      <4>1. (panel.handle # None /\ InProgress(panel.handle)) \in BOOLEAN
        OBVIOUS
      <4> QED BY <3>1, <4>1 DEF Stop
    <3>2. CASE SelectPlanner \/ SelectStrategy \/ Generate \/ Send
      BY <3>2 DEF SelectPlanner, SelectStrategy, Generate, Send
    <3> QED BY <1>1, <3>1, <3>2 DEF User
  <2>3. disturbed => disturbed'
    BY <2>2, Zenon
  <2> QED BY <2>1, <2>3
<1>2. CASE PanelCallbacks
  <2>1. UNCHANGED <<current, foreign, disturbed>>
    BY <1>2 DEF PanelCallbacks, TakeAnswer, StartExecution, PublishGoal, HoldExecution,
       ExecutionReported, Activate,
       MoveArm, HoldArmGoal, ArmGoalReported, node, plannerVars, sessionVars
  <2> QED BY <2>1
<1>3. CASE \E e \in Executions : Executes(e)
  <2>1. UNCHANGED <<current, foreign, disturbed>>
    BY <1>3 DEF Executes, Execution, BeginExecution, SendPlan, RegisterGoal, TakeResult,
       EndContext, Iterate, Step, HandOff
  <2> QED BY <2>1
<1>4. CASE ((ArmEnds \/ EmulatorMoves) /\ UNCHANGED sessionVars) \/ UNCHANGED vars
  <2>1. UNCHANGED <<current, foreign, disturbed>>
    BY <1>4 DEF ArmEnds, EmulatorMoves, vars, plannerVars, node, sessionVars
  <2> QED BY <2>1
<1> QED BY <1>1, <1>2, <1>3, <1>4

LEMMA OthersKeepBelief ==
  ASSUME Types, BeliefHolds, UNCHANGED <<backend, current>>, answers'["backend"] = answers["backend"],
         disturbed => disturbed', \A r \in requests' : Pending(r) => r \in requests
  PROVE  BeliefHolds'
  BY DEF BeliefHolds, Pending, Told

(* The same of the backend where its own step asks nothing and drives      *)
(* nothing.                                                                *)
LEMMA AtRestBelieves ==
  ASSUME backend'.at \notin InMove \cup {"setting"}, \A r \in requests' : ~ Pending(r)
  PROVE  BeliefHolds'
  BY DEF BeliefHolds, InMove, Driving, Pending

LEMMA EnsureIs ==
  ASSUME Types, Ensure
  PROVE  \E fails \in BOOLEAN :
           LET known == IF fails THEN backend.known ELSE current IN
           /\ backend'.known = known /\ backend'.refreshed = ~ fails /\ backend'.wanted = backend.wanted
           /\ backend'.original = backend.original /\ backend'.verdict = backend.verdict
           /\ backend'.followed = backend.followed
           /\ IF known = backend.wanted THEN backend'.at = "prepare" /\ UNCHANGED requests
              ELSE backend'.at = "setting" /\ Call("backend", "set", backend.wanted, "none")
<1>1. PICK fails \in BOOLEAN :
        LET known == IF fails THEN backend.known ELSE Refreshed
            b == [backend EXCEPT !.known = known, !.refreshed = ~ fails, !.planned = None]
        IN  IF known = backend.wanted
            THEN backend' = [b EXCEPT !.at = "prepare"] /\ UNCHANGED requests
            ELSE backend' = [b EXCEPT !.at = "setting"] /\ Call("backend", "set", backend.wanted, "none")
  BY DEF Ensure
<1>2. backend \in BackendStates
  BY DEF Types, BackendTypes
<1> DEFINE known == IF fails THEN backend.known ELSE current
           b == [backend EXCEPT !.known = known, !.refreshed = ~ fails, !.planned = None]
<1>3. IF known = backend.wanted
      THEN backend' = [b EXCEPT !.at = "prepare"] /\ UNCHANGED requests
      ELSE backend' = [b EXCEPT !.at = "setting"] /\ Call("backend", "set", backend.wanted, "none")
  BY <1>1 DEF Refreshed, ActivePlanner
<1>4. /\ DOMAIN b = DOMAIN backend /\ b.known = known /\ b.refreshed = ~ fails /\ b.wanted = backend.wanted
      /\ b.original = backend.original /\ b.verdict = backend.verdict /\ b.followed = backend.followed
  BY <1>2 DEF BackendStates
<1>5. \A at \in {"prepare", "setting"} :
        LET c == [b EXCEPT !.at = at] IN
        /\ c.at = at /\ c.known = b.known /\ c.refreshed = b.refreshed /\ c.wanted = b.wanted
        /\ c.original = b.original /\ c.verdict = b.verdict /\ c.followed = b.followed
  BY <1>2 DEF BackendStates
<1> HIDE DEF known, b
<1>6. /\ backend'.known = known /\ backend'.refreshed = ~ fails /\ backend'.wanted = backend.wanted
      /\ backend'.original = backend.original /\ backend'.verdict = backend.verdict
      /\ backend'.followed = backend.followed
      /\ IF known = backend.wanted THEN backend'.at = "prepare" /\ UNCHANGED requests
         ELSE backend'.at = "setting" /\ Call("backend", "set", backend.wanted, "none")
  BY <1>3, <1>4, <1>5
<1> QED BY <1>6 DEF known

LEMMA BackendKeepsBelief == ASSUME Types, AsksHold, BeliefHolds, Backend PROVE BeliefHolds'
<1>1. backend \in BackendStates /\ backend.attempt <= backend.targets
  BY DEF Types, BackendTypes
<1>2. CASE Capture \/ StartMove \/ Restore
  <2>1. backend'.at \in {"idle", "select", "done", "restoring"}
    BY <1>1, <1>2 DEF Capture, StartMove, Restore, BackendStates
  <2>2. \A r \in requests' : Pending(r) => r \in requests \/ r.begun = FALSE
    <3>1. UNCHANGED requests \/ Call("backend", "set", backend.original, "none")
      BY <1>2 DEF Capture, StartMove, Restore, node, plannerVars
    <3> QED BY <3>1 DEF Call
  <2>3. \A r \in requests : ~ Pending(r)
    BY <1>2, NonePending DEF Capture, StartMove, Restore, Waits
  <2> QED BY <2>1, <2>2, <2>3 DEF BeliefHolds, InMove, Driving, Pending
<1>3. CASE Ensure
  <2>1. \A r \in requests : ~ Pending(r)
    BY <1>3, NonePending DEF Ensure, Waits
  <2>2. PICK fails \in BOOLEAN :
           LET known == IF fails THEN backend.known ELSE current IN
           /\ backend'.known = known /\ backend'.refreshed = ~ fails /\ backend'.wanted = backend.wanted
           /\ IF known = backend.wanted THEN backend'.at = "prepare" /\ UNCHANGED requests
              ELSE backend'.at = "setting" /\ Call("backend", "set", backend.wanted, "none")
    BY <1>3, EnsureIs
  <2>3. UNCHANGED <<current, answers>>
    BY <1>3 DEF Ensure
  <2>4. CASE backend'.at = "prepare"
    BY <2>1, <2>2, <2>3, <2>4 DEF BeliefHolds, InMove, Driving, Pending
  <2>5. CASE backend'.at = "setting"
    <3>1. ~ Told("ok")'
      BY <1>3, <2>3 DEF AsksHold, Ensure, Waits, Told, Answered
    <3>2. \A r \in requests' : Pending(r) => r.begun = FALSE
      BY <2>1, <2>2, <2>5 DEF Call
    <3> QED BY <2>5, <3>1, <3>2 DEF BeliefHolds, InMove, Driving, Pending
  <2> QED BY <2>2, <2>4, <2>5
<1>4. CASE PlannerSet
  <2>1. UNCHANGED <<requests, current, disturbed>> /\ \A r \in requests : ~ Pending(r)
    BY <1>4, NonePending DEF PlannerSet, node
  <2>2. CASE backend' = [backend EXCEPT !.at = "prepare", !.known = backend.wanted]
             /\ backend.at = "setting" /\ Told("ok")
    <3>1. /\ backend'.at = "prepare" /\ backend'.known = backend'.wanted /\ backend'.wanted = backend.wanted
          /\ backend'.refreshed = backend.refreshed
      BY <1>1, <2>2 DEF BackendStates
    <3> QED BY <2>1, <2>2, <3>1 DEF BeliefHolds, InMove, Driving, Pending
  <2>3. CASE backend'.at \in {"done", "select", "idle"}
    BY <2>1, <2>3, AtRestBelieves DEF InMove, Pending
  <2>4. backend'.at = "done" \/ backend' = Retry(backend)
        \/ (backend' = [backend EXCEPT !.at = "prepare", !.known = backend.wanted] /\ backend.at = "setting" /\ Told("ok"))
    BY <1>1, <1>4 DEF PlannerSet, Told, BackendStates
  <2> QED BY <1>1, <2>2, <2>3, <2>4, RetryIs
<1>5. CASE RequestPlan
  <2>1. UNCHANGED <<current, disturbed, answers>> /\ \A r \in requests : ~ Pending(r)
    BY <1>5, NonePending DEF RequestPlan, Waits
  <2>2. CASE backend' = [backend EXCEPT !.at = "planning"]
    <3>1. /\ backend'.at = "planning" /\ backend'.known = backend.known /\ backend'.wanted = backend.wanted
          /\ backend'.refreshed = backend.refreshed /\ backend.at = "prepare"
      BY <1>1, <1>5, <2>2 DEF BackendStates, RequestPlan
    <3>2. ~ Told("ok")'
      BY <2>1, <3>1 DEF AsksHold, Waits, Told, Answered
    <3>3. \A r \in requests' : Pending(r) => r.begun = FALSE
      BY <2>1, <1>5 DEF RequestPlan, Call
    <3> QED BY <2>1, <3>1, <3>2, <3>3 DEF BeliefHolds, InMove, Driving, Pending
  <2>3. CASE backend' = Retry(backend) /\ UNCHANGED requests
    <3>1. backend'.at \in {"select", "idle"}
      BY <1>1, <2>3, RetryIs
    <3> QED BY <2>1, <2>3, <3>1, AtRestBelieves DEF InMove, Pending
  <2> QED BY <1>5, <2>2, <2>3 DEF RequestPlan
<1>6. CASE PlanAnswered
  <2> DEFINE a == answers["backend"]
             b == [backend EXCEPT !.planned = a.planner]
  <2>1. UNCHANGED <<requests, current, disturbed>> /\ \A r \in requests : ~ Pending(r)
    BY <1>6, NonePending DEF PlanAnswered, node
  <2>2. a.planner \in Named
    BY BothClients DEF Types, NodeTypes, AnswerTypes, AnswerStates
  <2>3. /\ b \in BackendStates /\ b.attempt <= b.targets /\ b.planned = a.planner /\ b.known = backend.known
        /\ b.wanted = backend.wanted /\ b.refreshed = backend.refreshed
    BY <1>1, <2>2 DEF BackendStates
  <2>4. backend' = Retry(b) \/ (Usable(a) /\ \E at \in {"submit", "switch"} : backend' = [b EXCEPT !.at = at])
    BY <1>6 DEF PlanAnswered
  <2> HIDE DEF b
  <2>5. CASE backend' = Retry(b)
    <3>1. backend'.at \in {"select", "idle"}
      BY <2>3, <2>5, RetryIs
    <3> QED BY <2>1, <3>1, AtRestBelieves DEF InMove, Pending
  <2>6. ASSUME NEW at \in {"submit", "switch"}, backend' = [b EXCEPT !.at = at], Usable(a) PROVE BeliefHolds'
    <3>1. /\ backend'.at = at /\ backend'.planned = a.planner /\ backend'.known = backend.known
          /\ backend'.wanted = backend.wanted /\ backend'.refreshed = backend.refreshed
      BY <2>3, <2>6 DEF BackendStates
    <3>2. backend.at = "planning" /\ Told("ok")
      BY <1>6, <2>6 DEF PlanAnswered, Usable, Told
    <3> QED BY <2>1, <3>1, <3>2 DEF BeliefHolds, InMove, Driving, Pending
  <2> QED BY <2>4, <2>5, <2>6
<1>7. CASE GiveUp
  <2>1. backend'.at \in {"done", "select", "idle"}
    BY <1>1, <1>7, RetryIs DEF GiveUp, BackendStates
  <2>2. \A r \in requests' : ~ Pending(r)
    <3>1. requests' = {[r EXCEPT !.late = @ \/ r.by = "backend"] : r \in requests}
      BY <1>7 DEF GiveUp, GiveUpCall
    <3>2. ASSUME NEW r \in requests PROVE ~ Pending([r EXCEPT !.late = @ \/ r.by = "backend"])
      BY DEF Pending, Types, NodeTypes, RequestTypes, RequestStates
    <3> QED BY <3>1, <3>2
  <2> QED BY <2>1, <2>2, AtRestBelieves DEF InMove, Pending
<1>8. CASE Submit \/ SendTrajectory \/ SendArmGoal \/ ExecutionEnded \/ ArmGoalEnded
  <2>1. UNCHANGED <<requests, current, disturbed>> /\ \A r \in requests : ~ Pending(r)
    BY <1>8, NonePending DEF Submit, SendTrajectory, SendArmGoal, ExecutionEnded, ArmGoalEnded,
       node, Waits
  <2>2. CASE /\ backend'.at \in Driving /\ backend.at \in Driving /\ backend'.known = backend.known
             /\ backend'.wanted = backend.wanted /\ backend'.refreshed = backend.refreshed
             /\ backend'.planned = backend.planned
    BY <2>1, <2>2 DEF BeliefHolds, InMove, Driving, Pending
  <2>3. CASE backend'.at \in {"idle", "select"}
    BY <2>1, <2>3, AtRestBelieves DEF InMove, Pending
  <2>4. CASE Submit \/ SendArmGoal
    BY <1>1, <2>2, <2>4 DEF Submit, SendArmGoal, BackendStates, Driving
  <2>5. CASE SendTrajectory
    BY <1>1, <2>2, <2>3, <2>5, FailedIs DEF SendTrajectory, BackendStates, Driving
  <2>6. CASE ExecutionEnded
    <3> DEFINE c == [backend EXCEPT !.execution = None]
    <3>1. c \in BackendStates /\ c.attempt <= c.targets
      BY <1>1, ReleasedIs
    <3>2. backend'.at \in {"idle", "select"}
      <4>1. CASE backend' = Arrived(backend, executions[backend.execution].follows)
        BY <1>1, <4>1 DEF Arrived, BackendStates
      <4>2. CASE backend' = ExecutionFailed(c)
        BY <3>1, <4>2, FailedIs
      <4> QED BY <2>6, <4>1, <4>2 DEF ExecutionEnded
    <3> QED BY <3>2, <2>3
  <2>7. CASE ArmGoalEnded
    <3>1. CASE backend' = Arrived(backend, "backend")
      BY <1>1, <3>1, <2>3 DEF Arrived, BackendStates
    <3>2. CASE backend' = ExecutionFailed(backend)
      BY <1>1, <3>2, <2>3, FailedIs
    <3> QED BY <2>7, <3>1, <3>2 DEF ArmGoalEnded
  <2> QED BY <1>8, <2>4, <2>5, <2>6, <2>7
<1> QED BY <1>2, <1>3, <1>4, <1>5, <1>6, <1>7, <1>8 DEF Backend

LEMMA StepKeepsBelief == ASSUME Types, AsksHold, BeliefHolds, [Next]_vars PROVE BeliefHolds'
  BY ServicesKeepBelief, BackendKeepsBelief, PanelCalls, OthersLeave, OthersKeepBelief DEF Next

(* Whether the planner was restored.                                       *)
LEMMA ServicesKeepOriginal == ASSUME Types, AsksHold, OriginalHolds, Services PROVE OriginalHolds'
<1>1. /\ UNCHANGED backend
      /\ foreign' = (foreign \/ \E r \in Served : r.kind = "set" /\ (Meddles(r) \/ faults' # faults))
  BY DEF Services
<1>2. CASE foreign' \/ backend.original = Unknown
  BY <1>1, <1>2 DEF OriginalHolds
<1>3. CASE ~ foreign' /\ backend.original # Unknown
  <2>1. ~ foreign /\ \A r \in Served : r.kind = "set" => ~ Meddles(r) /\ faults' = faults
    BY <1>1, <1>3
  <2>2. CASE ServeSetPlanner
    <3>1. PICK r \in requests :
            /\ r.kind = "set"
            /\ \/ Switch(r.planner) /\ Answer(r, TRUE, r.planner)
               \/ Answer(r, FALSE, r.planner) /\ Fault
               \/ r.planner = Unavailable /\ Answer(r, FALSE, current)
      BY <2>2 DEF ServeSetPlanner
    <3>2. Pending(r) /\ faults' = faults
      BY <3>1, <2>1, AnswerIs
    <3>3. ~ Fault
      BY <3>2 DEF Fault, Types, NodeTypes, FaultTypes
    <3>4. r.planner \in Planners /\ \/ backend.at = "setting" /\ r.planner = backend.wanted
                                    \/ backend.at = "restoring" /\ r.planner = backend.original
      BY <3>1, <3>2, <1>3 DEF AsksHold, AskedFor, Types, BackendTypes, BackendStates
    <3>5. current' = r.planner /\ Told("ok")'
      BY <3>1, <3>2, <3>3, <3>4, AnswerIs DEF Switch, Unavailable, Planners, Trajectory, Told
    <3> QED BY <3>4, <3>5, <1>1 DEF OriginalHolds, Told, Answered
  <2>3. CASE EndPlanning
    <3>1. PICK r \in requests : r.begun /\ \E ok \in BOOLEAN : Answer(r, ok, r.planner)
      BY <2>3 DEF EndPlanning
    <3>2. UNCHANGED current
      BY <2>3 DEF EndPlanning
    <3>3. CASE Pending(r)
      <4>1. backend.at = "planning"
        BY <3>1, <3>3 DEF AsksHold, AskedFor, Types, NodeTypes, RequestTypes, Asked
      <4> QED BY <4>1, <3>2, <1>1, <1>3, <2>1 DEF OriginalHolds
    <3>4. CASE ~ Pending(r)
      <4>1. answers'["backend"] = answers["backend"]
        BY <3>1, <3>4, AnswerIs
      <4> QED BY <4>1, <3>2, <1>1, <1>3, <2>1 DEF OriginalHolds, Told, Answered
    <3> QED BY <3>3, <3>4
  <2>4. CASE BeginPlanning
    BY <2>4, <1>1, <1>3, <2>1 DEF BeginPlanning, OriginalHolds, Told, Answered
  <2> QED BY <2>2, <2>3, <2>4 DEF Services, PlannerServices
<1> QED BY <1>2, <1>3

LEMMA OthersKeepOriginal ==
  ASSUME OriginalHolds, UNCHANGED <<backend, current, foreign>>, answers'["backend"] = answers["backend"]
  PROVE  OriginalHolds'
  BY DEF OriginalHolds, Told, Answered

(* Where the backend goes on without an answer.                            *)
LEMMA KnownStays ==
  ASSUME OriginalHolds, UNCHANGED <<current, foreign>>, ~ Answered("backend"),
         ~ Answered("backend")', backend'.known = backend.known, backend'.original = backend.original,
         backend.at # "new", backend'.at # "new", backend'.verdict # "restored"
  PROVE  OriginalHolds'
  BY DEF OriginalHolds, Told, Answered

LEMMA BackendKeepsOriginal == ASSUME Types, AsksHold, OriginalHolds, Backend PROVE OriginalHolds'
<1>1. backend \in BackendStates /\ backend.attempt <= backend.targets
  BY DEF Types, BackendTypes
<1>2. backend.at # "done" => backend.verdict # "restored"
  BY DEF OriginalHolds
<1>3. CASE Capture
  <2>1. UNCHANGED <<foreign, current, answers>> /\ backend.at = "new"
    BY <1>3 DEF Capture, node
  <2>2. CASE backend' = [backend EXCEPT !.at = "idle", !.known = current, !.original = current]
    BY <1>1, <1>2, <2>1, <2>2 DEF OriginalHolds, BackendStates, Told
  <2>3. CASE backend' = [backend EXCEPT !.at = "idle"]
    <3>1. backend'.original = Unknown /\ backend'.at = "idle" /\ backend'.verdict = backend.verdict
      BY <1>1, <2>1, <2>3 DEF OriginalHolds, BackendStates
    <3> QED BY <3>1, <1>2, <2>1 DEF OriginalHolds
  <2> QED BY <1>3, <2>2, <2>3 DEF Capture, ActivePlanner
<1>4. CASE Ensure
  <2>1. PICK fails \in BOOLEAN :
           /\ backend'.known = (IF fails THEN backend.known ELSE current)
           /\ backend'.original = backend.original /\ backend'.verdict = backend.verdict
           /\ backend'.at \in {"prepare", "setting"}
    BY <1>4, EnsureIs
  <2>2. UNCHANGED <<current, foreign, answers>> /\ ~ Answered("backend") /\ backend.at = "select"
    BY <1>4 DEF Ensure, AsksHold, Waits
  <2>3. ~ Answered("backend")' /\ ~ Told("failed")'
    BY <2>2 DEF Answered, Told
  <2> QED BY <2>1, <2>2, <2>3, <1>2 DEF OriginalHolds
<1>5. CASE PlannerSet
  <2>1. UNCHANGED <<current, foreign>> /\ Answered("backend") /\ Forget("backend")
        /\ backend.at \in {"setting", "restoring"}
    BY <1>5 DEF PlannerSet, node
  <2>2. ~ Answered("backend")' /\ ~ Told("failed")'
    BY <2>1, BothClients DEF Forget, Answered, Told, NoAnswer, Types, NodeTypes, AnswerTypes
  <2>3. Told("ok") \/ Told("failed")
    BY <2>1, BothClients DEF Told, Answered, Types, NodeTypes, AnswerTypes, AnswerStates
  <2>4. CASE backend.at = "restoring" /\ Told("ok")
    <3>1. backend' = [backend EXCEPT !.at = "done", !.known = backend.original, !.verdict = "restored"]
      BY <1>5, <2>4 DEF PlannerSet, Told
    <3>2. /\ backend'.at = "done" /\ backend'.known = backend.original /\ backend'.original = backend.original
          /\ backend'.verdict = "restored"
      BY <3>1, <1>1 DEF BackendStates
    <3> QED BY <3>2, <2>1, <2>2, <2>4 DEF OriginalHolds, Told
  <2>5. CASE backend.at = "restoring" /\ ~ Told("ok")
    <3>1. backend' = [backend EXCEPT !.at = "done", !.known = backend.known, !.verdict = "failed"]
      BY <1>5, <2>5 DEF PlannerSet, Told
    <3>2. /\ backend'.at = "done" /\ backend'.original = backend.original /\ backend'.verdict = "failed"
      BY <3>1, <1>1 DEF BackendStates
    <3> QED BY <3>2, <2>1, <2>3, <2>5 DEF OriginalHolds
  <2>6. CASE backend.at = "setting" /\ Told("ok")
    <3>1. backend' = [backend EXCEPT !.at = "prepare", !.known = backend.wanted]
      BY <1>5, <2>6 DEF PlannerSet, Told
    <3>2. /\ backend'.at = "prepare" /\ backend'.original = backend.original /\ backend'.verdict = backend.verdict
          /\ backend'.known = backend.wanted
      BY <3>1, <1>1 DEF BackendStates
    <3> QED BY <3>2, <2>1, <2>2, <2>6, <1>2 DEF OriginalHolds
  <2>7. CASE backend.at = "setting" /\ ~ Told("ok")
    <3>1. backend' = Retry(backend)
      BY <1>5, <2>7 DEF PlannerSet, Told
    <3>2. /\ backend'.at \in {"select", "idle"} /\ backend'.original = backend.original
          /\ backend'.verdict # "restored"
      BY <3>1, <1>1, <1>2, <2>7, RetryIs
    <3> QED BY <3>2, <2>1, <2>3, <2>7 DEF OriginalHolds
  <2> QED BY <2>1, <2>4, <2>5, <2>6, <2>7
<1>6. CASE PlanAnswered
  <2> DEFINE a == answers["backend"]
             b == [backend EXCEPT !.planned = a.planner]
  <2>1. UNCHANGED <<current, foreign>> /\ Forget("backend") /\ backend.at = "planning"
    BY <1>6 DEF PlanAnswered, node
  <2>2. ~ Answered("backend")'
    BY <2>1, BothClients DEF Forget, Answered, NoAnswer, Types, NodeTypes, AnswerTypes
  <2>3. a.planner \in Named
    BY BothClients DEF Types, NodeTypes, AnswerTypes, AnswerStates
  <2>4. /\ b \in BackendStates /\ b.attempt <= b.targets /\ b.known = backend.known
        /\ b.original = backend.original /\ b.verdict = backend.verdict
    BY <1>1, <2>3 DEF BackendStates
  <2>5. backend' = Retry(b) \/ \E at \in {"submit", "switch"} : backend' = [b EXCEPT !.at = at]
    BY <1>6 DEF PlanAnswered
  <2> HIDE DEF b
  <2>6. /\ backend'.known = b.known /\ backend'.original = b.original /\ backend'.verdict # "restored"
        /\ backend'.at \in {"select", "idle", "submit", "switch"}
    <3>1. CASE backend' = Retry(b)
      BY <3>1, <2>4, <2>1, <1>2, RetryIs
    <3>2. ASSUME NEW at \in {"submit", "switch"}, backend' = [b EXCEPT !.at = at]
          PROVE  /\ backend'.known = b.known /\ backend'.original = b.original /\ backend'.verdict # "restored"
                 /\ backend'.at = at
      BY <3>2, <2>4, <2>1, <1>2 DEF BackendStates
    <3> QED BY <3>1, <3>2, <2>5
  <2> QED BY <2>1, <2>2, <2>4, <2>6 DEF OriginalHolds
<1>7. CASE ExecutionEnded
  <2> DEFINE c == [backend EXCEPT !.execution = None]
  <2>1. UNCHANGED <<current, foreign, answers>> /\ backend.at = "executing" /\ ~ Answered("backend")
    BY <1>7 DEF ExecutionEnded, AsksHold, Waits
  <2>2. /\ c \in BackendStates /\ c.attempt <= c.targets /\ c.known = backend.known
        /\ c.original = backend.original /\ c.verdict = backend.verdict
    BY <1>1, ReleasedIs
  <2>3. /\ backend'.known = backend.known /\ backend'.original = backend.original
        /\ backend'.at \in {"select", "idle"} /\ backend'.verdict # "restored"
    <3>1. CASE backend' = Arrived(backend, executions[backend.execution].follows)
      BY <1>1, <3>1 DEF Arrived, BackendStates
    <3>2. CASE backend' = ExecutionFailed(c)
      <4> HIDE DEF c
      <4> QED BY <3>2, <2>1, <2>2, <1>2, FailedIs
    <3> QED BY <1>7, <3>1, <3>2 DEF ExecutionEnded
  <2> QED BY <2>1, <2>3, KnownStays DEF Answered
<1>8. CASE StartMove \/ RequestPlan \/ GiveUp \/ Submit \/ SendTrajectory \/ SendArmGoal \/ ArmGoalEnded
  <2>1. /\ UNCHANGED <<current, foreign, answers>> /\ ~ Answered("backend")
        /\ backend.at \notin {"new", "done"}
    BY <1>8 DEF StartMove, RequestPlan, GiveUp, Submit, SendTrajectory, SendArmGoal, ArmGoalEnded,
       AsksHold, Waits,
       plannerVars, node
  <2>2. CASE /\ backend'.known = backend.known /\ backend'.original = backend.original
             /\ backend'.at # "new" /\ backend'.verdict \in {"none", "failed", "success", backend.verdict}
    BY <2>1, <2>2, <1>2, KnownStays DEF Answered
  <2>3. CASE StartMove
    BY <1>1, <2>2, <2>3 DEF StartMove, BackendStates
  <2>4. CASE RequestPlan
    BY <1>1, <2>2, <2>4, RetryIs DEF RequestPlan, BackendStates
  <2>5. CASE GiveUp
    BY <1>1, <2>2, <2>5, RetryIs DEF GiveUp, BackendStates
  <2>6. CASE Submit \/ SendArmGoal
    BY <1>1, <2>2, <2>6 DEF Submit, SendArmGoal, BackendStates
  <2>7. CASE SendTrajectory
    BY <1>1, <2>2, <2>7, FailedIs DEF SendTrajectory, BackendStates
  <2>8. CASE ArmGoalEnded
    <3>1. CASE backend' = Arrived(backend, "backend")
      BY <1>1, <3>1, <2>2 DEF Arrived, BackendStates
    <3>2. CASE backend' = ExecutionFailed(backend)
      BY <1>1, <3>2, <2>2, FailedIs
    <3> QED BY <2>8, <3>1, <3>2 DEF ArmGoalEnded
  <2> QED BY <1>8, <2>3, <2>4, <2>5, <2>6, <2>7, <2>8
<1>9. CASE Restore
  <2>1. UNCHANGED <<current, foreign, answers>> /\ ~ Answered("backend") /\ backend.at = "idle"
    BY <1>9 DEF Restore, AsksHold, Waits
  <2>2. CASE /\ backend.original = Unknown \/ backend.known = backend.original
             /\ backend' = [backend EXCEPT !.at = "done", !.verdict = "restored"]
    <3>1. /\ backend'.at = "done" /\ backend'.known = backend.known /\ backend'.original = backend.original
      BY <1>1, <2>2 DEF BackendStates
    <3> QED BY <2>1, <2>2, <3>1 DEF OriginalHolds, Answered
  <2>3. CASE backend' = [backend EXCEPT !.at = "restoring"]
    <3>1. /\ backend'.at = "restoring" /\ backend'.known = backend.known /\ backend'.original = backend.original
          /\ backend'.verdict = backend.verdict
      BY <1>1, <2>3 DEF BackendStates
    <3> QED BY <2>1, <3>1, <1>2, KnownStays DEF Answered
  <2> QED BY <1>9, <2>2, <2>3 DEF Restore
<1> QED BY <1>3, <1>4, <1>5, <1>6, <1>7, <1>8, <1>9 DEF Backend

LEMMA StepKeepsOriginal == ASSUME Types, AsksHold, OriginalHolds, [Next]_vars PROVE OriginalHolds'
  BY ServicesKeepOriginal, BackendKeepsOriginal, PanelCalls, OthersLeave, OthersKeepOriginal
     DEF Next

LEMMA SelectionInit == Init => AsksHold /\ BeliefHolds /\ OriginalHolds
<1> SUFFICES ASSUME Init PROVE AsksHold /\ BeliefHolds /\ OriginalHolds
  OBVIOUS
<1>1. requests = {} /\ answers = [c \in Clients |-> NoAnswer]
  BY DEF Init, PlannerInit
<1>2. ~ Answered("backend")
  BY <1>1, BothClients DEF Answered, NoAnswer
<1>3. backend.at = "new" /\ backend.original = Unknown /\ backend.verdict = "none"
  BY DEF Init
<1> QED BY <1>1, <1>2, <1>3 DEF AsksHold, BeliefHolds, OriginalHolds, InMove, Driving

LEMMA AlwaysBelieved == Spec => [](AsksHold /\ BeliefHolds /\ OriginalHolds)
<1>1. Types /\ AsksHold /\ BeliefHolds /\ OriginalHolds /\ [Next]_vars => (AsksHold /\ BeliefHolds /\ OriginalHolds)'
  BY StepKeepsAsks, StepKeepsBelief, StepKeepsOriginal
<1> QED BY <1>1, SelectionInit, AlwaysTyped, PTL DEF Spec

(* The backend moves the robot with the planner its move asks for, and what*)
(* it reports as restored is restored, unless a query of the active planner*)
(* failed or another client or a late call was served in between           *)
(* (_ensure_planner_type, restore_previous_planner).                       *)
THEOREM SelectionsAreKept == Spec => []SelectionsHold
<1>1. BeliefHolds /\ OriginalHolds => SelectionsHold
  BY DEF BeliefHolds, OriginalHolds, SelectionsHold, PlannedAsRequested, RestoredMeansOriginal,
     Driving
<1> QED BY <1>1, AlwaysBelieved, PTL

-----------------------------------------------------------------------------
(* Whose the executions are.                                               *)
LEMMA ExecutionLeaves ==
  ASSUME Types, NEW e \in Executions, Execution(e), NEW x \in Executions
  PROVE  /\ executions'[x].by = executions[x].by
         /\ x # e => executions'[x] = executions[x]
         /\ executions[x].by # Nobody /\ executions[x].at # "none" => executions'[x].at # "none"
<1>1. executions \in [Executions -> ExecutionStates] /\ executions[e] \in ExecutionStates
  BY DEF Types, ExecutionTypes
<1> DEFINE Left == /\ executions'[x].by = executions[x].by
                   /\ x # e => executions'[x] = executions[x]
                   /\ executions[x].by # Nobody /\ executions[x].at # "none" => executions'[x].at # "none"
<1>2. ASSUME NEW y, y.by = executions[e].by, executions[e].by # Nobody => y.at # "none",
             executions' = [executions EXCEPT ![e] = y]
      PROVE  Left
  BY <1>1, <1>2
<1> SUFFICES Left
  BY DEF Left
<1> HIDE DEF Left
<1>4. CASE executions[e].by = Nobody /\ executions' = [executions EXCEPT ![e] = NoExecution]
  BY <1>4, <1>2 DEF NoExecution
<1>5. ASSUME NEW ok, Ended(e, ok) PROVE Left
  <2> DEFINE y == [executions[e] EXCEPT !.at = "done", !.ok = ok]
  <2>1. y.by = executions[e].by /\ y.at # "none"
    BY <1>1 DEF ExecutionStates
  <2>2. executions' = [executions EXCEPT ![e] = IF executions[e].by = Nobody THEN NoExecution ELSE y]
    BY <1>5 DEF Ended
  <2> HIDE DEF y
  <2> QED BY <2>1, <2>2, <1>2, <1>4
<1>6. CASE BeginExecution(e)
  <2> DEFINE y == [executions[e] EXCEPT !.at = "starting", !.planner = current]
             z == [executions[e] EXCEPT !.at = "loop", !.planner = "mpc", !.follows = planned["mpc"]]
  <2>1. y.by = executions[e].by /\ y.at # "none" /\ z.by = executions[e].by /\ z.at # "none"
    BY <1>1 DEF ExecutionStates
  <2>2. executions' = [executions EXCEPT ![e] = y] \/ executions' = [executions EXCEPT ![e] = z] \/ Ended(e, FALSE)
    BY <1>6, BeginIs
  <2> HIDE DEF y, z
  <2> QED BY <2>1, <2>2, <1>2, <1>5
<1>7. CASE SendPlan(e)
  <2> DEFINE y == [executions[e] EXCEPT !.at = "sent", !.follows = planned[executions[e].planner]]
             z == [executions[e] EXCEPT !.at = "context"]
  <2>1. y.by = executions[e].by /\ y.at # "none" /\ z.by = executions[e].by /\ z.at # "none"
    BY <1>1 DEF ExecutionStates
  <2>2. executions' = [executions EXCEPT ![e] = y] \/ executions' = [executions EXCEPT ![e] = z] \/ Ended(e, FALSE)
    BY <1>1, <1>7 DEF SendPlan
  <2> HIDE DEF y, z
  <2> QED BY <2>1, <2>2, <1>2, <1>5
<1>8. CASE RegisterGoal(e) \/ TakeResult(e) \/ Iterate(e)
  <2> DEFINE y == [executions[e] EXCEPT !.at = "running"]
             z == [executions[e] EXCEPT !.at = "body"]
  <2>1. y.by = executions[e].by /\ y.at # "none" /\ z.by = executions[e].by /\ z.at # "none"
    BY <1>1 DEF ExecutionStates
  <2>2. \/ executions' = [executions EXCEPT ![e] = y] \/ executions' = [executions EXCEPT ![e] = z]
        \/ Ended(e, FALSE) \/ Ended(e, Succeeded(motions[e]))
    BY <1>1, <1>8 DEF RegisterGoal, TakeResult, Iterate, Become
  <2> HIDE DEF y, z
  <2> QED BY <2>1, <2>2, <1>2, <1>5
<1>9. CASE EndContext(e)
  <2> DEFINE y == [executions[e] EXCEPT !.at = "done", !.ok = TRUE, !.follows = context.command]
  <2>1. y.by = executions[e].by /\ y.at # "none"
    BY <1>1 DEF ExecutionStates
  <2>2. executions' = [executions EXCEPT ![e] = IF executions[e].by = Nobody THEN NoExecution ELSE y] \/ Ended(e, FALSE)
    BY <1>9 DEF EndContext
  <2> HIDE DEF y
  <2> QED BY <2>1, <2>2, <1>2, <1>4, <1>5
<1>10. CASE Step(e)
  <2> DEFINE f == Followed(e)
             y == [executions[e] EXCEPT !.at = "loop", !.steps = executions[e].steps + 1, !.follows = f]
             z == [executions[e] EXCEPT !.at = "done"]
             v == [executions[e] EXCEPT !.at = "done", !.ok = TRUE, !.follows = f]
             w == [executions[e] EXCEPT !.at = "handoff", !.follows = f]
  <2>1. /\ y.by = executions[e].by /\ y.at # "none" /\ z.by = executions[e].by /\ z.at # "none"
        /\ v.by = executions[e].by /\ v.at # "none" /\ w.by = executions[e].by /\ w.at # "none"
    BY <1>1 DEF ExecutionStates
  <2>2. \/ executions' = [executions EXCEPT ![e] = y] \/ executions' = [executions EXCEPT ![e] = w]
        \/ executions' = [executions EXCEPT ![e] = IF executions[e].by = Nobody THEN NoExecution ELSE z]
        \/ executions' = [executions EXCEPT ![e] = IF executions[e].by = Nobody THEN NoExecution ELSE v]
        \/ Ended(e, FALSE)
    <3>1. executions' \in {Counted(e), Converged(e), NearGoal(e)} \/ Ended(e, FALSE)
      BY <1>10 DEF Step
    <3> QED BY <1>1, <3>1 DEF Counted, Converged, NearGoal
  <2> HIDE DEF y, z, v, w
  <2> QED BY <2>1, <2>2, <1>2, <1>4, <1>5
<1>11. CASE HandOff(e)
  <2> DEFINE y == [executions[e] EXCEPT !.at = "starting", !.planner = "classic"]
  <2>1. y.by = executions[e].by /\ y.at # "none"
    BY <1>1 DEF ExecutionStates
  <2>2. executions' = [executions EXCEPT ![e] = y] \/ Ended(e, FALSE)
    BY <1>1, <1>11 DEF HandOff
  <2> HIDE DEF y
  <2> QED BY <2>1, <2>2, <1>2, <1>5
<1> QED BY <1>6, <1>7, <1>8, <1>9, <1>10, <1>11 DEF Execution

LEMMA ExecutionKeepsOwners ==
  ASSUME Types, OwnersHold, NEW e \in Executions, Executes(e)
  PROVE  OwnersHold'
<1>1. UNCHANGED <<backend, panel>> /\ Execution(e)
  BY DEF Executes
<1>2. /\ panel.waiting \subseteq Executions
      /\ (backend.at = "executing" => backend.execution \in Executions)
  BY DEF Types, BackendTypes, PanelTypes, PanelStates
<1>3. "panel" # Nobody /\ "backend" # Nobody
  BY DEF Nobody
<1> QED BY <1>1, <1>2, <1>3, ExecutionLeaves DEF OwnersHold

LEMMA BackendKeepsOwners == ASSUME Types, OwnersHold, Backend PROVE OwnersHold'
<1>1. backend \in BackendStates /\ backend.attempt <= backend.targets /\ executions \in [Executions -> ExecutionStates]
      /\ panel.waiting \subseteq Executions
  BY DEF Types, BackendTypes, ExecutionTypes, PanelTypes, PanelStates
<1>2. CASE Capture \/ StartMove \/ Ensure \/ PlannerSet \/ RequestPlan \/ PlanAnswered \/ GiveUp \/ SendTrajectory
           \/ SendArmGoal \/ ArmGoalEnded \/ Restore
  <2>1. UNCHANGED <<executions, panel>> /\ backend.at # "executing"
    BY <1>2 DEF Capture, StartMove, Ensure, PlannerSet, RequestPlan, PlanAnswered, GiveUp,
       SendTrajectory, SendArmGoal,
       ArmGoalEnded, Restore, plannerVars, node
  <2>2. backend'.at # "executing"
    <3>1. CASE Capture \/ StartMove \/ SendArmGoal \/ Restore
      BY <3>1, <1>1 DEF Capture, StartMove, SendArmGoal, Restore, BackendStates
    <3>2. CASE Ensure
      BY <3>2, EnsureIs
    <3>3. CASE PlannerSet
      BY <3>3, <1>1, RetryIs DEF PlannerSet, BackendStates
    <3>4. CASE RequestPlan \/ GiveUp
      BY <3>4, <1>1, RetryIs DEF RequestPlan, GiveUp, BackendStates
    <3>5. CASE PlanAnswered
      <4> DEFINE b == [backend EXCEPT !.planned = answers["backend"].planner]
      <4>1. answers["backend"].planner \in Named
        BY BothClients DEF Types, NodeTypes, AnswerTypes, AnswerStates
      <4>2. b \in BackendStates /\ b.attempt <= b.targets
        BY <1>1, <4>1 DEF BackendStates
      <4>3. backend' = Retry(b) \/ \E at \in {"submit", "switch"} : backend' = [b EXCEPT !.at = at]
        BY <3>5 DEF PlanAnswered
      <4> HIDE DEF b
      <4>4. ASSUME NEW at \in {"submit", "switch"}, backend' = [b EXCEPT !.at = at] PROVE backend'.at # "executing"
        BY <4>2, <4>4 DEF BackendStates
      <4> QED BY <4>2, <4>3, <4>4, RetryIs
    <3>6. CASE SendTrajectory
      BY <3>6, <1>1, FailedIs DEF SendTrajectory, BackendStates
    <3>7. CASE ArmGoalEnded
      <4>1. CASE backend' = Arrived(backend, "backend")
        BY <1>1, <4>1 DEF Arrived, BackendStates
      <4>2. CASE backend' = ExecutionFailed(backend)
        BY <1>1, <4>2, FailedIs
      <4> QED BY <3>7, <4>1, <4>2 DEF ArmGoalEnded
    <3> QED BY <1>2, <3>1, <3>2, <3>3, <3>4, <3>5, <3>6, <3>7
  <2> QED BY <2>1, <2>2 DEF OwnersHold
<1>3. CASE Submit
  <2> DEFINE n == NewExecution
  <2>1. n \in Executions /\ executions[n].at = "none"
    BY <1>3, NewIsFree DEF Submit
  <2> HIDE DEF n
  <2>2. executions' = [executions EXCEPT ![n] = [NoExecution EXCEPT !.at = "accepted", !.by = "backend"]]
    BY <1>3 DEF Submit, Accepted, n
  <2>3. executions'[n].by = "backend" /\ executions'[n].at = "accepted"
        /\ \A e \in Executions : e # n => executions'[e] = executions[e]
    BY <1>1, <2>1, <2>2 DEF NoExecution
  <2>4. /\ backend'.at = "executing" /\ backend'.execution = n /\ UNCHANGED panel
        /\ backend.at = "submit"
    BY <1>1, <1>3 DEF Submit, BackendStates, n
  <2> QED BY <1>1, <2>1, <2>3, <2>4 DEF OwnersHold
<1>4. CASE ExecutionEnded
  <2> DEFINE e == backend.execution
             c == [backend EXCEPT !.execution = None]
  <2>1. e \in Executions /\ executions[e].by = "backend" /\ UNCHANGED panel
    BY <1>4 DEF ExecutionEnded, Types, BackendTypes, OwnersHold
  <2>2. backend'.at # "executing"
    <3>1. CASE backend' = Arrived(backend, executions[e].follows)
      BY <1>1, <3>1 DEF Arrived, BackendStates
    <3>2. CASE backend' = ExecutionFailed(c)
      <4>1. c \in BackendStates /\ c.attempt <= c.targets
        BY <1>1, ReleasedIs
      <4> HIDE DEF c
      <4> QED BY <3>2, <4>1, FailedIs
    <3> QED BY <1>4, <3>1, <3>2 DEF ExecutionEnded
  <2>3. executions'[e].by = Nobody /\ \A x \in Executions : x # e => executions'[x] = executions[x]
    <3>1. executions' = [executions EXCEPT ![e] = NoExecution] \/ executions' = [executions EXCEPT ![e].by = Nobody]
      BY <1>4 DEF ExecutionEnded
    <3> QED BY <3>1, <1>1, <2>1 DEF NoExecution, ExecutionStates
  <2>4. e \notin panel.waiting
    BY <2>1 DEF OwnersHold
  <2>5. \A x \in Executions : executions[x].by = "backend" => x = e
    BY DEF OwnersHold
  <2> HIDE DEF e
  <2>6. Nobody # "backend"
    BY DEF Nobody
  <2> QED BY <1>1, <2>1, <2>2, <2>3, <2>4, <2>5, <2>6 DEF OwnersHold
<1> QED BY <1>2, <1>3, <1>4 DEF Backend

LEMMA PanelKeepsOwners ==
  ASSUME Types, OwnersHold, PanelCallbacks \/ User
  PROVE  OwnersHold' /\ (backend.at = "executing" => executions'[backend.execution] = executions[backend.execution])
<1>1. panel \in PanelStates /\ executions \in [Executions -> ExecutionStates] /\ UNCHANGED backend
  BY PanelCalls DEF Types, PanelTypes, ExecutionTypes
<1>2. backend.at = "executing" => backend.execution \in Executions
  BY DEF Types, BackendTypes
<1>3. CASE UNCHANGED executions /\ panel'.waiting = panel.waiting
  BY <1>1, <1>3 DEF OwnersHold
<1>4. CASE StartExecution
  <2> DEFINE n == NewExecution
             p == Sending(panel)
  <2>1. n \in Executions /\ executions[n].at = "none"
    BY <1>4, NewIsFree DEF StartExecution
  <2>2. p \in PanelStates /\ p.waiting = panel.waiting
    BY <1>1, PressedIs
  <2>3. panel' = [p EXCEPT !.call = "none", !.waiting = p.waiting \cup {n}]
    BY <1>4 DEF StartExecution
  <2>4. executions' = [executions EXCEPT ![n] = [NoExecution EXCEPT !.at = "accepted", !.by = "panel"]]
    BY <1>4 DEF StartExecution, Accepted
  <2> HIDE DEF n, p
  <2>5. panel'.waiting = panel.waiting \cup {n}
    BY <2>2, <2>3 DEF PanelStates
  <2>6. executions'[n].by = "panel" /\ executions'[n].at = "accepted"
        /\ \A e \in Executions : e # n => executions'[e] = executions[e]
    BY <1>1, <2>1, <2>4 DEF NoExecution
  <2>7. OwnersHold'
    <3>1. ASSUME NEW e \in Executions, executions'[e].by = "backend"
          PROVE  backend'.at = "executing" /\ backend'.execution = e /\ executions'[e].at # "none"
      BY <1>1, <2>6, <3>1 DEF OwnersHold
    <3>2. backend'.at = "executing" => executions'[backend'.execution].by = "backend"
      BY <1>1, <1>2, <2>1, <2>6 DEF OwnersHold
    <3>3. ASSUME NEW e \in panel'.waiting PROVE executions'[e].by = "panel" /\ executions'[e].at # "none"
      <4>1. e \in Executions
        BY <1>1, <2>1, <2>5 DEF PanelStates
      <4> QED BY <2>1, <2>5, <2>6, <4>1 DEF OwnersHold
    <3> QED BY <3>1, <3>2, <3>3 DEF OwnersHold
  <2> QED BY <1>1, <1>2, <2>1, <2>6, <2>7 DEF OwnersHold
<1>5. CASE ExecutionReported
  <2>1. PICK e \in panel.waiting : panel' = Reported(e) /\ executions' = [executions EXCEPT ![e] = NoExecution]
    BY <1>5 DEF ExecutionReported
  <2>2. /\ e \in Executions /\ panel'.waiting = panel.waiting \ {e}
        /\ panel.waiting \subseteq Executions
    BY <1>1, <2>1, ReportedIs DEF PanelStates
  <2>3. executions'[e].by = Nobody /\ \A x \in Executions : x # e => executions'[x] = executions[x]
    BY <1>1, <2>1, <2>2 DEF NoExecution
  <2>4. executions[e].by = "panel" /\ Nobody # "backend"
    BY <2>1 DEF OwnersHold, Nobody
  <2> QED BY <1>1, <1>2, <2>2, <2>3, <2>4 DEF OwnersHold
<1>6. CASE User \/ TakeAnswer \/ PublishGoal \/ HoldExecution \/ Activate \/ MoveArm \/ HoldArmGoal \/ ArmGoalReported
  <2>1. UNCHANGED executions
    BY <1>6 DEF User, SelectPlanner, SelectStrategy, Generate, Send, Stop, Canceled, TakeAnswer,
       PublishGoal,
       HoldExecution, Activate, MoveArm, HoldArmGoal, ArmGoalReported, plannerVars, node
  <2>2. panel'.waiting = panel.waiting
    <3>1. CASE SelectPlanner \/ SelectStrategy \/ Generate \/ Send \/ TakeAnswer \/ PublishGoal \/ HoldExecution \/ Activate
      BY <3>1, <1>1 DEF SelectPlanner, SelectStrategy, Generate, Send, TakeAnswer, PublishGoal,
         HoldExecution,
         Activate, PanelStates, sessionVars
    <3>2. CASE Stop \/ MoveArm \/ HoldArmGoal \/ ArmGoalReported
      <4> DEFINE p == Resting(panel)
                 q == Sending(panel)
      <4>1. /\ p \in PanelStates /\ p.waiting = panel.waiting
            /\ q \in PanelStates /\ q.waiting = panel.waiting
        BY <1>1, PressedIs
      <4>2. \/ panel' = [p EXCEPT !.tracking = FALSE] \/ panel' = [p EXCEPT !.arm = "none"]
            \/ panel' = [panel EXCEPT !.arm = "held"] \/ panel' = [q EXCEPT !.call = "none", !.arm = "sent"]
        BY <3>2 DEF Stop, MoveArm, HoldArmGoal, ArmGoalReported
      <4> HIDE DEF p, q
      <4> QED BY <1>1, <4>1, <4>2 DEF PanelStates
    <3> QED BY <1>6, <3>1, <3>2 DEF User
  <2> QED BY <2>1, <2>2, <1>3
<1> QED BY <1>4, <1>5, <1>6 DEF PanelCallbacks

LEMMA StepKeepsOwners == ASSUME Types, OwnersHold, [Next]_vars PROVE OwnersHold'
<1>1. CASE Services \/ ((ArmEnds \/ EmulatorMoves) /\ UNCHANGED sessionVars) \/ UNCHANGED vars
  <2>1. UNCHANGED <<executions, backend, panel>>
    BY <1>1 DEF Services, PlannerServices, ServeSetPlanner, BeginPlanning, EndPlanning, ArmEnds,
       EmulatorMoves, vars,
       plannerVars, node, sessionVars
  <2> QED BY <2>1 DEF OwnersHold
<1> QED BY <1>1, ExecutionKeepsOwners, BackendKeepsOwners, PanelKeepsOwners DEF Next

-----------------------------------------------------------------------------
(* What the backend's execution follows.                                   *)
LEMMA DoneFollows ==
  ASSUME NEW e, executions'[e].at = "done", executions'[e].ok => executions'[e].follows \in Own
  PROVE  Follows(executions[e])'
  BY DEF Follows

LEMMA OwnEnded ==
  ASSUME Types, NEW e \in Executions, executions[e].by = "backend", Follows(executions[e]), executions[e].at # "done",
         NEW ok \in BOOLEAN, Ended(e, ok), ok => executions[e].follows \in Own
  PROVE  Follows(executions[e])'
<1>1. executions[e] \in ExecutionStates /\ executions \in [Executions -> ExecutionStates]
  BY DEF Types, ExecutionTypes
<1>2. executions' = [executions EXCEPT ![e] = [executions[e] EXCEPT !.at = "done", !.ok = ok]]
  BY DEF Ended, Nobody
<1>3. /\ executions'[e].at = "done" /\ executions'[e].ok = ok
      /\ executions'[e].follows = executions[e].follows
  BY <1>1, <1>2 DEF ExecutionStates
<1> QED BY <1>3, DoneFollows

LEMMA OwnStep ==
  ASSUME Types, NEW e \in Executions, Execution(e), executions[e].by = "backend", Follows(executions[e])
  PROVE  Follows(executions[e])'
<1>1. executions[e] \in ExecutionStates /\ executions \in [Executions -> ExecutionStates]
  BY DEF Types, ExecutionTypes
<1>2. executions[e].at # "done"
  BY DEF Execution, BeginExecution, SendPlan, RegisterGoal, TakeResult, EndContext, Iterate, Step,
     HandOff
<1>3. context.command \in Own /\ ~ executions[e].ok
  BY <1>2 DEF Follows
<1>4. ASSUME Ended(e, FALSE) PROVE Follows(executions[e])'
  BY <1>2, <1>4, OwnEnded
<1>5. CASE BeginExecution(e)
  <2>1. /\ planned[current] \in Own /\ UNCHANGED <<current, planned, context>>
    BY <1>5 DEF BeginExecution, Follows
  <2>2. CASE executions' = [executions EXCEPT ![e] = [executions[e] EXCEPT !.at = "starting", !.planner = current]]
    <3>1. /\ executions'[e].at = "starting" /\ executions'[e].planner = current
          /\ executions'[e].ok = executions[e].ok
      BY <1>1, <2>2 DEF ExecutionStates
    <3> QED BY <3>1, <2>1, <1>3 DEF Follows
  <2>3. CASE /\ current = "mpc"
             /\ executions' = [executions EXCEPT ![e] =
                  [executions[e] EXCEPT !.at = "loop", !.planner = "mpc", !.follows = planned["mpc"]]]
    <3>1. executions'[e].at = "loop" /\ executions'[e].ok = executions[e].ok
      BY <1>1, <2>3 DEF ExecutionStates
    <3> QED BY <3>1, <2>1, <2>3, <1>3 DEF Follows
  <2> QED BY <1>4, <1>5, <2>2, <2>3, BeginIs
<1>6. CASE SendPlan(e)
  <2>1. planned[executions[e].planner] \in Own /\ UNCHANGED <<current, planned>>
    BY <1>6 DEF SendPlan, Follows
  <2>2. CASE executions' = [executions EXCEPT ![e].at = "sent", ![e].follows = planned[executions[e].planner]]
             /\ UNCHANGED context
    <3>1. /\ executions'[e].at = "sent" /\ executions'[e].follows = planned[executions[e].planner]
          /\ executions'[e].ok = executions[e].ok
      BY <1>1, <2>2 DEF ExecutionStates
    <3> QED BY <3>1, <2>1, <2>2, <1>3 DEF Follows
  <2>3. CASE executions' = [executions EXCEPT ![e].at = "context"] /\ context' = Sent
    <3>1. executions'[e].at = "context" /\ executions'[e].ok = executions[e].ok
      BY <1>1, <2>3 DEF ExecutionStates
    <3>2. context'.command = context.command
      BY <2>3, SentTyped DEF Types
    <3> QED BY <3>1, <3>2, <1>3 DEF Follows
  <2> QED BY <1>4, <1>6, <2>2, <2>3 DEF SendPlan
<1>7. CASE RegisterGoal(e)
  <2>1. executions[e].follows \in Own /\ UNCHANGED context
    BY <1>7 DEF RegisterGoal, Follows
  <2>2. CASE Become(e, "running")
    <3>1. /\ executions'[e].at = "running" /\ executions'[e].follows = executions[e].follows
          /\ executions'[e].ok = executions[e].ok
      BY <1>1, <2>2 DEF ExecutionStates, Become
    <3> QED BY <3>1, <2>1, <1>3 DEF Follows
  <2> QED BY <1>4, <1>7, <2>2 DEF RegisterGoal
<1>8. CASE TakeResult(e)
  <2>1. /\ executions[e].follows \in Own /\ Ended(e, Succeeded(motions[e]))
        /\ Succeeded(motions[e]) \in BOOLEAN
    BY <1>8 DEF TakeResult, Follows, Succeeded
  <2> QED BY <2>1, <1>2, OwnEnded
<1>9. CASE EndContext(e)
  <2>1. CASE executions' = [executions EXCEPT ![e] = IF executions[e].by = Nobody THEN NoExecution
                              ELSE [executions[e] EXCEPT !.at = "done", !.ok = TRUE, !.follows = context.command]]
    <3>1. executions' = [executions EXCEPT ![e] = [executions[e] EXCEPT !.at = "done", !.ok = TRUE, !.follows = context.command]]
      BY <2>1 DEF Nobody
    <3>2. executions'[e].at = "done" /\ executions'[e].follows = context.command
      BY <1>1, <3>1 DEF ExecutionStates
    <3> QED BY <3>2, <1>3, DoneFollows
  <2> QED BY <1>4, <1>9, <2>1 DEF EndContext
<1>10. CASE Iterate(e)
  <2>1. planned["mpc"] \in Own /\ UNCHANGED <<planned, context>>
    BY <1>10 DEF Iterate, Follows
  <2>2. CASE Become(e, "body")
    <3>1. executions'[e].at = "body" /\ executions'[e].ok = executions[e].ok
      BY <1>1, <2>2 DEF ExecutionStates, Become
    <3> QED BY <3>1, <2>1, <1>3 DEF Follows
  <2> QED BY <1>4, <1>10, <2>2 DEF Iterate
<1>11. CASE Step(e)
  <2> DEFINE f == Followed(e)
             y == [executions[e] EXCEPT !.at = "loop", !.steps = executions[e].steps + 1, !.follows = f]
             z == [executions[e] EXCEPT !.at = "done"]
             v == [executions[e] EXCEPT !.at = "done", !.ok = TRUE, !.follows = f]
             w == [executions[e] EXCEPT !.at = "handoff", !.follows = f]
  <2>1. planned["mpc"] \in Own /\ planned \in [Planners -> Plans]
    BY <1>11 DEF Step, Follows, Types, NodeTypes, SettingTypes
  <2>2. f \in Own
    BY <2>1 DEF Followed, Own
  <2>3. CASE Ended(e, FALSE)
    BY <2>3, <1>4
  <2>4. CASE TakeGoal(e) /\ executions' \in {Counted(e), Converged(e), NearGoal(e)} /\ Streamed(e)
    <3>1. planned'["mpc"] \in Own
      BY <2>1, <2>4 DEF TakeGoal, SetActiveGoal, Own
    <3>2. context'.command = f
      BY <2>4, GivenTyped, FollowedTyped DEF Streamed, Types
    <3>3. /\ y.at = "loop" /\ y.ok = executions[e].ok
          /\ z.at = "done" /\ z.ok = executions[e].ok
          /\ v.at = "done" /\ v.follows = f
          /\ w.at = "handoff" /\ w.ok = executions[e].ok
      BY <1>1 DEF ExecutionStates
    <3>4. \/ executions' = [executions EXCEPT ![e] = y] \/ executions' = [executions EXCEPT ![e] = z]
          \/ executions' = [executions EXCEPT ![e] = v] \/ executions' = [executions EXCEPT ![e] = w]
      BY <1>1, <2>4 DEF Counted, Converged, NearGoal, Nobody
    <3> HIDE DEF f, y, z, v, w
    <3>5. executions'[e] \in {y, z, v, w}
      BY <1>1, <3>4
    <3> QED BY <3>1, <3>2, <3>3, <3>5, <2>2, <1>3 DEF Follows
  <2> QED BY <1>11, <2>3, <2>4 DEF Step
<1>12. CASE HandOff(e)
  <2>1. HandoffGoal \in Own /\ planned \in [Planners -> Plans] /\ HandoffGoal \in Plans
    BY <1>12 DEF HandOff, Follows, HandoffGoal, Own, Types, NodeTypes, SettingTypes, Plans, Planners
  <2>2. CASE /\ planned' = [planned EXCEPT !["classic"] = HandoffGoal] /\ context' = Given(HandoffGoal)
             /\ executions' = [executions EXCEPT ![e].at = "starting", ![e].planner = "classic"]
    <3>1. /\ executions'[e].at = "starting" /\ executions'[e].planner = "classic"
          /\ executions'[e].ok = executions[e].ok
      BY <1>1, <2>2 DEF ExecutionStates
    <3>2. planned'["classic"] \in Own
      BY <2>1, <2>2 DEF Planners, Trajectory
    <3>3. context'.command \in Own
      BY <2>1, <2>2, GivenTyped DEF Types
    <3> QED BY <3>1, <3>2, <3>3, <1>3 DEF Follows
  <2> QED BY <1>4, <1>12, <2>2 DEF HandOff
<1> QED BY <1>5, <1>6, <1>7, <1>8, <1>9, <1>10, <1>11, <1>12 DEF Execution

(* An execution of another client leaves what the backend holds, or takes  *)
(* it over.                                                                *)
LEMMA OtherStep ==
  ASSUME Types, NEW e \in Executions, Execution(e), executions[e].by # "backend", ~ Overtakes(e)
  PROVE  /\ context.command \in Own => context'.command \in Own
         /\ \A p \in Planners : planned[p] \in Own => planned'[p] \in Own
<1>1. context'.command \in {context.command, "backend", "live"}
      /\ planned'["classic"] \in {planned["classic"], "backend", "live"}
  BY DEF Overtakes
<1>2. planned \in [Planners -> Plans]
  BY DEF Types, NodeTypes, SettingTypes
<1>3. \A p \in Planners : p # "classic" => planned'[p] \in {planned[p], "live"}
  <2>1. CASE UNCHANGED planned
    BY <2>1
  <2>2. CASE planned' = [planned EXCEPT !["mpc"] = "live"]
    BY <1>2, <2>2
  <2>3. CASE planned' = [planned EXCEPT !["classic"] = HandoffGoal]
    BY <1>2, <2>3
  <2>4. UNCHANGED planned \/ planned' = [planned EXCEPT !["mpc"] = "live"]
        \/ planned' = [planned EXCEPT !["classic"] = HandoffGoal]
    BY DEF Execution, BeginExecution, SendPlan, RegisterGoal, TakeResult, EndContext, Iterate,
       Step, TakeGoal,
       SetActiveGoal, HandOff
  <2> QED BY <2>1, <2>2, <2>3, <2>4
<1> QED BY <1>1, <1>3 DEF Own

LEMMA ExecutionKeepsPlan ==
  ASSUME Types, OwnersHold, PlanHolds, NEW e \in Executions, Executes(e)
  PROVE  PlanHolds'
<1>1. UNCHANGED <<backend, disturbed>> /\ overtaken' = (overtaken \/ Overtakes(e)) /\ Execution(e)
  BY DEF Executes
<1>2. backend.verdict # "none" => backend.at \in {"idle", "restoring", "done"}
  BY DEF PlanHolds
<1>3. UNCHANGED <<current, answers>>
  BY <1>1 DEF Execution, BeginExecution, SendPlan, RegisterGoal, TakeResult, EndContext, Iterate,
     Step, HandOff
<1>4. CASE disturbed \/ overtaken \/ Overtakes(e)
  <2>1. disturbed' \/ overtaken'
    BY <1>1, <1>4, Zenon
  <2> QED BY <1>1, <1>2, <2>1 DEF PlanHolds
<1>5. CASE ~ disturbed /\ ~ overtaken /\ ~ Overtakes(e)
  <2> DEFINE x == backend.execution
  <2>1. current \in Planners /\ (backend.at = "executing" => x \in Executions)
    BY DEF Types, NodeTypes, SettingTypes, BackendTypes
  <2>2. CASE executions[e].by = "backend"
    <3>1. backend.at = "executing" /\ x = e
      BY <2>2 DEF OwnersHold
    <3>2. Follows(executions[e])'
      BY <1>1, <1>5, <2>2, <3>1, OwnStep DEF PlanHolds
    <3> QED BY <1>1, <1>2, <3>1, <3>2 DEF PlanHolds
  <2>3. CASE executions[e].by # "backend"
    <3>1. /\ context.command \in Own => context'.command \in Own
          /\ \A p \in Planners : planned[p] \in Own => planned'[p] \in Own
      BY <1>1, <1>5, <2>3, OtherStep
    <3>2. backend.at = "executing" => x # e
      BY <2>3 DEF OwnersHold
    <3>3. backend.at = "executing" => executions'[x] = executions[x]
      BY <1>1, <2>1, <3>2, ExecutionLeaves
    <3>4. backend.at = "executing" => Follows(executions[x])'
      <4> SUFFICES ASSUME backend.at = "executing" PROVE Follows(executions[x])'
        OBVIOUS
      <4>1. Follows(executions[x])
        BY <1>5 DEF PlanHolds
      <4>2. executions[x].at = "starting" => executions[x].planner \in Planners
        BY <2>1 DEF Types, ExecutionTypes
      <4>3. "mpc" \in Planners
        BY DEF Planners
      <4> QED BY <1>1, <1>3, <2>1, <3>1, <3>3, <4>1, <4>2, <4>3 DEF Follows
    <3>5. (backend.at = "planning" /\ Told("ok")) \/ backend.at = "submit" =>
            planned'[current] \in Own /\ context'.command \in Own
      BY <1>5, <2>1, <3>1 DEF PlanHolds
    <3>6. backend.verdict = "success" => backend.followed \in Own
      BY <1>5 DEF PlanHolds
    <3> QED BY <1>1, <1>2, <1>3, <3>4, <3>5, <3>6 DEF PlanHolds, Told
  <2> QED BY <2>2, <2>3
<1> QED BY <1>4, <1>5

LEMMA ServicesKeepPlan ==
  ASSUME Types, AsksHold, BeliefHolds, PlanHolds, Services
  PROVE  PlanHolds'
<1>1. UNCHANGED <<backend, overtaken>> /\ disturbed' = (disturbed \/ \E r \in Served : Meddles(r))
  BY DEF Services
<1>2. backend.verdict # "none" => backend.at \in {"idle", "restoring", "done"}
  BY DEF PlanHolds
<1>3. CASE disturbed' \/ overtaken
  BY <1>1, <1>2, <1>3 DEF PlanHolds
<1>4. CASE ~ disturbed' /\ ~ overtaken
  <2>1. ~ disturbed /\ \A r \in Served : ~ Meddles(r)
    BY <1>1, <1>4
  <2>2. backend.verdict = "success" => backend.followed \in Own
    BY <1>4, <2>1 DEF PlanHolds
  <2>3. CASE ServeSetPlanner
    <3>1. PICK r \in requests : r.kind = "set" /\ \E ok \in BOOLEAN : Answer(r, ok, r.planner) \/ Answer(r, ok, current)
      BY <2>3 DEF ServeSetPlanner
    <3>2. Pending(r)
      BY <3>1, <2>1, AnswerIs
    <3>3. backend.at \in {"setting", "restoring"}
      BY <3>1, <3>2 DEF AsksHold, AskedFor
    <3> QED BY <3>3, <1>1, <1>2, <2>2 DEF PlanHolds
  <2>4. CASE BeginPlanning
    <3>1. UNCHANGED <<planned, current, context, executions, answers>>
      BY <2>4 DEF BeginPlanning
    <3> QED BY <3>1, <1>1, <1>4, <2>1 DEF PlanHolds, Follows, Told
  <2>5. CASE EndPlanning
    <3>1. PICK r \in requests :
            LET whose == IF r.late THEN "old" ELSE r.by IN
            /\ r.begun
            /\ \/ Hold(r.planner, whose) /\ Answer(r, TRUE, r.planner) /\ context' = Given(whose)
               \/ Answer(r, FALSE, r.planner)
      BY <2>5 DEF EndPlanning
    <3>2. Pending(r)
      BY <3>1, <2>1, AnswerIs
    <3>3. backend.at = "planning" /\ r.planner = current /\ UNCHANGED current
      BY <3>1, <3>2, <2>1, <2>5 DEF AsksHold, AskedFor, BeliefHolds, EndPlanning, Types, NodeTypes,
         RequestTypes, Asked
    <3>4. CASE Answer(r, FALSE, r.planner)
      <4>1. ~ Told("ok")'
        BY <3>2, <3>4, AnswerIs DEF Told
      <4> QED BY <4>1, <3>3, <1>1, <1>2, <2>2 DEF PlanHolds
    <3>5. CASE Hold(current, "backend") /\ context' = Given("backend")
      <4>1. "backend" \in Plans /\ current \in Planners /\ planned \in [Planners -> Plans]
        BY BothClients DEF Plans, Types, NodeTypes, SettingTypes
      <4>2. planned'[current] = "backend"
        BY <3>5, <4>1 DEF Hold, SetActiveGoal
      <4>3. context'.command = "backend"
        BY <3>5, <4>1, GivenTyped DEF Types
      <4> QED BY <4>2, <4>3, <3>3, <1>1, <1>2, <2>2 DEF PlanHolds, Own
    <3> QED BY <3>1, <3>2, <3>3, <3>4, <3>5 DEF Pending
  <2> QED BY <2>3, <2>4, <2>5 DEF Services, PlannerServices
<1> QED BY <1>3, <1>4

(* What the panel, the arm and the emulator do to it.                      *)
LEMMA OthersKeepPlan ==
  ASSUME Types, OwnersHold, PlanHolds,
         PanelCallbacks \/ User \/ ((ArmEnds \/ EmulatorMoves) /\ UNCHANGED sessionVars) \/ UNCHANGED vars
  PROVE  PlanHolds'
<1>1. /\ UNCHANGED <<backend, current>> /\ answers'["backend"] = answers["backend"]
      /\ (disturbed => disturbed')
  BY PanelCalls, OthersLeave
<1>2. backend.at = "executing" => executions'[backend.execution] = executions[backend.execution]
  <2>1. CASE PanelCallbacks \/ User
    BY <2>1, PanelKeepsOwners
  <2>2. CASE ((ArmEnds \/ EmulatorMoves) /\ UNCHANGED sessionVars) \/ UNCHANGED vars
    BY <2>2 DEF ArmEnds, EmulatorMoves, vars, plannerVars, node
  <2> QED BY <2>1, <2>2
<1>3. UNCHANGED <<planned, overtaken>>
  <2>1. CASE User
    BY <2>1 DEF User, SelectPlanner, SelectStrategy, Generate, Send, Stop, Canceled, node,
       plannerVars
  <2>2. CASE PanelCallbacks
    BY <2>2 DEF PanelCallbacks, TakeAnswer, StartExecution, PublishGoal, HoldExecution,
       ExecutionReported, Activate,
       MoveArm, HoldArmGoal, ArmGoalReported, node, plannerVars, sessionVars
  <2>3. CASE ((ArmEnds \/ EmulatorMoves) /\ UNCHANGED sessionVars) \/ UNCHANGED vars
    BY <2>3 DEF ArmEnds, EmulatorMoves, vars, plannerVars, node, sessionVars
  <2> QED BY <2>1, <2>2, <2>3
<1>4. context'.command = context.command \/ disturbed'
  <2>1. CASE SelectStrategy
    BY <2>1 DEF SelectStrategy
  <2>2. CASE Stop
    <3> DEFINE cancels == panel.handle # None /\ InProgress(panel.handle)
    <3>1. disturbed' = (disturbed \/ cancels) /\ (~ cancels => UNCHANGED context)
      BY <2>2 DEF Stop
    <3> HIDE DEF cancels
    <3> QED BY <3>1
  <2>3. CASE (EmulatorMoves /\ UNCHANGED sessionVars)
    BY <2>3, EmulatorTyped DEF EmulatorMoves, Types
  <2>4. CASE SelectPlanner \/ Generate \/ Send \/ PanelCallbacks \/ (ArmEnds /\ UNCHANGED sessionVars) \/ UNCHANGED vars
    BY <2>4 DEF SelectPlanner, Generate, Send, PanelCallbacks, TakeAnswer, StartExecution,
       PublishGoal, HoldExecution,
       ExecutionReported, Activate, MoveArm, HoldArmGoal, ArmGoalReported, ArmEnds, vars, plannerVars
  <2> QED BY <2>1, <2>2, <2>3, <2>4 DEF User
<1>5. backend.verdict # "none" => backend.at \in {"idle", "restoring", "done"}
  BY DEF PlanHolds
<1>6. CASE disturbed' \/ overtaken
  BY <1>1, <1>3, <1>5, <1>6 DEF PlanHolds
<1>7. CASE ~ disturbed' /\ ~ overtaken
  <2>1. ~ disturbed /\ context'.command = context.command
    BY <1>1, <1>4, <1>7
  <2> QED BY <1>1, <1>2, <1>3, <1>7, <2>1 DEF PlanHolds, Follows, Told
<1> QED BY <1>6, <1>7

(* What the backend itself does.                                           *)
LEMMA IdleKeepsPlan ==
  ASSUME backend'.at \notin {"submit", "executing"}, backend'.at = "planning" => ~ Told("ok")',
         backend'.verdict # "none" => backend'.at \in {"idle", "restoring", "done"} /\ backend'.verdict # "success"
  PROVE  PlanHolds'
  BY DEF PlanHolds

LEMMA BackendKeepsPlan ==
  ASSUME Types, AsksHold, OwnersHold, PlanHolds, Backend
  PROVE  PlanHolds'
<1>1. backend \in BackendStates /\ backend.attempt <= backend.targets
  BY DEF Types, BackendTypes
<1>2. backend.verdict # "none" => backend.at \in {"idle", "restoring", "done"}
  BY DEF PlanHolds
<1>3. CASE Capture \/ StartMove
  <2>1. /\ backend'.at \in {"idle", "select"}
        /\ backend'.verdict \in {"none", backend.verdict} /\ (backend.at # "new" => backend'.verdict = "none")
    BY <1>1, <1>3 DEF Capture, StartMove, BackendStates
  <2>2. backend'.verdict = "none"
    BY <1>2, <1>3, <2>1 DEF Capture, StartMove
  <2> QED BY <2>1, <2>2, IdleKeepsPlan
<1>4. CASE Ensure
  BY <1>2, <1>4, EnsureIs, IdleKeepsPlan DEF Ensure
<1>5. CASE PlannerSet
  <2>1. CASE backend.at = "restoring"
    BY <1>1, <1>5, <2>1, IdleKeepsPlan DEF PlannerSet, BackendStates
  <2>2. CASE backend.at = "setting"
    <3>1. backend' = Retry(backend) \/ backend' = [backend EXCEPT !.at = "prepare", !.known = backend.wanted]
      BY <1>5, <2>2 DEF PlannerSet
    <3>2. backend'.at \in {"select", "idle", "prepare"}
          /\ backend'.verdict = IF backend'.at = "idle" THEN "failed" ELSE "none"
      BY <1>1, <1>2, <2>2, <3>1, RetryIs DEF BackendStates
    <3> QED BY <3>2, IdleKeepsPlan
  <2> QED BY <1>5, <2>1, <2>2 DEF PlannerSet
<1>6. CASE RequestPlan \/ GiveUp
  <2>1. ~ Told("ok")'
    BY <1>6 DEF RequestPlan, GiveUp, AsksHold, Waits, Told, Answered
  <2>2. /\ backend'.at \in {"select", "idle", "planning", "done"}
        /\ backend'.verdict = IF backend'.at \in {"idle", "done"} THEN "failed" ELSE "none"
    BY <1>1, <1>2, <1>6, RetryIs DEF RequestPlan, GiveUp, BackendStates
  <2> QED BY <2>1, <2>2, IdleKeepsPlan
<1>7. CASE PlanAnswered
  <2> DEFINE a == answers["backend"]
             b == [backend EXCEPT !.planned = a.planner]
  <2>1. /\ UNCHANGED <<planned, current, context, disturbed, overtaken>>
        /\ backend.at = "planning" /\ backend.verdict = "none"
    BY <1>2, <1>7 DEF PlanAnswered, node
  <2>2. a.planner \in Named
    BY BothClients DEF Types, NodeTypes, AnswerTypes, AnswerStates
  <2>3. b \in BackendStates /\ b.attempt <= b.targets /\ b.verdict = backend.verdict
    BY <1>1, <2>2 DEF BackendStates
  <2>4. backend' = Retry(b) \/ (Usable(a) /\ \E at \in {"submit", "switch"} : backend' = [b EXCEPT !.at = at])
    BY <1>7 DEF PlanAnswered
  <2> HIDE DEF b
  <2>5. CASE backend' = Retry(b)
    <3>1. backend'.at \in {"select", "idle"} /\ backend'.verdict = IF backend'.at = "idle" THEN "failed" ELSE "none"
      BY <2>1, <2>3, <2>5, RetryIs
    <3> QED BY <3>1, IdleKeepsPlan
  <2>6. ASSUME NEW at \in {"submit", "switch"}, backend' = [b EXCEPT !.at = at], Usable(a) PROVE PlanHolds'
    <3>1. backend'.at = at /\ backend'.verdict = "none" /\ Told("ok")
      BY <2>1, <2>3, <2>6 DEF BackendStates, Usable, Told
    <3> QED BY <2>1, <3>1 DEF PlanHolds
  <2> QED BY <2>4, <2>5, <2>6
<1>8. CASE Submit
  <2> DEFINE n == NewExecution
  <2>1. n \in Executions /\ executions \in [Executions -> ExecutionStates]
    BY <1>8, NewIsFree DEF Submit, Types, ExecutionTypes
  <2>2. executions' = [executions EXCEPT ![n] = [NoExecution EXCEPT !.at = "accepted", !.by = "backend"]]
    BY <1>8 DEF Submit, Accepted
  <2>3. backend' = [backend EXCEPT !.at = "executing", !.execution = n]
        /\ UNCHANGED <<planned, current, context, disturbed, overtaken>> /\ backend.at = "submit"
    BY <1>8 DEF Submit
  <2> HIDE DEF n
  <2>4. executions'[n].at = "accepted" /\ executions'[n].ok = FALSE
    BY <2>1, <2>2 DEF NoExecution
  <2>5. backend'.at = "executing" /\ backend'.execution = n /\ backend'.verdict = "none"
    BY <1>1, <1>2, <2>3 DEF BackendStates
  <2> QED BY <2>3, <2>4, <2>5 DEF PlanHolds, Follows
<1>9. CASE ExecutionEnded
  <2> DEFINE e == backend.execution
             c == [backend EXCEPT !.execution = None]
  <2>1. /\ e \in Executions /\ UNCHANGED <<disturbed, overtaken>> /\ backend.verdict = "none"
        /\ backend.at = "executing"
    BY <1>2, <1>9 DEF ExecutionEnded, Types, BackendTypes
  <2>2. CASE executions[e].ok /\ backend' = Arrived(backend, executions[e].follows)
    <3>1. /\ backend'.at = "idle" /\ backend'.verdict = "success"
          /\ backend'.followed = executions[e].follows
      BY <1>1, <2>2 DEF Arrived, BackendStates
    <3>2. ~ disturbed /\ ~ overtaken => executions[e].follows \in Own
      BY <2>1, <2>2 DEF PlanHolds, Follows
    <3> QED BY <2>1, <3>1, <3>2 DEF PlanHolds
  <2>3. CASE backend' = ExecutionFailed(c)
    <3>1. c \in BackendStates /\ c.attempt <= c.targets /\ c.verdict = "none"
      BY <1>1, <2>1, ReleasedIs
    <3> HIDE DEF c
    <3>2. backend'.at \in {"select", "idle"} /\ backend'.verdict = IF backend'.at = "idle" THEN "failed" ELSE "none"
      BY <2>3, <3>1, FailedIs
    <3> QED BY <3>2, IdleKeepsPlan
  <2> QED BY <1>9, <2>2, <2>3 DEF ExecutionEnded
<1>10. CASE SendTrajectory \/ SendArmGoal
  <2>1. backend'.at \in {"send", "moving", "select", "idle"}
        /\ backend'.verdict = IF backend'.at = "idle" THEN "failed" ELSE "none"
    BY <1>1, <1>2, <1>10, FailedIs DEF SendTrajectory, SendArmGoal, BackendStates
  <2> QED BY <2>1, IdleKeepsPlan
<1>11. CASE ArmGoalEnded
  <2>1. CASE backend' = Arrived(backend, "backend")
    <3>1. backend'.at = "idle" /\ backend'.followed = "backend"
      BY <1>1, <2>1 DEF Arrived, BackendStates
    <3> QED BY <3>1 DEF PlanHolds, Own
  <2>2. CASE backend' = ExecutionFailed(backend)
    <3>1. backend'.at \in {"select", "idle"} /\ backend'.verdict = IF backend'.at = "idle" THEN "failed" ELSE "none"
      BY <1>1, <1>2, <1>11, <2>2, FailedIs DEF ArmGoalEnded
    <3> QED BY <3>1, IdleKeepsPlan
  <2> QED BY <1>11, <2>1, <2>2 DEF ArmGoalEnded
<1>12. CASE Restore
  <2>1. UNCHANGED <<disturbed, overtaken>>
    BY <1>12 DEF Restore
  <2>2. /\ backend'.at \in {"done", "restoring"} /\ backend'.followed = backend.followed
        /\ backend'.verdict \in {"restored", backend.verdict}
    BY <1>1, <1>12 DEF Restore, BackendStates
  <2> QED BY <2>1, <2>2 DEF PlanHolds
<1> QED BY <1>3, <1>4, <1>5, <1>6, <1>7, <1>8, <1>9, <1>10, <1>11, <1>12 DEF Backend

LEMMA AlwaysOwned == Spec => [](OwnersHold /\ PlanHolds)
<1>1. Init => OwnersHold /\ PlanHolds
  <2> SUFFICES ASSUME Init PROVE OwnersHold /\ PlanHolds
    OBVIOUS
  <2>1. executions = [e \in Executions |-> NoExecution]
    BY DEF Init, PlannerInit
  <2>2. backend.at = "new" /\ backend.verdict = "none" /\ panel.waiting = {}
    BY DEF Init
  <2> QED BY <2>1, <2>2 DEF OwnersHold, PlanHolds, NoExecution, Nobody
<1>2. Types /\ AsksHold /\ BeliefHolds /\ OwnersHold /\ PlanHolds /\ [Next]_vars => (OwnersHold /\ PlanHolds)'
  BY StepKeepsOwners, ServicesKeepPlan, OthersKeepPlan, BackendKeepsPlan, ExecutionKeepsPlan
     DEF Next
<1> QED BY <1>1, <1>2, AlwaysTyped, AlwaysBelieved, PTL DEF Spec

(* A move of the backend that succeeds has followed the plan that was made *)
(* for it, or a live goal, through every way an execution can take: the    *)
(* action of the arm, the robot context, the loop of MPC and its handoff to*)
(* the classic planner (_execute_active_planner, execute_callback).        *)
THEOREM PlansAreFollowed == Spec => []MovesFollowTheirPlan
<1>1. PlanHolds => MovesFollowTheirPlan
  BY DEF PlanHolds, MovesFollowTheirPlan, Own
<1> QED BY <1>1, AlwaysOwned, PTL

-----------------------------------------------------------------------------
Vector == Int \X Int \X Int

(* Quotients.                                                              *)
LEMMA Quotient ==
  ASSUME NEW n \in Int, NEW d \in Nat \ {0}
  PROVE  n \div d \in Int /\ n % d \in 0 .. d - 1 /\ n = d * (n \div d) + (n % d)
<1>1. d \in Int /\ d > 0
  OBVIOUS
<1>2. n \div d \in Int /\ n % d \in 0 .. d - 1
  BY <1>1
<1>3. n = d * (n \div d) + (n % d)
  BY <1>1
<1> QED BY <1>2, <1>3

LEMMA QuotientIs ==
  ASSUME NEW d \in Nat \ {0}, NEW q \in Int, NEW r \in 0 .. d - 1
  PROVE  (d * q + r) \div d = q /\ (d * q + r) % d = r
<1> DEFINE n == d * q + r
           s == n \div d
           t == n % d
<1>1. n \in Int
  OBVIOUS
<1>2. s \in Int /\ t \in 0 .. d - 1 /\ n = d * s + t
  BY <1>1, Quotient
<1>3. n = d * q + r
  OBVIOUS
<1> HIDE DEF n, s, t
<1>4. ASSUME s <= q - 1 PROVE FALSE
  <2>1. d * s <= d * (q - 1)
    BY <1>2, <1>4
  <2>2. d * (q - 1) = d * q - d
    OBVIOUS
  <2> QED BY <1>2, <1>3, <2>1, <2>2
<1>5. ASSUME s >= q + 1 PROVE FALSE
  <2>1. d * s >= d * (q + 1)
    BY <1>2, <1>5
  <2>2. d * (q + 1) = d * q + d
    OBVIOUS
  <2> QED BY <1>2, <1>3, <2>1, <2>2
<1>6. s = q
  BY <1>2, <1>4, <1>5
<1>7. t = r
  BY <1>2, <1>3, <1>6
<1> QED BY <1>6, <1>7 DEF s, t, n

LEMMA QuotientBounds ==
  ASSUME NEW n \in Int, NEW d \in Nat \ {0}, NEW q \in Int
  PROVE  n \div d = q <=> d * q <= n /\ n < d * q + d
<1>1. n \div d \in Int /\ n % d \in 0 .. d - 1 /\ n = d * (n \div d) + (n % d)
  BY Quotient
<1>2. ASSUME d * q <= n, n < d * q + d PROVE n \div d = q
  <2> DEFINE r == n - d * q
  <2>1. r \in 0 .. d - 1 /\ n = d * q + r
    BY <1>2
  <2> HIDE DEF r
  <2> QED BY <2>1, QuotientIs
<1>3. ASSUME n \div d = q PROVE d * q <= n /\ n < d * q + d
  BY <1>1, <1>3
<1> QED BY <1>2, <1>3

-----------------------------------------------------------------------------
(* Grids: the voxel of a point, and the number of a voxel.                 *)
IsGrid(grid) ==
  /\ grid.low \in Vector /\ grid.voxel \in Nat \ {0}
  /\ \A a \in Axes : grid.shape[a] \in Nat

LEMMA VectorIs ==
  ASSUME NEW p \in Vector
  PROVE  p[1] \in Int /\ p[2] \in Int /\ p[3] \in Int /\ p = <<p[1], p[2], p[3]>>
BY DEF Vector

LEMMA VoxelIs ==
  ASSUME NEW grid, IsGrid(grid), NEW p \in Vector
  PROVE  /\ VoxelOf(p, grid) \in Vector
         /\ \A a \in Axes : p[a] \in Int /\ grid.low[a] \in Int
         /\ \A a \in Axes : VoxelOf(p, grid)[a] = (p[a] - grid.low[a]) \div grid.voxel
         /\ \A v \in Vector : v = VoxelOf(p, grid) <=> \A a \in Axes :
              /\ grid.voxel * v[a] <= p[a] - grid.low[a]
              /\ p[a] - grid.low[a] < grid.voxel * v[a] + grid.voxel
<1> DEFINE Way(a) == p[a] - grid.low[a]
<1>1. \A a \in Axes : p[a] \in Int /\ grid.low[a] \in Int /\ Way(a) \in Int
  BY DEF IsGrid, Vector, Axes
<1>2. \A a \in Axes : VoxelOf(p, grid)[a] = Way(a) \div grid.voxel
  BY DEF VoxelOf
<1>3. VoxelOf(p, grid) = <<Way(1) \div grid.voxel, Way(2) \div grid.voxel, Way(3) \div grid.voxel>>
  BY DEF VoxelOf, Axes
<1>4. \A a \in Axes : Way(a) \div grid.voxel \in Int
  BY <1>1, Quotient DEF IsGrid
<1>5. VoxelOf(p, grid) \in Vector
  BY <1>3, <1>4 DEF Vector, Axes
<1>6. ASSUME NEW v \in Vector
      PROVE  v = VoxelOf(p, grid) <=> \A a \in Axes :
                 /\ grid.voxel * v[a] <= Way(a)
                 /\ Way(a) < grid.voxel * v[a] + grid.voxel
  <2>1. v = VoxelOf(p, grid) <=> \A a \in Axes : Way(a) \div grid.voxel = v[a]
    BY <1>2, <1>5, VectorIs DEF Axes
  <2>2. \A a \in Axes : Way(a) \div grid.voxel = v[a] <=> /\ grid.voxel * v[a] <= Way(a)
                                                          /\ Way(a) < grid.voxel * v[a] + grid.voxel
    <3> SUFFICES ASSUME NEW a \in Axes
                 PROVE  Way(a) \div grid.voxel = v[a] <=> /\ grid.voxel * v[a] <= Way(a)
                                                          /\ Way(a) < grid.voxel * v[a] + grid.voxel
      OBVIOUS
    <3>1. v[a] \in Int /\ Way(a) \in Int
      BY <1>1 DEF Vector, Axes
    <3> HIDE DEF Way
    <3> QED BY <3>1, QuotientBounds DEF IsGrid
  <2> HIDE DEF Way
  <2> QED BY <2>1, <2>2
<1> QED BY <1>1, <1>2, <1>5, <1>6

(* A voxel and its number in the array that is flattened row by row.       *)
IsNumber(i, x, y, z, k, m, n) ==
  i \in 0 .. k * m * n - 1 /\ i \div (m * n) = x /\ (i \div n) % m = y /\ i % n = z
LEMMA Numbered ==
  ASSUME NEW k \in Nat, NEW m \in Nat, NEW n \in Nat,
         NEW x \in 0 .. k - 1, NEW y \in 0 .. m - 1, NEW z \in 0 .. n - 1,
         NEW i, i = (x * m + y) * n + z
  PROVE  IsNumber(i, x, y, z, k, m, n)
<1> DEFINE row == x * m + y
           rest == y * n + z
<1>1. m \in Nat \ {0} /\ n \in Nat \ {0}
  OBVIOUS
<1>2. row \in Int /\ i \in Int /\ rest \in Int
  OBVIOUS
<1>3. row >= 0 /\ row <= k * m - 1
  <2>1. x * m >= 0
    OBVIOUS
  <2>2. x * m <= (k - 1) * m
    OBVIOUS
  <2>3. (k - 1) * m = k * m - m
    OBVIOUS
  <2> QED BY <2>1, <2>2, <2>3
<1>4. rest \in 0 .. m * n - 1
  <2>1. y * n >= 0
    OBVIOUS
  <2>2. y * n <= (m - 1) * n
    OBVIOUS
  <2>3. (m - 1) * n = m * n - n
    OBVIOUS
  <2> QED BY <2>1, <2>2, <2>3
<1>5. i >= 0 /\ i <= k * m * n - 1
  <2>0. i = row * n + z
    OBVIOUS
  <2> HIDE DEF row
  <2>1. row * n >= 0
    BY <1>2, <1>3
  <2>2. row * n <= (k * m - 1) * n
    <3> DEFINE most == k * m - 1
    <3>1. most \in Int /\ row <= most
      BY <1>3
    <3> HIDE DEF most
    <3>2. row * n <= most * n
      BY <1>2, <3>1
    <3> QED BY <3>2 DEF most
  <2>3. (k * m - 1) * n = k * m * n - n
    OBVIOUS
  <2> QED BY <1>2, <2>0, <2>1, <2>2, <2>3
<1>6. i \div n = row /\ i % n = z
  <2>1. i = n * row + z
    <3>1. i = row * n + z
      OBVIOUS
    <3> HIDE DEF row
    <3> QED BY <1>2, <3>1
  <2> HIDE DEF row
  <2> QED BY <1>1, <1>2, <2>1, QuotientIs
<1>7. row % m = y
  <2>1. row = m * x + y
    OBVIOUS
  <2> HIDE DEF row
  <2> QED BY <1>1, <1>2, <2>1, QuotientIs
<1>8. i \div (m * n) = x
  <2>1. i = (m * n) * x + rest
    OBVIOUS
  <2>2. m * n \in Nat \ {0}
    BY <1>1
  <2> DEFINE mn == m * n
  <2> HIDE DEF rest, mn
  <2>3. i = mn * x + rest /\ mn \in Nat \ {0} /\ rest \in 0 .. mn - 1
    BY <1>4, <2>1, <2>2 DEF mn
  <2>4. i \div mn = x
    BY <2>3, QuotientIs
  <2> QED BY <2>4 DEF mn
<1> QED BY <1>2, <1>5, <1>6, <1>7, <1>8 DEF IsNumber

(* A cube of RViz stands for the voxel it is made for.                     *)
LEMMA ShownAreMarked ==
  ASSUME NEW grid, IsGrid(grid), grid.shape[1] = grid.shape[3], NEW points \in SUBSET Vector
  PROVE  Shown(GetVoxelGrid(points, grid)) =
           {[a \in Axes |-> grid.low[a] + v[a] * grid.voxel] : v \in
              {v \in Voxels(grid) : \E p \in points : v = VoxelOf(p, grid)}}
<1> DEFINE k == grid.shape[1]
           m == grid.shape[2]
           answer == GetVoxelGrid(points, grid)
           Number(v) == (v[1] * m + v[2]) * k + v[3]
           At(i) == <<i \div (m * k), (i \div k) % m, i % k>>
           marked == {VoxelOf(p, grid) : p \in points}
<1>1. k \in Nat /\ m \in Nat /\ grid.shape[3] = k
  BY DEF IsGrid, Axes
<1>2. answer.grid = grid /\ answer.data = [n \in 1 .. k * m * k |-> At(n - 1) \in marked]
  BY <1>1 DEF GetVoxelGrid
<1>3. Voxels(grid) = (0 .. k - 1) \X (0 .. m - 1) \X (0 .. k - 1)
  BY <1>1 DEF Voxels
<1>4. ASSUME NEW v \in Voxels(grid)
      PROVE  answer.data[1 + (v[1] * m + v[2]) * k + v[3]] = (v \in marked)
  <2>1. v[1] \in 0 .. k - 1 /\ v[2] \in 0 .. m - 1 /\ v[3] \in 0 .. k - 1 /\ v = <<v[1], v[2], v[3]>>
    BY <1>3
  <2> DEFINE i == Number(v)
  <2>2. i \in 0 .. k * m * k - 1 /\ i \div (m * k) = v[1] /\ (i \div k) % m = v[2] /\ i % k = v[3]
    <3> HIDE DEF k, m
    <3>1. k \in Nat /\ m \in Nat /\ v[1] \in 0 .. k - 1 /\ v[2] \in 0 .. m - 1 /\ v[3] \in 0 .. k - 1
      BY <1>1, <2>1
    <3>2. i = (v[1] * m + v[2]) * k + v[3]
      OBVIOUS
    <3> HIDE DEF i
    <3>3. IsNumber(i, v[1], v[2], v[3], k, m, k)
      BY <3>1, <3>2, Numbered
    <3> QED BY <3>3 DEF IsNumber
  <2>3. 1 + (v[1] * m + v[2]) * k + v[3] = i + 1
    <3>1. (v[1] * m + v[2]) * k \in Int
      BY <1>1, <2>1
    <3> QED BY <2>1, <3>1
  <2> HIDE DEF i, marked
  <2>4. At(i) = v
    BY <2>1, <2>2
  <2>5. i + 1 \in 1 .. k * m * k /\ (i + 1) - 1 = i
    <3> DEFINE all == k * m * k
    <3>1. all \in Int
      BY <1>1
    <3>2. i \in 0 .. all - 1
      BY <2>2
    <3> HIDE DEF all
    <3>3. i + 1 \in 1 .. all /\ (i + 1) - 1 = i
      BY <3>1, <3>2
    <3> QED BY <3>3 DEF all
  <2>6. answer.data[i + 1] = (At((i + 1) - 1) \in marked)
    <3> HIDE DEF At
    <3> QED BY <1>2, <2>5, Zenon
  <2>7. answer.data[i + 1] = (v \in marked)
    <3> HIDE DEF At
    <3> QED BY <2>4, <2>5, <2>6, Zenon
  <2> QED BY <2>3, <2>7, Zenon
<1>5. {v \in Voxels(grid) : answer.data[1 + (v[1] * m + v[2]) * k + v[3]]}
        = {v \in Voxels(grid) : v \in marked}
  <2> HIDE DEF marked, m, k
  <2> QED BY <1>4, Zenon
<1>6. {v \in Voxels(grid) : v \in marked} = {v \in Voxels(grid) : \E p \in points : v = VoxelOf(p, grid)}
  OBVIOUS
<1>7. Shown(answer) = {[a \in Axes |-> grid.low[a] + v[a] * grid.voxel] : v \in
                         {v \in Voxels(grid) : answer.data[1 + (v[1] * m + v[2]) * k + v[3]]}}
  <2>1. (0 .. grid.shape[3] - 1) \X (0 .. grid.shape[2] - 1) \X (0 .. grid.shape[1] - 1) = Voxels(grid)
    BY <1>1, <1>3
  <2> DEFINE Of(g) == {[a \in Axes |-> g.low[a] + v[a] * g.voxel] : v \in
                         {v \in (0 .. g.shape[3] - 1) \X (0 .. g.shape[2] - 1) \X (0 .. g.shape[1] - 1) :
                            answer.data[1 + (v[1] * g.shape[2] + v[2]) * g.shape[1] + v[3]]}}
  <2>2. answer.grid = grid
    BY <1>2
  <2> HIDE DEF answer
  <2>3. Shown(answer) = Of(answer.grid)
    BY Zenon DEF Shown
  <2>4. Of(answer.grid) = Of(grid)
    <3> HIDE DEF Of
    <3> QED BY <2>2, Zenon
  <2>5. Of(grid) = {[a \in Axes |-> grid.low[a] + v[a] * grid.voxel] : v \in
                      {v \in Voxels(grid) : answer.data[1 + (v[1] * m + v[2]) * k + v[3]]}}
    <3> DEFINE Q(S) == {[a \in Axes |-> grid.low[a] + v[a] * grid.voxel] : v \in
                          {v \in S : answer.data[1 + (v[1] * m + v[2]) * k + v[3]]}}
    <3> HIDE DEF Q
    <3>1. Q((0 .. grid.shape[3] - 1) \X (0 .. grid.shape[2] - 1) \X (0 .. grid.shape[1] - 1)) = Q(Voxels(grid))
      BY <2>1, Zenon
    <3> QED BY <3>1, Zenon DEF Q
  <2> HIDE DEF Of
  <2> QED BY <2>3, <2>4, <2>5, Zenon
<1> HIDE DEF answer, m, k, marked
<1>8. {v \in Voxels(grid) : answer.data[1 + (v[1] * m + v[2]) * k + v[3]]}
        = {v \in Voxels(grid) : \E p \in points : v = VoxelOf(p, grid)}
  BY <1>5, <1>6, Zenon
<1>9. Shown(answer) = {[a \in Axes |-> grid.low[a] + v[a] * grid.voxel] : v \in
                         {v \in Voxels(grid) : \E p \in points : v = VoxelOf(p, grid)}}
  BY <1>7, <1>8, Zenon
<1> QED BY <1>9, Zenon DEF answer

(* A voxel of a grid, by its bounds.                                       *)
LEMMA VoxelsAre ==
  ASSUME NEW grid, IsGrid(grid)
  PROVE  \A v : v \in Voxels(grid) <=> v \in Vector /\ \A a \in Axes : v[a] \in 0 .. grid.shape[a] - 1
<1> SUFFICES ASSUME NEW v
             PROVE  v \in Voxels(grid) <=> v \in Vector /\ \A a \in Axes : v[a] \in 0 .. grid.shape[a] - 1
  OBVIOUS
<1>1. grid.shape[1] \in Nat /\ grid.shape[2] \in Nat /\ grid.shape[3] \in Nat
  BY DEF IsGrid, Axes
<1>2. ASSUME v \in Voxels(grid) PROVE v \in Vector /\ \A a \in Axes : v[a] \in 0 .. grid.shape[a] - 1
  BY <1>1, <1>2 DEF Voxels, Vector, Axes
<1>3. ASSUME v \in Vector, \A a \in Axes : v[a] \in 0 .. grid.shape[a] - 1 PROVE v \in Voxels(grid)
  <2>1. v[1] \in 0 .. grid.shape[1] - 1 /\ v[2] \in 0 .. grid.shape[2] - 1 /\ v[3] \in 0 .. grid.shape[3] - 1
    BY <1>3 DEF Axes
  <2>2. v = <<v[1], v[2], v[3]>>
    BY <1>3, VectorIs
  <2> QED BY <2>1, <2>2 DEF Voxels
<1> QED BY <1>2, <1>3

LEMMA InsideIs ==
  ASSUME NEW grid, IsGrid(grid), NEW p \in Vector
  PROVE  Inside(p, grid) <=> VoxelOf(p, grid) \in Voxels(grid)
<1> DEFINE v == VoxelOf(p, grid)
<1>1. /\ v \in Vector
      /\ \A a \in Axes : p[a] \in Int /\ grid.low[a] \in Int
      /\ \A a \in Axes : /\ grid.voxel * v[a] <= p[a] - grid.low[a]
                         /\ p[a] - grid.low[a] < grid.voxel * v[a] + grid.voxel
  <2>1. v \in Vector /\ v = VoxelOf(p, grid)
    BY VoxelIs
  <2> QED BY <2>1, VoxelIs
<1>2. ASSUME NEW a \in Axes
      PROVE  (p[a] >= grid.low[a] /\ p[a] < grid.low[a] + grid.voxel * grid.shape[a])
               <=> v[a] \in 0 .. grid.shape[a] - 1
  <2> DEFINE d == grid.voxel
             w == v[a]
             n == grid.shape[a]
             way == p[a] - grid.low[a]
  <2>1. d \in Nat \ {0} /\ w \in Int /\ n \in Nat /\ way \in Int /\ d * w <= way /\ way < d * w + d
    BY <1>1 DEF IsGrid, Vector, Axes
  <2>2. (p[a] >= grid.low[a] /\ p[a] < grid.low[a] + grid.voxel * grid.shape[a]) <=> (way >= 0 /\ way < d * n)
    <3>1. d * n \in Int /\ p[a] \in Int /\ grid.low[a] \in Int
      BY <1>1, <2>1
    <3> QED BY <3>1
  <2> HIDE DEF d, w, n, way, v
  <2>3. ASSUME way >= 0, way < d * n PROVE w >= 0 /\ w <= n - 1
    <3>1. ASSUME w <= -1 PROVE FALSE
      <4>1. d * w <= d * (-1)
        BY <2>1, <3>1
      <4> QED BY <2>1, <2>3, <4>1
    <3>2. ASSUME w >= n PROVE FALSE
      <4>1. d * w >= d * n
        BY <2>1, <3>2
      <4> QED BY <2>1, <2>3, <4>1
    <3> QED BY <2>1, <3>1, <3>2
  <2>4. ASSUME w >= 0, w <= n - 1 PROVE way >= 0 /\ way < d * n
    <3>1. d * w >= 0
      BY <2>1, <2>4
    <3>2. d * w <= d * (n - 1)
      BY <2>1, <2>4
    <3>3. d * (n - 1) = d * n - d
      BY <2>1
    <3> QED BY <2>1, <3>1, <3>2, <3>3
  <2>5. w \in 0 .. n - 1 <=> w >= 0 /\ w <= n - 1
    BY <2>1
  <2> QED BY <2>2, <2>3, <2>4, <2>5 DEF w, n
<1> QED BY <1>1, <1>2, VoxelsAre DEF Inside

(* RViz shows a cube around each point of the world that is in the grid,   *)
(* and no others, wherever the grid is, however large and fine (the flat   *)
(* array of get_voxel_grid, the loops of create_voxel_grid_marker).        *)
THEOREM DisplayTellsTheWorld ==
  ASSUME NEW grid, IsGrid(grid), grid.shape[1] = grid.shape[3], NEW points \in SUBSET Vector
  PROVE  DisplayIsTrue(points, grid)
<1> DEFINE Corner(v) == [a \in Axes |-> grid.low[a] + v[a] * grid.voxel]
           shown == Shown(GetVoxelGrid(points, grid))
           In(p, corner) == \A a \in Axes : p[a] >= corner[a] /\ p[a] < corner[a] + grid.voxel
           marked == {v \in Voxels(grid) : \E p \in points : v = VoxelOf(p, grid)}
<1>1. shown = {Corner(v) : v \in marked}
  BY ShownAreMarked
<1>2. ASSUME NEW p \in points
      PROVE  In(p, Corner(VoxelOf(p, grid)))
  <2> DEFINE v == VoxelOf(p, grid)
  <2>1. /\ v \in Vector
        /\ \A a \in Axes : p[a] \in Int /\ grid.low[a] \in Int
        /\ \A a \in Axes : /\ grid.voxel * v[a] <= p[a] - grid.low[a]
                           /\ p[a] - grid.low[a] < grid.voxel * v[a] + grid.voxel
    <3>1. v \in Vector /\ v = VoxelOf(p, grid)
      BY VoxelIs
    <3> QED BY <3>1, VoxelIs
  <2> SUFFICES ASSUME NEW a \in Axes
               PROVE  p[a] >= Corner(v)[a] /\ p[a] < Corner(v)[a] + grid.voxel
    OBVIOUS
  <2>2. Corner(v)[a] = grid.low[a] + v[a] * grid.voxel
    OBVIOUS
  <2>3. v[a] * grid.voxel = grid.voxel * v[a] /\ grid.voxel * v[a] \in Int /\ grid.voxel \in Int
    BY <2>1 DEF IsGrid, Vector, Axes
  <2> HIDE DEF Corner, v
  <2> QED BY <2>1, <2>2, <2>3
<1> HIDE DEF Corner, In, marked, shown
<1>3. ASSUME NEW p \in points, Inside(p, grid)
      PROVE  \E d \in shown : In(p, d)
  <2>1. VoxelOf(p, grid) \in marked
    BY <1>3, InsideIs DEF marked
  <2> QED BY <1>1, <1>2, <2>1
<1>4. ASSUME NEW d \in shown
      PROVE  \E p \in points : In(p, d)
  <2>1. PICK v \in marked : d = Corner(v)
    BY <1>1
  <2>2. PICK p \in points : v = VoxelOf(p, grid)
    BY DEF marked
  <2> QED BY <1>2, <2>1, <2>2
<1> QED BY <1>3, <1>4 DEF DisplayIsTrue, In, shown

-----------------------------------------------------------------------------
(* Numbers, and squares of distances, have a least.                        *)
LEMMA LeastExists ==
  ASSUME NEW S \in SUBSET Nat, S # {}
  PROVE  Least(S) \in S /\ \A m \in S : Least(S) <= m
<1> DEFINE Less == {p \in Nat \X Nat : p[1] < p[2]}
<1>1. OpToRel(<, Nat) = Less
  BY Zenon DEF OpToRel
<1>2. PICK n \in S : \A m \in S : ~ (<<m, n>> \in Less)
  <2> HIDE DEF Less
  <2>1. IsWellFoundedOn(Less, Nat)
    BY <1>1, NatLessThanWellFounded, Zenon
  <2> QED BY <2>1, WFMin, Zenon
<1>3. ASSUME NEW m \in S
      PROVE  n <= m
  <2>1. ~ (<<m, n>> \in Less)
    BY <1>2
  <2>2. <<m, n>> \in Nat \X Nat
    OBVIOUS
  <2>3. ~ (m < n)
    BY <2>1, <2>2
  <2> QED BY <2>3
<1>4. \E k \in S : \A m \in S : k <= m
  BY <1>3
<1> HIDE DEF Less
<1> QED BY <1>4 DEF Least

(* Grids of distances.                                                     *)
LEMMA TruncatedIs ==
  ASSUME NEW n \in Int, NEW d \in Nat \ {0}
  PROVE  /\ Truncated(n, d) \in Int
         /\ n >= 0 => Truncated(n, d) = n \div d
         /\ Truncated(n, d) >= 0 => \/ Truncated(n, d) = n \div d
                                    \/ Truncated(n, d) = 0 /\ n \div d = -1
<1>1. CASE n >= 0
  BY <1>1, Quotient DEF Truncated
<1>2. CASE n < 0
  <2> DEFINE q == (-n) \div d
  <2>1. -n \in Int
    OBVIOUS
  <2>2. q \in Int /\ d * q <= -n /\ -n < d * q + d
    BY <2>1, Quotient, QuotientBounds
  <2>3. Truncated(n, d) = -q
    BY <1>2 DEF Truncated
  <2> HIDE DEF q
  <2>4. q >= 0
    <3>1. ASSUME q <= -1 PROVE FALSE
      <4>1. d * q <= d * (-1)
        BY <2>2, <3>1
      <4>2. d * (-1) = -d
        OBVIOUS
      <4> QED BY <1>2, <2>2, <4>1, <4>2
    <3> QED BY <2>2, <3>1
  <2>5. CASE q = 0
    <3>1. d * (-1) <= n /\ n < d * (-1) + d
      BY <1>2, <2>2, <2>5
    <3>2. n \div d = -1
      BY <3>1, QuotientBounds
    <3>3. Truncated(n, d) = 0
      <4>1. Truncated(n, d) \in Int /\ Truncated(n, d) + q = 0
        BY <2>2, <2>3
      <4> QED BY <2>5, <4>1
    <3> QED BY <1>2, <3>2, <3>3
  <2>6. CASE q > 0
    BY <1>2, <2>2, <2>3, <2>6
  <2> QED BY <2>2, <2>4, <2>5, <2>6
<1> QED BY <1>1, <1>2

LEMMA SquaredDistanceIs ==
  ASSUME NEW p \in Vector, NEW q \in Vector
  PROVE  SquaredDistance(p, q) \in Nat
<1>1. \A n \in Int : Square(n) \in Int /\ Square(n) >= 0
  <2> SUFFICES ASSUME NEW n \in Int PROVE n * n >= 0
    BY DEF Square
  <2>1. CASE n >= 0
    BY <2>1
  <2>2. CASE n <= 0
    BY <2>2
  <2> QED BY <2>1, <2>2
<1>2. p[1] - q[1] \in Int /\ p[2] - q[2] \in Int /\ p[3] - q[3] \in Int
  BY DEF Vector
<1> QED BY <1>1, <1>2 DEF SquaredDistance

(* What a cloud marks.                                                     *)
LEMMA Marks ==
  ASSUME NEW grid, IsGrid(grid), NEW cloud \in SUBSET Vector
  PROVE  LET occupied == PointsToVoxels(cloud, grid)
         IN  /\ occupied \subseteq Voxels(grid)
             /\ \A p \in cloud : Inside(p, grid) => VoxelOf(p, grid) \in occupied
             /\ \A v \in occupied : \E p \in cloud : \A a \in Axes :
                  VoxelOf(p, grid)[a] = v[a] \/ (v[a] = 0 /\ VoxelOf(p, grid)[a] = -1)
<1> DEFINE Marked(p) == [a \in Axes |-> Truncated(p[a] - grid.low[a], grid.voxel)]
           occupied == PointsToVoxels(cloud, grid)
<1>1. occupied = {Marked(p) : p \in cloud} \cap Voxels(grid)
  BY DEF PointsToVoxels
<1>2. ASSUME NEW p \in Vector, NEW a \in Axes
      PROVE  /\ p[a] - grid.low[a] \in Int /\ VoxelOf(p, grid)[a] = (p[a] - grid.low[a]) \div grid.voxel
             /\ Marked(p)[a] = Truncated(p[a] - grid.low[a], grid.voxel)
  BY VoxelIs
<1> HIDE DEF occupied
<1>3. ASSUME NEW p \in cloud, Inside(p, grid)
      PROVE  VoxelOf(p, grid) \in occupied
  <2>1. ASSUME NEW a \in Axes
        PROVE  Marked(p)[a] = VoxelOf(p, grid)[a]
    <3>1. p[a] - grid.low[a] >= 0
      <4>1. p[a] \in Int /\ grid.low[a] \in Int
        BY VoxelIs
      <4>2. p[a] >= grid.low[a]
        BY <1>3 DEF Inside
      <4> QED BY <4>1, <4>2
    <3> HIDE DEF Marked
    <3> QED BY <1>2, <3>1, TruncatedIs DEF IsGrid
  <2>2. Marked(p) = VoxelOf(p, grid)
    <3>1. VoxelOf(p, grid) = [a \in Axes |-> VoxelOf(p, grid)[a]]
      BY DEF VoxelOf
    <3>2. Marked(p) = [a \in Axes |-> Marked(p)[a]]
      OBVIOUS
    <3> HIDE DEF Marked
    <3> QED BY <2>1, <3>1, <3>2
  <2> HIDE DEF Marked
  <2> QED BY <1>1, <1>3, <2>2, InsideIs
<1>4. ASSUME NEW v \in occupied
      PROVE  \E p \in cloud : \A a \in Axes :
               VoxelOf(p, grid)[a] = v[a] \/ (v[a] = 0 /\ VoxelOf(p, grid)[a] = -1)
  <2>1. PICK p \in cloud : v = Marked(p)
    BY <1>1
  <2>2. \A a \in Axes : v[a] >= 0
    BY <1>1, VoxelsAre DEF IsGrid
  <2>3. ASSUME NEW a \in Axes
        PROVE  VoxelOf(p, grid)[a] = v[a] \/ (v[a] = 0 /\ VoxelOf(p, grid)[a] = -1)
    <3> HIDE DEF Marked
    <3> QED BY <1>2, <2>1, <2>2, TruncatedIs DEF IsGrid
  <2> QED BY <2>3
<1> QED BY <1>1, <1>3, <1>4 DEF occupied

(* The grid of a cloud: positive where a point is, or is less than a voxel *)
(* below the grid, and no farther from any point than it says elsewhere.   *)
LEMMA EsdfOfCloud ==
  ASSUME NEW grid, IsGrid(grid), NEW cloud \in SUBSET Vector
  PROVE  GridIsTrue(Esdf(PointsToVoxels(cloud, grid), grid), cloud, grid)
<1> DEFINE occupied == PointsToVoxels(cloud, grid)
           esdf == Esdf(occupied, grid)
           Gaps(v) == {SquaredDistance(v, w) : w \in occupied}
<1>1. /\ occupied \subseteq Voxels(grid) /\ Voxels(grid) \subseteq Vector
      /\ \A p \in cloud : Inside(p, grid) => VoxelOf(p, grid) \in occupied
      /\ \A v \in occupied : \E p \in cloud : \A a \in Axes :
           VoxelOf(p, grid)[a] = v[a] \/ (v[a] = 0 /\ VoxelOf(p, grid)[a] = -1)
  BY Marks, VoxelsAre
<1>2. DOMAIN esdf = Voxels(grid)
  BY DEF Esdf
<1>3. ASSUME NEW v \in Voxels(grid)
      PROVE  /\ v \in occupied => esdf[v] = 1
             /\ v \notin occupied /\ occupied = {} => esdf[v] = -1
             /\ v \notin occupied /\ occupied # {} => esdf[v] = -Least(Gaps(v))
  BY DEF Esdf
<1> HIDE DEF esdf, occupied
<1>4. ASSUME NEW v \in Voxels(grid), occupied # {}
      PROVE  Least(Gaps(v)) \in Nat /\ \A w \in occupied : Least(Gaps(v)) <= SquaredDistance(v, w)
  <2>1. Gaps(v) \in SUBSET Nat
    BY <1>1, SquaredDistanceIs
  <2>2. Gaps(v) # {}
    BY <1>4
  <2>3. \A w \in occupied : SquaredDistance(v, w) \in Gaps(v)
    OBVIOUS
  <2> HIDE DEF Gaps
  <2> QED BY <2>1, <2>2, <2>3, LeastExists
<1> HIDE DEF Gaps
<1>5. ASSUME NEW v \in Voxels(grid), esdf[v] > 0
      PROVE  v \in occupied
  <2>1. ASSUME v \notin occupied PROVE FALSE
    BY <1>3, <1>4, <1>5, <2>1
  <2> QED BY <2>1
<1>6. ASSUME NEW v \in Voxels(grid), NEW p \in cloud, Inside(p, grid), esdf[v] < 0
      PROVE  -esdf[v] <= SquaredDistance(v, VoxelOf(p, grid))
  <2>1. VoxelOf(p, grid) \in occupied
    BY <1>1, <1>6
  <2>2. esdf[v] = -Least(Gaps(v)) /\ Least(Gaps(v)) \in Nat
    BY <1>3, <1>4, <1>6, <2>1
  <2>3. Least(Gaps(v)) <= SquaredDistance(v, VoxelOf(p, grid))
    BY <1>4, <2>1
  <2> QED BY <2>2, <2>3
<1>7. GridIsTrue(esdf, cloud, grid)
  <2>1. \A p \in cloud : Inside(p, grid) => esdf[VoxelOf(p, grid)] > 0
    BY <1>1, <1>3
  <2>2. \A v \in DOMAIN esdf : esdf[v] > 0 =>
          \E p \in cloud : \A a \in Axes : VoxelOf(p, grid)[a] = v[a] \/ (v[a] = 0 /\ VoxelOf(p, grid)[a] = -1)
    BY <1>1, <1>2, <1>5
  <2>3. \A v \in DOMAIN esdf, p \in cloud :
          Inside(p, grid) /\ esdf[v] < 0 => -esdf[v] <= SquaredDistance(v, VoxelOf(p, grid))
    BY <1>2, <1>6
  <2> QED BY <2>1, <2>2, <2>3, Zenon DEF GridIsTrue
<1> QED BY <1>7 DEF esdf, occupied

(* Grids by the names of their cameras.                                    *)
IsList(voxel, Names, Grids) ==
  /\ voxel \in Seq([name : Names, esdf : Grids])
  /\ \A i, j \in DOMAIN voxel : voxel[i].name = voxel[j].name => i = j
Has(voxel, name) == \E i \in DOMAIN voxel : voxel[i].name = name

(* A list in which the grid of a camera is another one, or is new.         *)
IsUpdated(after, voxel, name, esdf) ==
  /\ \A i \in DOMAIN voxel : i \in DOMAIN after /\ (voxel[i].name # name => after[i] = voxel[i])
  /\ Len(after) = Len(voxel) + IF Has(voxel, name) THEN 0 ELSE 1
  /\ Has(after, name)
  /\ \A i \in DOMAIN after : after[i].name = name => after[i].esdf = esdf

LEMMA UpdateReplaces ==
  ASSUME NEW Names, NEW Grids, NEW voxel, IsList(voxel, Names, Grids),
         NEW name \in Names, NEW esdf \in Grids
  PROVE  LET after == UpdateWorldConfig(voxel, esdf, name)
         IN  IsList(after, Names, Grids) /\ IsUpdated(after, voxel, name, esdf)
<1> DEFINE mine == {i \in DOMAIN voxel : voxel[i].name = name}
           after == UpdateWorldConfig(voxel, esdf, name)
           one == [name |-> name, esdf |-> esdf]
<1>1. /\ voxel \in Seq([name : Names, esdf : Grids]) /\ Len(voxel) \in Nat /\ DOMAIN voxel = 1 .. Len(voxel)
      /\ \A i \in DOMAIN voxel : voxel[i] \in [name : Names, esdf : Grids]
      /\ \A i, j \in DOMAIN voxel : voxel[i].name = voxel[j].name => i = j
  <2>1. voxel \in Seq([name : Names, esdf : Grids])
    BY DEF IsList
  <2>2. \A i, j \in DOMAIN voxel : voxel[i].name = voxel[j].name => i = j
    BY Zenon DEF IsList
  <2>3. /\ Len(voxel) \in Nat /\ DOMAIN voxel = 1 .. Len(voxel)
        /\ \A i \in DOMAIN voxel : voxel[i] \in [name : Names, esdf : Grids]
    <3> DEFINE R == [name : Names, esdf : Grids]
    <3>1. voxel \in Seq(R)
      BY <2>1
    <3> HIDE DEF R
    <3>2. Len(voxel) \in Nat /\ DOMAIN voxel = 1 .. Len(voxel) /\ \A i \in DOMAIN voxel : voxel[i] \in R
      BY <3>1
    <3> QED BY <3>2 DEF R
  <2> QED BY <2>1, <2>2, <2>3, Zenon
<1>2. CASE mine = {}
  <2>1. after = Append(voxel, one)
    BY <1>2 DEF UpdateWorldConfig
  <2>2. one \in [name : Names, esdf : Grids]
    OBVIOUS
  <2>3. \A i \in DOMAIN voxel : voxel[i].name # name
    BY <1>2
  <2> HIDE DEF after
  <2>4. /\ after \in Seq([name : Names, esdf : Grids]) /\ Len(after) = Len(voxel) + 1
        /\ DOMAIN after = 1 .. Len(voxel) + 1
        /\ \A i \in DOMAIN voxel : i \in DOMAIN after /\ after[i] = voxel[i]
        /\ after[Len(voxel) + 1] = one
    BY <1>1, <2>1, <2>2
  <2>5. one.name = name /\ one.esdf = esdf
    OBVIOUS
  <2> HIDE DEF one
  <2>6. \A i \in DOMAIN after : i \in DOMAIN voxel \/ i = Len(voxel) + 1
    BY <1>1, <2>4
  <2>7. \A i \in DOMAIN after : after[i].name = name => i = Len(voxel) + 1
    BY <2>3, <2>4, <2>6
  <2>8. \A i, j \in DOMAIN after : after[i].name = after[j].name => i = j
    BY <1>1, <2>3, <2>4, <2>5, <2>6
  <2>9. Has(after, name) /\ ~ Has(voxel, name)
    <3>1. Len(voxel) + 1 \in DOMAIN after
      BY <1>1, <2>4
    <3> QED BY <2>3, <2>4, <2>5, <3>1 DEF Has
  <2>10. Len(after) = Len(voxel) + IF Has(voxel, name) THEN 0 ELSE 1
    BY <2>4, <2>9
  <2> QED BY <2>4, <2>5, <2>7, <2>8, <2>9, <2>10 DEF after, IsList, IsUpdated
<1>3. CASE mine # {}
  <2> DEFINE k == Least(mine)
  <2>1. PICK n \in DOMAIN voxel : voxel[n].name = name
    BY <1>3
  <2>2. mine = {n}
    BY <1>1, <2>1
  <2>3. k = n
    <3>1. \A x, y : x \in {y} <=> x = y
      OBVIOUS
    <3>2. n \in Nat
      BY <1>1
    <3>3. n \in mine /\ \A m \in mine : n <= m
      BY <2>2, <3>2
    <3>4. k \in mine
      BY <3>3, Zenon DEF Least
    <3> QED BY <2>2, <3>4
  <2>4. after = [voxel EXCEPT ![k].esdf = esdf]
    BY <1>3 DEF UpdateWorldConfig
  <2> HIDE DEF after, k, mine
  <2>5. after = [voxel EXCEPT ![n] = [voxel[n] EXCEPT !.esdf = esdf]]
    BY <2>3, <2>4
  <2>6. voxel[n] \in [name : Names, esdf : Grids]
    BY <1>1, <2>1
  <2>7. [voxel[n] EXCEPT !.esdf = esdf] = one
    BY <2>1, <2>6
  <2> HIDE DEF one
  <2>8. after = [voxel EXCEPT ![n] = one]
    BY <2>5, <2>7
  <2>9. one \in [name : Names, esdf : Grids] /\ one.name = name /\ one.esdf = esdf
    BY DEF one
  <2>10. after \in Seq([name : Names, esdf : Grids]) /\ Len(after) = Len(voxel) /\ DOMAIN after = DOMAIN voxel
    BY <1>1, <2>1, <2>8, <2>9
  <2>11. after[n] = one /\ \A i \in DOMAIN voxel : i # n => after[i] = voxel[i]
    BY <1>1, <2>1, <2>8
  <2>12. \A i \in DOMAIN voxel : after[i].name = voxel[i].name
    BY <2>1, <2>9, <2>11
  <2>13. \A i \in DOMAIN voxel : voxel[i].name = name => i = n
    BY <1>1, <2>1
  <2>14. Has(after, name) /\ Has(voxel, name)
    BY <2>1, <2>10, <2>12 DEF Has
  <2>15. Len(after) = Len(voxel) + IF Has(voxel, name) THEN 0 ELSE 1
    BY <1>1, <2>10, <2>14
  <2>16. IsList(after, Names, Grids)
    BY <1>1, <2>10, <2>12 DEF IsList
  <2>17. IsUpdated(after, voxel, name, esdf)
    BY <2>1, <2>9, <2>10, <2>11, <2>12, <2>13, <2>14, <2>15 DEF IsUpdated
  <2> QED BY <2>16, <2>17 DEF after
<1> QED BY <1>2, <1>3

(* Of the clouds of a camera, the last that had a point is what the world  *)
(* of the planner says: it marks the voxels of its points and no others,   *)
(* and the grids of other cameras stay (pointcloud_callback,               *)
(* _points_to_voxels_vectorized, _compute_esdf_fast, update_world_config). *)
THEOREM CloudsAreTheWorld ==
  ASSUME NEW grid, IsGrid(grid), NEW Names, NEW Grids, NEW voxel, IsList(voxel, Names, Grids),
         NEW name \in Names, NEW first, first.finite \in SUBSET Vector,
         NEW second, second.finite \in SUBSET Vector
  PROVE  CloudsArrive(voxel, name, first, second, grid)
<1> DEFINE Distances(cloud) == Esdf(PointsToVoxels(cloud.finite, grid), grid)
           All == Grids \cup {Distances(first), Distances(second)}
           After(list, cloud) == OnPointCloud(list, name, cloud, grid)
<1>1. IsList(voxel, Names, All)
  <2>1. voxel \in Seq([name : Names, esdf : Grids])
    BY DEF IsList
  <2>2. [name : Names, esdf : Grids] \subseteq [name : Names, esdf : All]
    <3> HIDE DEF Distances
    <3> QED OBVIOUS
  <2> DEFINE R == [name : Names, esdf : All]
             Q == [name : Names, esdf : Grids]
  <2> HIDE DEF R, Q
  <2>3. voxel \in Seq(Q) /\ Q \subseteq R
    BY <2>1, <2>2 DEF Q, R
  <2>4. voxel \in Seq(R)
    BY <2>3
  <2> QED BY <2>4 DEF IsList, R
<1> HIDE DEF All
<1>2. ASSUME NEW list, IsList(list, Names, All), NEW cloud \in {first, second}
      PROVE  /\ cloud.finite = {} => After(list, cloud) = list
             /\ IsList(After(list, cloud), Names, All)
             /\ cloud.finite # {} => IsUpdated(After(list, cloud), list, name, Distances(cloud))
  <2>1. Distances(cloud) \in All
    BY DEF All
  <2>2. cloud.finite # {} => After(list, cloud) = UpdateWorldConfig(list, Distances(cloud), name)
    BY DEF OnPointCloud
  <2>3. cloud.finite = {} => After(list, cloud) = list
    BY DEF OnPointCloud
  <2> HIDE DEF Distances, After
  <2>4. /\ IsList(UpdateWorldConfig(list, Distances(cloud), name), Names, All)
        /\ IsUpdated(UpdateWorldConfig(list, Distances(cloud), name), list, name, Distances(cloud))
    BY <1>2, <2>1, UpdateReplaces
  <2> QED BY <1>2, <2>2, <2>3, <2>4
<1> DEFINE one == After(voxel, first)
           two == After(one, second)
           last == IF second.finite = {} THEN first ELSE second
<1>3. GridIsTrue(Distances(last), last.finite, grid)
  BY EsdfOfCloud
<1>4. last \in {first, second}
  OBVIOUS
<1> HIDE DEF Distances, After
<1>5. IsList(one, Names, All) /\ IsList(two, Names, All)
  BY <1>1, <1>2
<1>6. /\ first.finite = {} => one = voxel
      /\ first.finite # {} => IsUpdated(one, voxel, name, Distances(first))
      /\ second.finite = {} => two = one
      /\ second.finite # {} => IsUpdated(two, one, name, Distances(second))
  BY <1>1, <1>2, <1>5
<1>7. Len(voxel) \in Nat /\ Len(one) \in Nat /\ Len(two) \in Nat
  BY <1>1, <1>5 DEF IsList
<1> HIDE DEF one, two
<1>8. \A i \in DOMAIN voxel : voxel[i].name # name => two[i] = voxel[i]
  <2>1. \A i \in DOMAIN voxel : i \in DOMAIN one /\ (voxel[i].name # name => one[i] = voxel[i])
    BY <1>6, Zenon DEF IsUpdated
  <2>2. \A i \in DOMAIN one : i \in DOMAIN two /\ (one[i].name # name => two[i] = one[i])
    BY <1>6, Zenon DEF IsUpdated
  <2> QED BY <2>1, <2>2, Zenon
<1>9. CASE last.finite = {}
  <2>1. two = voxel
    BY <1>6, <1>9
  <2> QED BY <1>7, <1>8, <1>9, <2>1 DEF CloudsArrive, two, one, After
<1>10. CASE last.finite # {}
  <2>1. /\ Len(two) = Len(voxel) + IF Has(voxel, name) THEN 0 ELSE 1
        /\ Has(two, name)
        /\ \A i \in DOMAIN two : two[i].name = name => two[i].esdf = Distances(last)
    <3>1. CASE second.finite = {}
      BY <1>6, <1>10, <3>1 DEF IsUpdated
    <3>2. CASE second.finite # {} /\ first.finite = {}
      BY <1>6, <3>2 DEF IsUpdated
    <3>3. CASE second.finite # {} /\ first.finite # {}
      BY <1>6, <1>7, <3>3 DEF IsUpdated
    <3> QED BY <3>1, <3>2, <3>3
  <2>2. \A i \in DOMAIN two : two[i].name = name => GridIsTrue(two[i].esdf, last.finite, grid)
    BY <1>3, <2>1
  <2>3. (\E i \in DOMAIN two : two[i].name = name) /\ (Has(voxel, name) <=> \E i \in DOMAIN voxel : voxel[i].name = name)
    BY <2>1 DEF Has
  <2> QED BY <1>8, <1>10, <2>1, <2>2, <2>3 DEF CloudsArrive, two, one, After
<1> QED BY <1>9, <1>10

-----------------------------------------------------------------------------
(* A distance of the graphics card that says free keeps its distance from  *)
(* all that is occupied (_fast_distance_transform_gpu), in any grid.       *)
THEOREM FreeKeepsItsDistance ==
  ASSUME NEW grid, IsGrid(grid), NEW occupied \in SUBSET Vector
  PROVE  FreeIsFar(occupied, grid)
<1> DEFINE Near(S, v) == \E w \in S : \A a \in Axes : Abs(v[a] - w[a]) <= 5
           One(b) == IF b THEN 1 ELSE 0
<1> SUFFICES ASSUME NEW v \in Voxels(grid), EsdfGpu(occupied, grid)[v] < 0, NEW w \in occupied
             PROVE  SquaredDistance(v, w) > 25
  BY DEF FreeIsFar
<1>1. EsdfGpu(occupied, grid)[v] = One(Near(occupied, v)) - One(Near(Voxels(grid) \ occupied, v))
  BY DEF EsdfGpu
<1> HIDE DEF Near
<1>2. ~ Near(occupied, v)
  BY <1>1
<1>3. PICK a \in Axes : ~ (Abs(v[a] - w[a]) <= 5)
  BY <1>2 DEF Near
<1>4. v \in Vector /\ w \in Vector
  BY VoxelsAre
<1> DEFINE Gap(b) == v[b] - w[b]
<1>5. \A b \in Axes : Gap(b) \in Int
  BY <1>4 DEF Vector, Axes
<1> HIDE DEF Gap
<1>6. \A b \in Axes : Square(Gap(b)) \in Int /\ Square(Gap(b)) >= 0
  <2> SUFFICES ASSUME NEW b \in Axes PROVE Square(Gap(b)) \in Int /\ Square(Gap(b)) >= 0
    OBVIOUS
  <2>1. Gap(b) >= 0 \/ Gap(b) <= 0
    BY <1>5
  <2> QED BY <1>5, <2>1 DEF Square
<1>7. Square(Gap(a)) >= 36
  <2>1. Gap(a) >= 6 \/ Gap(a) <= -6
    BY <1>3, <1>5 DEF Gap, Abs
  <2> DEFINE n == Gap(a)
  <2>2. n \in Int
    BY <1>5
  <2> HIDE DEF n
  <2>3. CASE n >= 6
    <3>1. n * n >= 6 * n
      BY <2>2, <2>3
    <3> QED BY <2>2, <2>3, <3>1 DEF Square, n
  <2>4. CASE n <= -6
    <3>1. n * n >= (-6) * n
      BY <2>2, <2>4
    <3> QED BY <2>2, <2>4, <3>1 DEF Square, n
  <2> QED BY <2>1, <2>3, <2>4 DEF n
<1>8. SquaredDistance(v, w) = Square(Gap(1)) + Square(Gap(2)) + Square(Gap(3))
  BY DEF SquaredDistance, Gap
<1>9. a = 1 \/ a = 2 \/ a = 3
  BY DEF Axes
<1>10. 1 \in Axes /\ 2 \in Axes /\ 3 \in Axes
  BY DEF Axes
<1> QED BY <1>6, <1>7, <1>8, <1>9, <1>10

-----------------------------------------------------------------------------
(* The depth image without the robot.                                      *)
IsImage(image) == DOMAIN image \subseteq Nat \X Nat /\ \A q \in DOMAIN image : image[q] \in Nat
IsRobot(spheres) == \A s \in spheres : s.at \in Vector /\ s.radius \in Int
PointOf(image, q) == <<q[1] * image[q], q[2] * image[q], image[q]>>

(* A point is drawn where it was seen, or beside it.                       *)
LEMMA DrawnBeside ==
  ASSUME NEW image, IsImage(image), NEW q \in DOMAIN image, image[q] > 0
  PROVE  DrawnAt(PointOf(image, q)) = ({q[1], q[1] - 1} \X {q[2], q[2] - 1}) \cap (Nat \X Nat)
<1> DEFINE d == image[q]
           p == PointOf(image, q)
<1>1. d \in Nat \ {0} /\ q[1] \in Nat /\ q[2] \in Nat
  BY DEF IsImage
<1>2. p[1] = q[1] * d /\ p[2] = q[2] * d /\ p[3] = d
  BY DEF PointOf
<1> HIDE DEF d, p
<1>3. ASSUME NEW n \in Nat
      PROVE  (n * d) \div d = n
  <2>1. n * d = d * n + 0
    BY <1>1, <1>3
  <2>2. 0 \in 0 .. d - 1
    BY <1>1
  <2> QED BY <1>1, <2>1, <2>2, QuotientIs
<1>4. p[1] \div p[3] = q[1] /\ p[2] \div p[3] = q[2]
  BY <1>1, <1>2, <1>3
<1>5. DrawnAt(p) = ({q[1], q[1] - 1} \X {q[2], q[2] - 1}) \cap (Nat \X Nat)
  <2> DEFINE At(u, v) == ({u, u - 1} \X {v, v - 1}) \cap (Nat \X Nat)
  <2>1. DrawnAt(p) = At(p[1] \div p[3], p[2] \div p[3])
    BY Zenon DEF DrawnAt
  <2> HIDE DEF At
  <2>2. At(p[1] \div p[3], p[2] \div p[3]) = At(q[1], q[2])
    BY <1>4
  <2> QED BY <2>1, <2>2 DEF At
<1> QED BY <1>5 DEF p

(* Whatever the image and the robot are: a pixel shows a depth of its own  *)
(* or of a neighbour's that does not touch the robot, or nothing           *)
(* (depth_to_pointcloud, mask_pointcloud, pointcloud_to_depth).            *)
THEOREM RobotIsTakenOut ==
  ASSUME NEW image, IsImage(image), NEW spheres, IsRobot(spheres), NEW threshold \in Int
  PROVE  RobotIsCut(image, spheres, threshold, MaskDepthImage(image, spheres, threshold))
<1> DEFINE Touches(p) == \E s \in spheres : SquaredDistance(p, s.at) <= Square(s.radius + threshold)
           Free(q) == q \in DOMAIN image /\ image[q] > 0 /\ ~ Touches(PointOf(image, q))
           kept == MaskPointcloud(DepthToPointcloud(image), spheres, threshold)
           Drawn(pixel) == {p \in kept : pixel \in DrawnAt(p)}
           Near(pixel) == {q \in {pixel[1], pixel[1] + 1} \X {pixel[2], pixel[2] + 1} : Free(q)}
           shows == MaskDepthImage(image, spheres, threshold)
<1>1. \A q \in DOMAIN image : /\ image[q] \in Nat /\ PointOf(image, q) \in Vector
                              /\ q[1] \in Nat /\ q[2] \in Nat /\ q = <<q[1], q[2]>>
                              /\ PointOf(image, q)[3] = image[q]
  <2> SUFFICES ASSUME NEW q \in DOMAIN image
               PROVE  /\ image[q] \in Nat /\ PointOf(image, q) \in Vector
                      /\ q[1] \in Nat /\ q[2] \in Nat /\ q = <<q[1], q[2]>>
                      /\ PointOf(image, q)[3] = image[q]
    OBVIOUS
  <2>1. image[q] \in Nat /\ q \in Nat \X Nat
    BY DEF IsImage
  <2>2. q[1] \in Nat /\ q[2] \in Nat /\ q = <<q[1], q[2]>>
    BY <2>1
  <2>3. q[1] * image[q] \in Int /\ q[2] * image[q] \in Int
    BY <2>1, <2>2
  <2> QED BY <2>1, <2>2, <2>3 DEF PointOf, Vector
<1>2. \A p : p \in kept <=> \E q \in DOMAIN image : Free(q) /\ p = PointOf(image, q)
  <2>1. DepthToPointcloud(image) = {PointOf(image, q) : q \in {q \in DOMAIN image : image[q] > 0}}
    BY DEF DepthToPointcloud, PointOf
  <2>2. ASSUME NEW p \in Vector
        PROVE  (\A s \in spheres : SquaredDistance(p, s.at) > Square(s.radius + threshold)) <=> ~ Touches(p)
    <3>1. ASSUME NEW s \in spheres
          PROVE  SquaredDistance(p, s.at) \in Int /\ Square(s.radius + threshold) \in Int
      <4>1. s.at \in Vector /\ s.radius \in Int
        BY DEF IsRobot
      <4>2. SquaredDistance(p, s.at) \in Int
        BY <4>1, SquaredDistanceIs
      <4>3. s.radius + threshold \in Int
        BY <4>1
      <4>4. (s.radius + threshold) * (s.radius + threshold) \in Int
        BY <4>3
      <4> QED BY <4>2, <4>4 DEF Square
    <3>2. \A s \in spheres : SquaredDistance(p, s.at) > Square(s.radius + threshold)
                               <=> ~ (SquaredDistance(p, s.at) <= Square(s.radius + threshold))
      BY <3>1
    <3> QED BY <3>2, Zenon
  <2> HIDE DEF Touches
  <2>3. \A p : p \in kept <=> \E q \in DOMAIN image : image[q] > 0 /\ p = PointOf(image, q) /\ ~ Touches(p)
    <3>1. \A p : p \in kept <=> /\ p \in DepthToPointcloud(image)
                                /\ \A s \in spheres : SquaredDistance(p, s.at) > Square(s.radius + threshold)
      BY Zenon DEF MaskPointcloud
    <3> HIDE DEF kept
    <3>2. \A p : p \in DepthToPointcloud(image) <=> \E q \in DOMAIN image : image[q] > 0 /\ p = PointOf(image, q)
      BY <2>1
    <3>3. \A p : p \in DepthToPointcloud(image) => p \in Vector
      BY <1>1, <3>2
    <3>4. \A p : p \in kept <=> p \in DepthToPointcloud(image) /\ ~ Touches(p)
      BY <2>2, <3>1, <3>3, Zenon
    <3> QED BY <3>2, <3>4, Zenon
  <2> HIDE DEF kept
  <2> QED BY <2>3
<1> DEFINE Depths(pixel) == UNION {{p[3], p[3] - 1} : p \in Drawn(pixel)}
           Sure(pixel) == \E p \in Drawn(pixel) : DrawnAt(p) = {pixel}
<1>3. ASSUME NEW pixel \in DOMAIN image
      PROVE  /\ Sure(pixel) => shows[pixel] = Depths(pixel)
             /\ ~ Sure(pixel) => shows[pixel] = Depths(pixel) \cup {0}
  <2>1. shows[pixel] = MayShow(kept, pixel)
    BY DEF MaskDepthImage
  <2>2. MayShow(kept, pixel) = Depths(pixel) \cup (IF Sure(pixel) THEN {} ELSE {0})
    BY Zenon DEF MayShow
  <2> HIDE DEF shows, kept, Depths, Sure
  <2> QED BY <2>1, <2>2
<1>4. ASSUME NEW pixel \in DOMAIN image, NEW p \in Drawn(pixel)
      PROVE  \E q \in Near(pixel) : p = PointOf(image, q) /\ p[3] = image[q] /\ image[q] \in Nat \ {0}
  <2> HIDE DEF kept, Touches
  <2>1. PICK q \in DOMAIN image : Free(q) /\ p = PointOf(image, q)
    BY <1>2
  <2>2. pixel \in {q[1], q[1] - 1} \X {q[2], q[2] - 1}
    BY <2>1, DrawnBeside
  <2>3. q \in {pixel[1], pixel[1] + 1} \X {pixel[2], pixel[2] + 1}
    <3>1. pixel[1] \in {q[1], q[1] - 1} /\ pixel[2] \in {q[2], q[2] - 1}
      BY <2>2
    <3>2. q[1] \in {pixel[1], pixel[1] + 1} /\ q[2] \in {pixel[2], pixel[2] + 1}
      BY <1>1, <3>1
    <3>3. q = <<q[1], q[2]>>
      BY <1>1
    <3> QED BY <3>2, <3>3
  <2> QED BY <1>1, <2>1, <2>3
<1>5. ASSUME NEW pixel \in DOMAIN image, pixel = <<0, 0>>, Free(pixel)
      PROVE  Sure(pixel)
  <2> DEFINE p == PointOf(image, pixel)
  <2> HIDE DEF kept, Touches
  <2>1. p \in kept /\ image[pixel] > 0
    BY <1>2, <1>5
  <2>2. DrawnAt(p) = ({0, 0 - 1} \X {0, 0 - 1}) \cap (Nat \X Nat)
    BY <1>5, <2>1, DrawnBeside
  <2>3. ({0, 0 - 1} \X {0, 0 - 1}) \cap (Nat \X Nat) = {<<0, 0>>}
    OBVIOUS
  <2> QED BY <1>5, <2>1, <2>2, <2>3
<1> HIDE DEF shows, Drawn, Depths, Sure
<1>6. ASSUME NEW pixel \in DOMAIN image
      PROVE  /\ \A d \in shows[pixel] : d # 0 => \E q \in Near(pixel) : d \in {image[q], image[q] - 1}
             /\ Near(pixel) = {} => shows[pixel] = {0}
             /\ Free(pixel) /\ pixel = <<0, 0>> /\ (\A q \in Near(pixel) : image[q] # 1) => 0 \notin shows[pixel]
  <2> HIDE DEF Near, Free
  <2>1. \A d \in shows[pixel] : (\E p \in Drawn(pixel) : d \in {p[3], p[3] - 1}) \/ d = 0
    <3>1. shows[pixel] = Depths(pixel) \/ shows[pixel] = Depths(pixel) \cup {0}
      BY <1>3
    <3>2. \A d \in Depths(pixel) : \E p \in Drawn(pixel) : d \in {p[3], p[3] - 1}
      BY DEF Depths
    <3> QED BY <3>1, <3>2
  <2>2. \A d \in shows[pixel] : d # 0 => \E q \in Near(pixel) : d \in {image[q], image[q] - 1}
    BY <1>4, <2>1
  <2>3. ASSUME Near(pixel) = {} PROVE shows[pixel] = {0}
    <3>1. Drawn(pixel) = {}
      BY <1>4, <2>3
    <3>2. ~ Sure(pixel) /\ Depths(pixel) = {}
      BY <3>1 DEF Sure, Depths
    <3> QED BY <1>3, <3>2
  <2>4. ASSUME Free(pixel), pixel = <<0, 0>>, \A q \in Near(pixel) : image[q] # 1
        PROVE  0 \notin shows[pixel]
    <3>1. shows[pixel] = Depths(pixel)
      BY <1>3, <1>5, <2>4
    <3>2. \A p \in Drawn(pixel) : 0 \notin {p[3], p[3] - 1}
      BY <1>4, <2>4
    <3> QED BY <3>1, <3>2 DEF Depths
  <2> QED BY <2>2, <2>3, <2>4
<1>7. RobotIsCut(image, spheres, threshold, shows)
  BY <1>6 DEF RobotIsCut, PointOf
<1> QED BY <1>7 DEF shows

-----------------------------------------------------------------------------
(* What is computed from the elements of a list in turn exists, however    *)
(* long the list is: a shortest list without it would have one less.       *)
LEMMA NodesExist ==
  ASSUME NEW home, NEW events, Len(events) \in Nat, NEW threshold
  PROVE  LET nodes == NodeAfter(home, events, threshold)
         IN  /\ nodes[0] = NewNode(home)
             /\ \A i \in 1 .. Len(events) : nodes[i] = SegmentationStep(nodes[i - 1], events[i], threshold)
<1> DEFINE Up(state, i) == SegmentationStep(state, events[i], threshold)
           Is(f, n) == f = [i \in 0 .. n |-> IF i = 0 THEN NewNode(home) ELSE Up(f[i - 1], i)]
           none == {n \in Nat : ~ \E f : Is(f, n)}
<1>1. ASSUME none # {} PROVE FALSE
  <2> DEFINE n == Least(none)
  <2>1. n \in none /\ \A m \in none : n <= m
    <3>1. none \in SUBSET Nat
      OBVIOUS
    <3> HIDE DEF none
    <3> QED BY <1>1, <3>1, LeastExists
  <2>2. n \in Nat /\ ~ \E f : Is(f, n)
    BY <2>1
  <2> HIDE DEF n
  <2>3. CASE n = 0
    <3> DEFINE f == [i \in 0 .. 0 |-> NewNode(home)]
               g == [i \in 0 .. 0 |-> IF i = 0 THEN NewNode(home) ELSE Up(f[i - 1], i)]
    <3>1. f = g
      <4> HIDE DEF Up
      <4>1. \A i \in 0 .. 0 : i = 0
        OBVIOUS
      <4> QED BY <4>1
    <3>2. Is(f, 0)
      <4> HIDE DEF Up
      <4> QED BY <3>1
    <3> HIDE DEF Is
    <3> QED BY <2>2, <2>3, <3>2
  <2>4. CASE n # 0
    <3>1. n - 1 \in Nat /\ n - 1 \notin none
      <4> HIDE DEF none
      <4> QED BY <2>1, <2>2, <2>4
    <3>2. PICK h : Is(h, n - 1)
      BY <3>1
    <3> DEFINE f == [i \in 0 .. n |-> IF i < n THEN h[i] ELSE Up(h[n - 1], n)]
    <3> HIDE DEF Up, none
    <3>3. h[0] = NewNode(home) /\ \A i \in 1 .. n - 1 : h[i] = Up(h[i - 1], i)
      <4>1. \A i \in 0 .. n - 1 : h[i] = IF i = 0 THEN NewNode(home) ELSE Up(h[i - 1], i)
        BY <3>2
      <4>2. 0 \in 0 .. n - 1 /\ \A i \in 1 .. n - 1 : i \in 0 .. n - 1 /\ i # 0
        BY <3>1
      <4> HIDE DEF Is
      <4> QED BY <4>1, <4>2
    <3> HIDE DEF Is
    <3>4. /\ \A i \in 0 .. n - 1 : f[i] = h[i]
          /\ f[n] = Up(h[n - 1], n)
      BY <2>2, <3>1
    <3>5. f = [i \in 0 .. n |-> f[i]]
      OBVIOUS
    <3> HIDE DEF f
    <3>6. \A i \in 0 .. n : f[i] = IF i = 0 THEN NewNode(home) ELSE Up(f[i - 1], i)
      <4> SUFFICES ASSUME NEW i \in 0 .. n
                   PROVE  f[i] = IF i = 0 THEN NewNode(home) ELSE Up(f[i - 1], i)
        OBVIOUS
      <4>1. CASE i = 0
        <5>1. 0 \in 0 .. n - 1
          BY <3>1
        <5> QED BY <3>3, <3>4, <4>1, <5>1
      <4>2. CASE i \in 1 .. n - 1
        <5>1. i - 1 \in 0 .. n - 1 /\ i \in 0 .. n - 1 /\ i # 0
          BY <3>1, <4>2
        <5> QED BY <3>3, <3>4, <4>2, <5>1
      <4>3. CASE i = n
        <5>1. n - 1 \in 0 .. n - 1
          BY <3>1
        <5> QED BY <2>4, <3>4, <4>3, <5>1
      <4>4. i = 0 \/ i \in 1 .. n - 1 \/ i = n
        BY <2>2
      <4> QED BY <4>1, <4>2, <4>3, <4>4
    <3>7. Is(f, n)
      BY <3>5, <3>6 DEF Is
    <3> QED BY <2>2, <3>7
  <2> QED BY <2>3, <2>4
<1> DEFINE nodes == NodeAfter(home, events, threshold)
           all == Len(events)
<1>2. \E f : Is(f, all)
  <2> HIDE DEF Is
  <2> QED BY <1>1
<1>3. nodes = CHOOSE f : Is(f, all)
  BY DEF NodeAfter
<1> HIDE DEF nodes, Up
<1>4. Is(nodes, all)
  <2> HIDE DEF Is, all
  <2> QED BY <1>2, <1>3
<1>5. \A i \in 0 .. all : nodes[i] = IF i = 0 THEN NewNode(home) ELSE Up(nodes[i - 1], i)
  BY <1>4
<1> HIDE DEF Is
<1>6. 0 \in 0 .. all /\ \A i \in 1 .. all : i \in 0 .. all /\ i # 0
  OBVIOUS
<1>7. nodes[0] = NewNode(home) /\ \A i \in 1 .. all : nodes[i] = Up(nodes[i - 1], i)
  BY <1>5, <1>6
<1> QED BY <1>7 DEF nodes, Up
LEMMA ScenesExist ==
  ASSUME NEW list, Len(list) \in Nat, NEW answering
  PROVE  LET scene == CamerasAfter(list, answering)
         IN  /\ scene[0] = NoCameras
             /\ \A i \in 1 .. Len(list) : scene[i] = AddCamera(scene[i - 1], list[i], answering)
<1> DEFINE Up(state, i) == AddCamera(state, list[i], answering)
           Is(f, n) == f = [i \in 0 .. n |-> IF i = 0 THEN NoCameras ELSE Up(f[i - 1], i)]
           none == {n \in Nat : ~ \E f : Is(f, n)}
<1>1. ASSUME none # {} PROVE FALSE
  <2> DEFINE n == Least(none)
  <2>1. n \in none /\ \A m \in none : n <= m
    <3>1. none \in SUBSET Nat
      OBVIOUS
    <3> HIDE DEF none
    <3> QED BY <1>1, <3>1, LeastExists
  <2>2. n \in Nat /\ ~ \E f : Is(f, n)
    BY <2>1
  <2> HIDE DEF n
  <2>3. CASE n = 0
    <3> DEFINE f == [i \in 0 .. 0 |-> NoCameras]
               g == [i \in 0 .. 0 |-> IF i = 0 THEN NoCameras ELSE Up(f[i - 1], i)]
    <3>1. f = g
      <4> HIDE DEF Up
      <4>1. \A i \in 0 .. 0 : i = 0
        OBVIOUS
      <4> QED BY <4>1
    <3>2. Is(f, 0)
      <4> HIDE DEF Up
      <4> QED BY <3>1
    <3> HIDE DEF Is
    <3> QED BY <2>2, <2>3, <3>2
  <2>4. CASE n # 0
    <3>1. n - 1 \in Nat /\ n - 1 \notin none
      <4> HIDE DEF none
      <4> QED BY <2>1, <2>2, <2>4
    <3>2. PICK h : Is(h, n - 1)
      BY <3>1
    <3> DEFINE f == [i \in 0 .. n |-> IF i < n THEN h[i] ELSE Up(h[n - 1], n)]
    <3> HIDE DEF Up, none
    <3>3. h[0] = NoCameras /\ \A i \in 1 .. n - 1 : h[i] = Up(h[i - 1], i)
      <4>1. \A i \in 0 .. n - 1 : h[i] = IF i = 0 THEN NoCameras ELSE Up(h[i - 1], i)
        BY <3>2
      <4>2. 0 \in 0 .. n - 1 /\ \A i \in 1 .. n - 1 : i \in 0 .. n - 1 /\ i # 0
        BY <3>1
      <4> HIDE DEF Is
      <4> QED BY <4>1, <4>2
    <3> HIDE DEF Is
    <3>4. /\ \A i \in 0 .. n - 1 : f[i] = h[i]
          /\ f[n] = Up(h[n - 1], n)
      BY <2>2, <3>1
    <3>5. f = [i \in 0 .. n |-> f[i]]
      OBVIOUS
    <3> HIDE DEF f
    <3>6. \A i \in 0 .. n : f[i] = IF i = 0 THEN NoCameras ELSE Up(f[i - 1], i)
      <4> SUFFICES ASSUME NEW i \in 0 .. n
                   PROVE  f[i] = IF i = 0 THEN NoCameras ELSE Up(f[i - 1], i)
        OBVIOUS
      <4>1. CASE i = 0
        <5>1. 0 \in 0 .. n - 1
          BY <3>1
        <5> QED BY <3>3, <3>4, <4>1, <5>1
      <4>2. CASE i \in 1 .. n - 1
        <5>1. i - 1 \in 0 .. n - 1 /\ i \in 0 .. n - 1 /\ i # 0
          BY <3>1, <4>2
        <5> QED BY <3>3, <3>4, <4>2, <5>1
      <4>3. CASE i = n
        <5>1. n - 1 \in 0 .. n - 1
          BY <3>1
        <5> QED BY <2>4, <3>4, <4>3, <5>1
      <4>4. i = 0 \/ i \in 1 .. n - 1 \/ i = n
        BY <2>2
      <4> QED BY <4>1, <4>2, <4>3, <4>4
    <3>7. Is(f, n)
      BY <3>5, <3>6 DEF Is
    <3> QED BY <2>2, <3>7
  <2> QED BY <2>3, <2>4
<1> DEFINE scene == CamerasAfter(list, answering)
           all == Len(list)
<1>2. \E f : Is(f, all)
  <2> HIDE DEF Is
  <2> QED BY <1>1
<1>3. scene = CHOOSE f : Is(f, all)
  BY DEF CamerasAfter
<1> HIDE DEF scene, Up
<1>4. Is(scene, all)
  <2> HIDE DEF Is, all
  <2> QED BY <1>2, <1>3
<1>5. \A i \in 0 .. all : scene[i] = IF i = 0 THEN NoCameras ELSE Up(scene[i - 1], i)
  BY <1>4
<1> HIDE DEF Is
<1>6. 0 \in 0 .. all /\ \A i \in 1 .. all : i \in 0 .. all /\ i # 0
  OBVIOUS
<1>7. scene[0] = NoCameras /\ \A i \in 1 .. all : scene[i] = Up(scene[i - 1], i)
  BY <1>5, <1>6
<1> QED BY <1>7 DEF scene, Up

(* However many cameras are configured: those are set up that come before  *)
(* the first that is refused, and of the point clouds one (load_cameras,   *)
(* CameraContext.add_camera).                                              *)
THEOREM CamerasComeInOrder ==
  ASSUME NEW list, Len(list) \in Nat, DOMAIN list = 1 .. Len(list), NEW answering,
         \A i, j \in DOMAIN list : list[i].name = list[j].name => i = j
  PROVE  CamerasAreLoaded(list, answering)
<1> DEFINE scene == CamerasAfter(list, answering)
           all == Len(list)
           Known(i) == list[i].type \in {"point_cloud", "depth_camera"}
           IsCloud(i) == list[i].type = "point_cloud"
           Names(m) == {list[k].name : k \in {k \in 1 .. m : Known(k)}}
           IsScene(state) == state = [cameras |-> state.cameras, declared |-> state.declared, failed |-> state.failed]
           Cut(i, m) == /\ scene[i].cameras = Names(m)
                        /\ scene[i].failed \/ m = i
                        /\ scene[i].declared = (\E k \in 1 .. m : IsCloud(k))
                        /\ \A k, l \in 1 .. m : IsCloud(k) /\ IsCloud(l) => k = l
           Good(i) == IsScene(scene[i]) /\ \E m \in 0 .. i : Cut(i, m)
<1>1. /\ scene[0] = NoCameras
      /\ \A i \in 1 .. all : scene[i] = AddCamera(scene[i - 1], list[i], answering)
  BY ScenesExist
<1> HIDE DEF scene
<1>2. Good(0)
  <2>1. 1 .. 0 = {}
    OBVIOUS
  <2>2. Names(0) = {}
    BY <2>1
  <2>3. IsScene(scene[0]) /\ scene[0].cameras = {} /\ scene[0].declared = FALSE /\ scene[0].failed = FALSE
    BY <1>1 DEF NoCameras
  <2> HIDE DEF Names, IsScene
  <2>4. Cut(0, 0)
    BY <2>1, <2>2, <2>3
  <2>5. 0 \in 0 .. 0
    OBVIOUS
  <2> QED BY <2>3, <2>4, <2>5
<1>3. ASSUME NEW i \in 1 .. all, Good(i - 1)
      PROVE  Good(i)
  <2> DEFINE old == scene[i - 1]
             new == scene[i]
  <2>1. PICK m \in 0 .. i - 1 : Cut(i - 1, m)
    BY <1>3
  <2>2. IsScene(old) /\ new = AddCamera(old, list[i], answering)
    BY <1>1, <1>3
  <2>3. old.cameras = Names(m) /\ (old.failed \/ m = i - 1)
    BY <2>1
  <2>4. old.declared = (\E k \in 1 .. m : IsCloud(k)) /\ \A k, l \in 1 .. m : IsCloud(k) /\ IsCloud(l) => k = l
    BY <2>1
  <2>5. m \in 0 .. i /\ i \in 0 .. i
    OBVIOUS
  <2>6. \A k : k \in 1 .. i <=> k \in 1 .. i - 1 \/ k = i
    OBVIOUS
  <2> HIDE DEF Names, Known, IsCloud, IsScene
  <2>7. CASE IsScene(new) /\ new.cameras = old.cameras /\ new.declared = old.declared
             /\ new.failed /\ m \in 0 .. i
    <3>1. Cut(i, m)
      BY <2>3, <2>4, <2>7
    <3> QED BY <2>5, <2>7, <3>1
  <2>8. CASE /\ ~ old.failed /\ ~ Known(i) /\ new = old
    <3>1. m = i - 1
      BY <2>3, <2>8
    <3>2. Names(i) = Names(i - 1)
      BY <2>6, <2>8 DEF Names
    <3>3. \A k \in 1 .. i : IsCloud(k) => k \in 1 .. i - 1
      BY <2>6, <2>8 DEF Known, IsCloud
    <3>4. Cut(i, i)
      <4>1. new.cameras = Names(i)
        BY <2>3, <2>8, <3>1, <3>2
      <4>2. new.declared = (\E k \in 1 .. i : IsCloud(k))
        BY <2>4, <2>6, <2>8, <3>1, <3>3
      <4>3. \A k, l \in 1 .. i : IsCloud(k) /\ IsCloud(l) => k = l
        BY <2>4, <2>6, <3>1, <3>3
      <4> QED BY <4>1, <4>2, <4>3
    <3> QED BY <2>2, <2>5, <2>8, <3>4
  <2>9. CASE /\ ~ old.failed /\ Known(i) /\ IsScene(new) /\ new.cameras = old.cameras \cup {list[i].name}
             /\ ~ IsCloud(i) /\ new.declared = old.declared
    <3>1. m = i - 1
      BY <2>3, <2>9
    <3>2. Names(i) = Names(i - 1) \cup {list[i].name}
      BY <2>6, <2>9 DEF Names
    <3>3. \A k \in 1 .. i : IsCloud(k) => k \in 1 .. i - 1
      BY <2>6, <2>9
    <3>4. Cut(i, i)
      <4>1. new.cameras = Names(i)
        BY <2>3, <2>9, <3>1, <3>2
      <4>2. new.declared = (\E k \in 1 .. i : IsCloud(k))
        BY <2>4, <2>6, <2>9, <3>1, <3>3
      <4>3. \A k, l \in 1 .. i : IsCloud(k) /\ IsCloud(l) => k = l
        BY <2>4, <2>6, <3>1, <3>3
      <4> QED BY <4>1, <4>2, <4>3
    <3> QED BY <2>5, <2>9, <3>4
  <2>10. CASE /\ ~ old.failed /\ Known(i) /\ IsScene(new) /\ new.cameras = old.cameras \cup {list[i].name}
              /\ IsCloud(i) /\ ~ old.declared /\ new.declared = TRUE
    <3>1. m = i - 1
      BY <2>3, <2>10
    <3>2. Names(i) = Names(i - 1) \cup {list[i].name}
      BY <2>6, <2>10 DEF Names
    <3>3. \A k \in 1 .. i - 1 : ~ IsCloud(k)
      BY <2>4, <2>10, <3>1
    <3>4. Cut(i, i)
      <4>1. new.cameras = Names(i)
        BY <2>3, <2>10, <3>1, <3>2
      <4>2. i \in 1 .. i
        OBVIOUS
      <4>3. new.declared = (\E k \in 1 .. i : IsCloud(k))
        BY <2>10, <4>2
      <4>4. \A k, l \in 1 .. i : IsCloud(k) /\ IsCloud(l) => k = l
        BY <2>6, <3>3
      <4> QED BY <4>1, <4>3, <4>4
    <3> QED BY <2>5, <2>10, <3>4
  <2> DEFINE cam == list[i]
             set == [old EXCEPT !.cameras = @ \cup {cam.name}]
             refused == [old EXCEPT !.failed = TRUE]
             listed == [old EXCEPT !.cameras = @ \cup {cam.name}, !.declared = TRUE]
  <2>11. /\ IsScene(set) /\ set.cameras = old.cameras \cup {cam.name}
         /\ set.declared = old.declared /\ set.failed = old.failed
         /\ IsScene(refused) /\ refused.cameras = old.cameras
         /\ refused.declared = old.declared /\ refused.failed = TRUE
         /\ IsScene(listed) /\ listed.cameras = old.cameras \cup {cam.name}
         /\ listed.declared = TRUE /\ listed.failed = old.failed
    <3> DEFINE C == old.cameras
               D == old.declared
               F == old.failed
               more == C \cup {cam.name}
    <3>1. old = [cameras |-> C, declared |-> D, failed |-> F]
      BY <2>2 DEF IsScene
    <3> DEFINE yes == TRUE
               R == [cameras : {C, more}, declared : {D, yes}, failed : {F, yes}]
    <3>0. old \in R
      BY <3>1
    <3>9. /\ set = [old EXCEPT !.cameras = more]
          /\ refused = [old EXCEPT !.failed = yes]
          /\ listed = [old EXCEPT !.cameras = more, !.declared = yes]
      <4>1. more = old.cameras \cup {cam.name}
        BY DEF more, C
      <4> QED BY <4>1, Zenon
    <3> HIDE DEF C, D, F, more, yes, old, set, refused, listed
    <3>2. set = [cameras |-> more, declared |-> D, failed |-> F]
      BY <3>0, <3>1, <3>9
    <3>3. refused = [cameras |-> C, declared |-> D, failed |-> yes]
      BY <3>0, <3>1, <3>9
    <3>4. listed = [cameras |-> more, declared |-> yes, failed |-> F]
      BY <3>0, <3>1, <3>9
    <3>5. IsScene(set) /\ set.cameras = more /\ set.declared = D /\ set.failed = F
      BY <3>2 DEF IsScene
    <3>6. IsScene(refused) /\ refused.cameras = C /\ refused.declared = D /\ refused.failed = yes
      BY <3>3 DEF IsScene
    <3>7. IsScene(listed) /\ listed.cameras = more /\ listed.declared = yes /\ listed.failed = F
      BY <3>4 DEF IsScene
    <3>8. C = old.cameras /\ D = old.declared /\ F = old.failed /\ more = old.cameras \cup {cam.name}
      BY DEF C, D, F, more
    <3>10. yes = TRUE
      BY DEF yes
    <3> QED BY <3>10, <3>5, <3>6, <3>7, <3>8
  <2>12. \/ old.failed /\ new = old
         \/ ~ old.failed /\ cam.type = "point_cloud" /\ old.declared /\ new = refused
         \/ ~ old.failed /\ cam.type = "point_cloud" /\ ~ old.declared /\ new = listed
         \/ ~ old.failed /\ cam.type = "depth_camera" /\ (new = refused \/ new = set)
         \/ ~ old.failed /\ cam.type \notin {"point_cloud", "depth_camera"} /\ new = old
    <3> HIDE DEF old, cam, new
    <3>1. CASE old.failed
      <4>1. new = old
        BY <2>2, <3>1 DEF AddCamera, cam
      <4> QED BY <3>1, <4>1
    <3>2. CASE ~ old.failed /\ cam.type = "point_cloud"
      <4>1. new = IF old.declared THEN refused ELSE listed
        BY <2>2, <3>2 DEF AddCamera, cam
      <4> HIDE DEF refused, listed
      <4> QED BY <3>2, <4>1
    <3>3. CASE ~ old.failed /\ cam.type = "depth_camera"
      <4>1. new = IF ~ cam.intrinsics /\ cam.name \notin answering THEN refused ELSE set
        BY <2>2, <3>3 DEF AddCamera, cam
      <4> HIDE DEF refused, set
      <4> QED BY <3>3, <4>1
    <3>4. CASE ~ old.failed /\ cam.type \notin {"point_cloud", "depth_camera"}
      <4>1. new = old
        BY <2>2, <3>4 DEF AddCamera, cam
      <4> QED BY <3>4, <4>1
    <3> HIDE DEF refused, listed, set
    <3> QED BY <3>1, <3>2, <3>3, <3>4
  <2>13. /\ cam.type = "point_cloud" => IsCloud(i) /\ Known(i)
         /\ cam.type = "depth_camera" => ~ IsCloud(i) /\ Known(i)
         /\ cam.type \notin {"point_cloud", "depth_camera"} => ~ Known(i)
    BY DEF IsCloud, Known
  <2> HIDE DEF set, refused, listed, Good
  <2> QED BY <2>2, <2>5, <2>7, <2>8, <2>9, <2>10, <2>11, <2>12, <2>13
<1> HIDE DEF Good
<1>4. Good(all)
  <2> DEFINE bad == {i \in 0 .. all : ~ Good(i)}
  <2>1. ASSUME bad # {} PROVE FALSE
    <3> DEFINE n == Least(bad)
    <3>1. n \in bad /\ \A i \in bad : n <= i
      <4>1. bad \in SUBSET Nat
        OBVIOUS
      <4> HIDE DEF bad
      <4> QED BY <2>1, <4>1, LeastExists
    <3> HIDE DEF n
    <3>2. n \in 0 .. all /\ ~ Good(n)
      BY <3>1
    <3>3. n # 0
      BY <1>2, <3>2
    <3>4. n \in 1 .. all /\ n - 1 \in 0 .. all
      BY <3>2, <3>3
    <3>5. Good(n - 1)
      BY <3>1, <3>4
    <3> QED BY <1>3, <3>2, <3>4, <3>5
  <2>2. all \in 0 .. all
    OBVIOUS
  <2> QED BY <2>1, <2>2
<1>5. PICK m \in 0 .. all : Cut(all, m)
  BY <1>4 DEF Good
<1> DEFINE loaded == {i \in DOMAIN list : list[i].name \in LoadCameras(list, answering).cameras}
<1>6. \A i : i \in loaded <=> i \in 1 .. m /\ Known(i)
  <2>1. LoadCameras(list, answering).cameras = Names(m)
    BY <1>5 DEF LoadCameras, scene
  <2>2. \A i \in 1 .. all : list[i].name \in Names(m) <=> i \in 1 .. m /\ Known(i)
    <3> HIDE DEF Known
    <3> QED OBVIOUS
  <2>3. \A i : i \in 1 .. m => i \in 1 .. all
    OBVIOUS
  <2> HIDE DEF Names, Known
  <2> QED BY <2>1, <2>2, <2>3
<1>7. \A k, l \in 1 .. m : IsCloud(k) /\ IsCloud(l) => k = l
  BY <1>5
<1> HIDE DEF loaded, Cut
<1>8. \A i \in loaded : \A j \in 1 .. i : j \in loaded \/ ~ Known(j)
  <2>1. \A i \in 1 .. m : \A j \in 1 .. i : j \in 1 .. m
    OBVIOUS
  <2> HIDE DEF Known
  <2> QED BY <1>6, <2>1
<1>9. \A i, j \in loaded : IsCloud(i) /\ IsCloud(j) => i = j
  <2> HIDE DEF IsCloud
  <2> QED BY <1>6, <1>7
<1>10. \A i \in loaded : Known(i)
  BY <1>6
<1> QED BY <1>8, <1>9, <1>10 DEF CamerasAreLoaded, loaded

LEMMA GreatestExists ==
  ASSUME NEW bound \in Nat, NEW S \in SUBSET (0 .. bound), S # {}
  PROVE  Greatest(S) \in S /\ \A m \in S : m <= Greatest(S)
<1> DEFINE T == {bound - n : n \in S}
<1>1. T \in SUBSET Nat /\ T # {}
  <2>1. \A n \in S : bound - n \in Nat
    OBVIOUS
  <2> QED BY <2>1
<1>2. Least(T) \in T /\ \A m \in T : Least(T) <= m
  BY <1>1, LeastExists
<1>3. PICK k \in S : Least(T) = bound - k
  BY <1>2
<1>4. \A n \in S : bound - k <= bound - n
  BY <1>2, <1>3
<1>5. \A n \in S : k >= n
  BY <1>4
<1>6. \E n \in S : \A m \in S : n >= m
  BY <1>5
<1> QED BY <1>6 DEF Greatest

(* The events of a kind that count, up to one of them.                     *)
Counts(event, kind) == event.kind = kind /\ (kind = "depth" => event.supported)
UpTo(events, i, kind) == {k \in 1 .. i : Counts(events[k], kind)}
Last(events, i, kind) == events[Greatest(UpTo(events, i, kind))]

LEMMA LastIs ==
  ASSUME NEW events, NEW i \in Nat \ {0}, NEW kind
  PROVE  /\ Counts(events[i], kind) => UpTo(events, i, kind) # {} /\ Last(events, i, kind) = events[i]
         /\ ~ Counts(events[i], kind) => UpTo(events, i, kind) = UpTo(events, i - 1, kind)
<1> DEFINE U == UpTo(events, i, kind)
<1>1. ASSUME Counts(events[i], kind)
      PROVE  U # {} /\ Last(events, i, kind) = events[i]
  <2>1. i \in U /\ U \in SUBSET (0 .. i)
    BY <1>1 DEF UpTo
  <2> HIDE DEF U
  <2>2. Greatest(U) \in U /\ \A m \in U : m <= Greatest(U)
    BY <2>1, GreatestExists
  <2> DEFINE g == Greatest(U)
  <2>3. g = i
    <3>1. g \in 0 .. i /\ i <= g
      BY <2>1, <2>2
    <3> HIDE DEF g
    <3> QED BY <3>1
  <2>4. Last(events, i, kind) = events[Greatest(U)]
    BY DEF Last, U
  <2> QED BY <2>1, <2>3, <2>4 DEF g
<1>2. ASSUME ~ Counts(events[i], kind)
      PROVE  U = UpTo(events, i - 1, kind)
  <2>1. \A k : k \in 1 .. i <=> k \in 1 .. i - 1 \/ k = i
    OBVIOUS
  <2> QED BY <1>2, <2>1 DEF UpTo
<1> QED BY <1>1, <1>2

(* What the node holds, and what an event makes of it.                      *)
IsNode(held) ==
  held = [image |-> held.image, info |-> held.info, spheres |-> held.spheres, published |-> held.published]
IsNext(held, event, threshold, new) ==
  /\ IsNode(new)
  /\ new.image = IF Counts(event, "depth") THEN <<event.image>> ELSE held.image
  /\ new.info = IF Counts(event, "info") THEN TRUE ELSE held.info
  /\ new.spheres = IF Counts(event, "joints") THEN event.spheres ELSE held.spheres
  /\ new.published = IF event.kind = "timer" /\ held.image # <<>> /\ held.info
                     THEN <<MaskDepthImage(held.image[1], held.spheres, threshold)>>
                     ELSE held.published

LEMMA StepIs ==
  ASSUME NEW held, IsNode(held), NEW event, event.kind \in {"depth", "info", "joints", "timer"}, NEW threshold
  PROVE  IsNext(held, event, threshold, SegmentationStep(held, event, threshold))
<1> DEFINE new == SegmentationStep(held, event, threshold)
           I == held.image
           F == held.info
           S == held.spheres
           P == held.published
           yes == TRUE
           cut == <<MaskDepthImage(held.image[1], held.spheres, threshold)>>
           seen == <<event.image>>
           joints == event.spheres
           drawn == [held EXCEPT !.image = seen]
           known == [held EXCEPT !.info = yes]
           moved == [held EXCEPT !.spheres = joints]
           told == [held EXCEPT !.published = cut]
           Known == I # <<>> /\ F
           R == [image : {I, seen}, info : {F, yes}, spheres : {S, joints}, published : {P, cut}]
<1>1. held = [image |-> I, info |-> F, spheres |-> S, published |-> P]
  BY DEF IsNode
<1>2. /\ event.kind = "depth" => new = IF event.supported THEN drawn ELSE held
      /\ event.kind = "info" => new = known
      /\ event.kind = "joints" => new = moved
      /\ event.kind = "timer" => new = IF I = <<>> \/ ~ F THEN held ELSE told
  <2> HIDE DEF new, drawn, moved, told, known
  <2>1. ASSUME event.kind = "depth" PROVE new = IF event.supported THEN drawn ELSE held
    BY <2>1 DEF SegmentationStep, new, drawn
  <2>2. ASSUME event.kind = "info" PROVE new = known
    BY <2>2 DEF SegmentationStep, new, known
  <2>3. ASSUME event.kind = "joints" PROVE new = moved
    BY <2>3 DEF SegmentationStep, new, moved
  <2>4. ASSUME event.kind = "timer" PROVE new = IF I = <<>> \/ ~ F THEN held ELSE told
    BY <2>4 DEF SegmentationStep, new, told
  <2> QED BY <2>1, <2>2, <2>3, <2>4
<1> HIDE DEF I, F, S, P, yes, cut, seen, joints, new
<1>3. /\ drawn = [image |-> seen, info |-> F, spheres |-> S, published |-> P]
      /\ known = [image |-> I, info |-> yes, spheres |-> S, published |-> P]
      /\ moved = [image |-> I, info |-> F, spheres |-> joints, published |-> P]
      /\ told = [image |-> I, info |-> F, spheres |-> S, published |-> cut]
  <2>1. held \in R
    BY <1>1
  <2> QED BY <1>1, <2>1
<1> HIDE DEF drawn, known, moved, told
<1> DEFINE Is(x, i, f, s, p) == IsNode(x) /\ x.image = i /\ x.info = f /\ x.spheres = s /\ x.published = p
<1>4. /\ Is(drawn, seen, F, S, P) /\ Is(known, I, yes, S, P)
      /\ Is(moved, I, F, joints, P) /\ Is(told, I, F, S, cut) /\ Is(held, I, F, S, P)
  <2>1. Is(drawn, seen, F, S, P)
    BY <1>3 DEF IsNode
  <2>2. Is(known, I, yes, S, P)
    BY <1>3 DEF IsNode
  <2>3. Is(moved, I, F, joints, P)
    BY <1>3 DEF IsNode
  <2>4. Is(told, I, F, S, cut)
    BY <1>3 DEF IsNode
  <2>5. Is(held, I, F, S, P)
    BY DEF I, F, S, P
  <2> QED BY <2>1, <2>2, <2>3, <2>4, <2>5
<1>5. IsNode(new) /\ new.image = (IF Counts(event, "depth") THEN seen ELSE I)
  <2>1. CASE event.kind = "depth"
    <3>1. Counts(event, "depth") <=> event.supported
      BY <2>1 DEF Counts
    <3> QED BY <1>2, <1>4, <2>1, <3>1
  <2>2. CASE event.kind # "depth"
    <3>1. ~ Counts(event, "depth")
      BY <2>2 DEF Counts
    <3> QED BY <1>2, <1>4, <2>2, <3>1
  <2> QED BY <2>1, <2>2
<1>6. new.info = (IF Counts(event, "info") THEN yes ELSE F)
  <2>1. Counts(event, "info") <=> event.kind = "info"
    BY DEF Counts
  <2> QED BY <1>2, <1>4, <2>1
<1>7. new.spheres = (IF Counts(event, "joints") THEN joints ELSE S)
  <2>1. Counts(event, "joints") <=> event.kind = "joints"
    BY DEF Counts
  <2> QED BY <1>2, <1>4, <2>1
<1>8. new.published = (IF event.kind = "timer" /\ I # <<>> /\ F THEN cut ELSE P)
  <2> QED BY <1>2, <1>4
<1>9. /\ I = held.image /\ F = held.info /\ S = held.spheres /\ P = held.published /\ yes = TRUE
      /\ cut = <<MaskDepthImage(held.image[1], held.spheres, threshold)>>
      /\ seen = <<event.image>> /\ joints = event.spheres
  BY DEF I, F, S, P, yes, cut, seen, joints
<1>10. IsNext(held, event, threshold, new)
  <2> HIDE DEF new
  <2> QED BY <1>5, <1>6, <1>7, <1>8, <1>9, Zenon DEF IsNext
<1> QED BY <1>10 DEF new

(* What the node has heard: images, robots, camera infos and ticks.        *)
IsHeard(events) ==
  /\ Len(events) \in Nat
  /\ \A i \in 1 .. Len(events) :
       /\ events[i].kind \in {"depth", "info", "joints", "timer"}
       /\ events[i].kind = "depth" => IsImage(events[i].image)
       /\ events[i].kind = "joints" => IsRobot(events[i].spheres)

LEMMA NothingYet ==
  ASSUME NEW events, NEW kind
  PROVE  UpTo(events, 0, kind) = {}
<1>1. 1 .. 0 = {}
  OBVIOUS
<1> QED BY <1>1 DEF UpTo

LEMMA LastIsOne ==
  ASSUME NEW events, NEW i \in Nat, NEW kind, UpTo(events, i, kind) # {}
  PROVE  Greatest(UpTo(events, i, kind)) \in 1 .. i /\ Counts(Last(events, i, kind), kind)
<1>1. UpTo(events, i, kind) \in SUBSET (0 .. i)
  BY DEF UpTo
<1>2. Greatest(UpTo(events, i, kind)) \in UpTo(events, i, kind)
  BY <1>1, GreatestExists
<1> QED BY <1>2 DEF UpTo, Last

(* Whatever the order of images, joints, infos and ticks is, a tick        *)
(* publishes the last image of a known encoding without the robot as its   *)
(* joints were last, and nothing else publishes (robot_segmentation.py).   *)
THEOREM SegmentationUsesTheLatest ==
  ASSUME NEW home, IsRobot(home), NEW events, IsHeard(events), NEW threshold \in Int
  PROVE  LatestIsCut(home, events, threshold)
<1> DEFINE all == Len(events)
           nodes == NodeAfter(home, events, threshold)
           Until(i, kind) == UpTo(events, i, kind)
           Image(i) == IF Until(i, "depth") = {} THEN <<>> ELSE <<Last(events, i, "depth").image>>
           Spheres(i) == IF Until(i, "joints") = {} THEN home ELSE Last(events, i, "joints").spheres
           Good(i) == /\ IsNode(nodes[i])
                      /\ nodes[i].image = Image(i)
                      /\ nodes[i].info = (Until(i, "info") # {})
                      /\ nodes[i].spheres = Spheres(i)
                      /\ Until(i, "depth") = {} \/ Until(i, "info") = {} => nodes[i].published = <<>>
<1>1. all \in Nat
  BY DEF IsHeard
<1>2. /\ nodes[0] = NewNode(home)
      /\ \A i \in 1 .. all : nodes[i] = SegmentationStep(nodes[i - 1], events[i], threshold)
  BY <1>1, NodesExist
<1> HIDE DEF nodes
<1>3. Good(0)
  <2>1. IsNode(NewNode(home)) /\ NewNode(home).image = <<>> /\ NewNode(home).info = FALSE
        /\ NewNode(home).spheres = home /\ NewNode(home).published = <<>>
    BY DEF NewNode, IsNode
  <2>2. \A kind : Until(0, kind) = {}
    BY NothingYet
  <2> QED BY <1>2, <2>1, <2>2
<1>4. \A i \in 1 .. all : events[i].kind \in {"depth", "info", "joints", "timer"}
  BY DEF IsHeard
<1>5. ASSUME NEW i \in 1 .. all, Good(i - 1)
      PROVE  Good(i) /\ IsNext(nodes[i - 1], events[i], threshold, nodes[i])
  <2> DEFINE old == nodes[i - 1]
             new == nodes[i]
             event == events[i]
  <2>1. IsNext(old, event, threshold, new)
    <3>1. IsNode(old) /\ new = SegmentationStep(old, event, threshold)
      BY <1>2, <1>5
    <3> QED BY <1>4, <3>1, StepIs
  <2>2. \A kind : /\ Counts(event, kind) => Until(i, kind) # {} /\ Last(events, i, kind) = event
                  /\ ~ Counts(event, kind) => Until(i, kind) = Until(i - 1, kind)
    <3>1. i \in Nat \ {0}
      OBVIOUS
    <3> QED BY <3>1, LastIs
  <2>3. \A kind : ~ Counts(event, kind) => Last(events, i, kind) = Last(events, i - 1, kind)
    BY <2>2 DEF Last
  <2> HIDE DEF old, new, event, Until
  <2>4. IsNode(new) /\ new.image = Image(i)
    <3>1. old.image = Image(i - 1)
      BY <1>5 DEF old
    <3>2. IsNode(new) /\ new.image = IF Counts(event, "depth") THEN <<event.image>> ELSE old.image
      BY <2>1 DEF IsNext
    <3>3. CASE Counts(event, "depth")
      BY <2>2, <3>2, <3>3
    <3>4. CASE ~ Counts(event, "depth")
      BY <2>2, <2>3, <3>1, <3>2, <3>4
    <3> QED BY <3>3, <3>4
  <2>5. new.info = (Until(i, "info") # {})
    <3>1. old.info = (Until(i - 1, "info") # {})
      BY <1>5 DEF old
    <3>2. new.info = IF Counts(event, "info") THEN TRUE ELSE old.info
      BY <2>1 DEF IsNext
    <3>3. CASE Counts(event, "info")
      BY <2>2, <3>2, <3>3
    <3>4. CASE ~ Counts(event, "info")
      BY <2>2, <3>1, <3>2, <3>4
    <3> QED BY <3>3, <3>4
  <2>6. new.spheres = Spheres(i)
    <3>1. old.spheres = Spheres(i - 1)
      BY <1>5 DEF old
    <3>2. new.spheres = IF Counts(event, "joints") THEN event.spheres ELSE old.spheres
      BY <2>1 DEF IsNext
    <3>3. CASE Counts(event, "joints")
      BY <2>2, <3>2, <3>3
    <3>4. CASE ~ Counts(event, "joints")
      BY <2>2, <2>3, <3>1, <3>2, <3>4
    <3> QED BY <3>3, <3>4
  <2>7. ASSUME Until(i, "depth") = {} \/ Until(i, "info") = {} PROVE new.published = <<>>
    <3>1. Until(i - 1, "depth") = {} \/ Until(i - 1, "info") = {}
      BY <2>2, <2>7
    <3>2. old.published = <<>>
      BY <1>5, <3>1 DEF old
    <3>3. old.image = <<>> \/ ~ old.info
      BY <1>5, <3>1 DEF old
    <3> QED BY <2>1, <3>2, <3>3 DEF IsNext
  <2> QED BY <2>1, <2>4, <2>5, <2>6, <2>7 DEF old, new, event
<1> HIDE DEF Good
<1>6. \A i \in 0 .. all : Good(i)
  <2> DEFINE bad == {i \in 0 .. all : ~ Good(i)}
  <2>1. ASSUME bad # {} PROVE FALSE
    <3> DEFINE n == Least(bad)
    <3>1. n \in bad /\ \A i \in bad : n <= i
      <4>1. bad \in SUBSET Nat
        BY <1>1
      <4> HIDE DEF bad
      <4> QED BY <2>1, <4>1, LeastExists
    <3> HIDE DEF n
    <3>2. n \in 0 .. all /\ ~ Good(n)
      BY <3>1
    <3>3. n # 0
      BY <1>3, <3>2
    <3>4. n \in 1 .. all /\ n - 1 \in 0 .. all
      BY <1>1, <3>2, <3>3
    <3>5. Good(n - 1)
      <4>1. ~ (n <= n - 1)
        BY <3>4
      <4> QED BY <3>1, <3>4, <4>1
    <3> QED BY <1>5, <3>2, <3>4, <3>5
  <2> QED BY <2>1
<1>7. ASSUME NEW i \in 1 .. all
      PROVE  IF events[i].kind # "timer" THEN nodes[i].published = nodes[i - 1].published
             ELSE IF Until(i, "depth") = {} \/ Until(i, "info") = {} THEN nodes[i].published = <<>>
             ELSE /\ Len(nodes[i].published) = 1
                  /\ RobotIsCut(Last(events, i, "depth").image, Spheres(i), threshold, nodes[i].published[1])
  <2>1. i - 1 \in 0 .. all /\ i \in 0 .. all /\ i \in Nat /\ i - 1 \in Nat
    BY <1>1
  <2>2. Good(i) /\ Good(i - 1) /\ IsNext(nodes[i - 1], events[i], threshold, nodes[i])
    BY <1>5, <1>6, <2>1
  <2>3. CASE events[i].kind # "timer"
    BY <2>2, <2>3 DEF IsNext
  <2>4. CASE events[i].kind = "timer" /\ (Until(i, "depth") = {} \/ Until(i, "info") = {})
    BY <2>2, <2>4 DEF Good
  <2>5. CASE events[i].kind = "timer" /\ Until(i, "depth") # {} /\ Until(i, "info") # {}
    <3> DEFINE image == Last(events, i, "depth").image
               spheres == Spheres(i)
               shows == MaskDepthImage(image, spheres, threshold)
    <3>1. nodes[i].image = <<image>> /\ nodes[i].info /\ nodes[i].spheres = spheres
      BY <2>2, <2>5 DEF Good
    <3>2. nodes[i].image = nodes[i - 1].image /\ nodes[i].info = nodes[i - 1].info
          /\ nodes[i].spheres = nodes[i - 1].spheres
      BY <2>2, <2>5 DEF IsNext, Counts
    <3> HIDE DEF image, spheres
    <3>3. nodes[i].published = <<shows>>
      <4>1. nodes[i - 1].image # <<>> /\ nodes[i - 1].image[1] = image /\ nodes[i - 1].info
        <5>1. nodes[i - 1].image = <<image>>
          BY <3>1, <3>2
        <5>2. nodes[i - 1].info
          BY <3>1, <3>2, Zenon
        <5> QED BY <5>1, <5>2
      <4>2. nodes[i].published = <<MaskDepthImage(nodes[i - 1].image[1], nodes[i - 1].spheres, threshold)>>
        BY <2>2, <2>5, <4>1 DEF IsNext
      <4> QED BY <3>1, <3>2, <4>1, <4>2
    <3>4. IsImage(image)
      <4>1. Greatest(UpTo(events, i, "depth")) \in 1 .. i /\ Counts(Last(events, i, "depth"), "depth")
        BY <2>1, <2>5, LastIsOne
      <4>2. Greatest(UpTo(events, i, "depth")) \in 1 .. all
        BY <1>1, <4>1
      <4> QED BY <4>1, <4>2 DEF IsHeard, Last, Counts, image
    <3>5. IsRobot(spheres)
      <4>1. CASE Until(i, "joints") = {}
        BY <4>1 DEF spheres
      <4>2. CASE Until(i, "joints") # {}
        <5>1. Greatest(UpTo(events, i, "joints")) \in 1 .. i /\ Counts(Last(events, i, "joints"), "joints")
          BY <2>1, <4>2, LastIsOne
        <5>2. Greatest(UpTo(events, i, "joints")) \in 1 .. all
          BY <1>1, <5>1
        <5> QED BY <4>2, <5>1, <5>2 DEF IsHeard, Last, Counts, spheres
      <4> QED BY <4>1, <4>2
    <3>6. RobotIsCut(image, spheres, threshold, shows)
      BY <3>4, <3>5, RobotIsTakenOut
    <3> HIDE DEF shows
    <3>7. Len(nodes[i].published) = 1 /\ nodes[i].published[1] = shows
      BY <3>3
    <3>8. RobotIsCut(image, spheres, threshold, nodes[i].published[1])
      BY <3>6, <3>7
    <3>9. RobotIsCut(Last(events, i, "depth").image, Spheres(i), threshold, nodes[i].published[1])
      BY <3>8 DEF image, spheres
    <3> QED BY <2>5, <3>7, <3>9
  <2> QED BY <2>3, <2>4, <2>5
<1> QED BY <1>7, Zenon DEF LatestIsCut, Last, UpTo, Counts, nodes

IsPose(pose) == pose.at \in Vector /\ pose.quat \in 0 .. 3

(* The turn back undoes the turn.                                          *)
LEMMA TurnedBack ==
  ASSUME NEW quat \in 0 .. 3, NEW p \in Vector
  PROVE  Turn(quat, p) \in Vector /\ TurnBack(quat, Turn(quat, p)) = p
<1>1. PICK x \in Int, y \in Int, z \in Int : p = <<x, y, z>>
  BY DEF Vector
<1>2. CASE quat = 0
  BY <1>1, <1>2 DEF Turn, TurnBack, Vector
<1>3. CASE quat = 1
  <2>1. Turn(quat, p) = <<-y, x, z>>
    BY <1>1, <1>3 DEF Turn
  <2> QED BY <1>1, <1>3, <2>1 DEF Turn, TurnBack, Vector
<1>4. CASE quat = 2
  <2>1. Turn(quat, p) = <<-x, -y, z>>
    BY <1>1, <1>4 DEF Turn
  <2> QED BY <1>1, <1>4, <2>1 DEF Turn, TurnBack, Vector
<1>5. CASE quat = 3
  <2>1. Turn(quat, p) = <<y, -x, z>>
    BY <1>1, <1>5 DEF Turn
  <2> QED BY <1>1, <1>5, <2>1 DEF Turn, TurnBack, Vector
<1> QED BY <1>2, <1>3, <1>4, <1>5

LEMMA PlacedSeen ==
  ASSUME NEW pose, IsPose(pose), NEW p \in Vector
  PROVE  p = TurnBack(pose.quat, Minus(Placed(pose, p), pose.at))
<1> DEFINE d == Turn(pose.quat, p)
<1>1. pose.quat \in 0 .. 3 /\ pose.at \in Vector
  BY DEF IsPose
<1>2. d \in Vector /\ TurnBack(pose.quat, d) = p
  BY <1>1, TurnedBack
<1>3. Placed(pose, p) = Plus(pose.at, d)
  BY DEF Placed
<1> HIDE DEF d
<1>4. PICK x \in Int, y \in Int, z \in Int : d = <<x, y, z>>
  BY <1>2 DEF Vector
<1>5. PICK u \in Int, v \in Int, w \in Int : pose.at = <<u, v, w>>
  BY <1>1 DEF Vector
<1>6. Minus(Plus(pose.at, d), pose.at) = d
  BY <1>4, <1>5 DEF Plus, Minus
<1> QED BY <1>2, <1>3, <1>6

(* Wherever the camera is: what it sees is in the world where it is, with  *)
(* the pose of the configuration, or else of the last transform            *)
(* (callback_depth_map).                                                   *)
THEOREM FramesAreWhereTheyAre ==
  ASSUME NEW world, NEW seen \in SUBSET Vector, NEW static, NEW transform,
         \A pose \in static \cup transform : IsPose(pose)
  PROVE  FrameIsPlaced(world, seen, static, transform)
<1> DEFINE camera == [static |-> static]
           image == [converts |-> TRUE, seen |-> seen]
           pose == IF static # {} THEN static ELSE IF transform # {} THEN transform ELSE {Identity}
           known == IF static # {} THEN static ELSE transform
           after == OnDepthImage(world, camera, image, transform)
<1>1. after = world \cup {Placed(at, p) : at \in pose, p \in seen}
  <2>1. camera.static = static /\ image.converts /\ image.seen = seen
    OBVIOUS
  <2> HIDE DEF camera, image
  <2> QED BY <2>1 DEF OnDepthImage
<1> HIDE DEF after
<1>2. \A at \in known : at \in pose /\ IsPose(at)
  OBVIOUS
<1> HIDE DEF pose
<1>3. \A at \in known, p \in seen : \E q \in after : p = TurnBack(at.quat, Minus(q, at.at))
  <2> SUFFICES ASSUME NEW at \in known, NEW p \in seen
               PROVE  \E q \in after : p = TurnBack(at.quat, Minus(q, at.at))
    OBVIOUS
  <2>1. Placed(at, p) \in after
    BY <1>1, <1>2
  <2>2. p = TurnBack(at.quat, Minus(Placed(at, p), at.at))
    BY <1>2, PlacedSeen
  <2> QED BY <2>1, <2>2
<1>4. world \subseteq after
  BY <1>1
<1> QED BY <1>3, <1>4 DEF FrameIsPlaced, after

LEMMA GridsAreGrids == IsGrid(Shelf) /\ IsGrid(Cells3) /\ IsGrid(Row)
<1>1. IsGrid(Shelf)
  BY DEF IsGrid, Shelf, Vector, Axes
<1>2. IsGrid(Cells3)
  BY DEF IsGrid, Cells3, Vector, Axes
<1>3. IsGrid(Row)
  BY DEF IsGrid, Row, Vector, Axes
<1> QED BY <1>1, <1>2, <1>3

LEMMA EventsAreHeard ==
  ASSUME NEW image \in Images, NEW spheres \in Robots
  PROVE  IsHeard(Events(image, spheres))
<1> DEFINE events == Events(image, spheres)
           kinds == {"depth", "info", "joints", "timer"}
           IsOne(event) == /\ event.kind \in kinds
                           /\ event.kind = "depth" => IsImage(event.image)
                           /\ event.kind = "joints" => IsRobot(event.spheres)
<1>1. IsImage(image) /\ IsImage(Blank)
  <2>1. Pixels \subseteq Nat \X Nat
    BY DEF Pixels
  <2>2. image \in [Pixels -> Nat] /\ Blank \in [Pixels -> Nat]
    BY DEF Images, Blank
  <2> QED BY <2>1, <2>2 DEF IsImage
<1>2. IsRobot(spheres) /\ IsRobot({})
  <2>1. <<0, 0, 2>> \in Vector /\ <<4, 2, 2>> \in Vector /\ <<4, 4, 4>> \in Vector
    BY DEF Vector
  <2>2. \A s \in spheres : s.at \in Vector /\ s.radius \in Int
    BY <2>1 DEF Robots
  <2> QED BY <2>2 DEF IsRobot
<1> HIDE DEF kinds
<1>3. "depth" \in kinds /\ "info" \in kinds /\ "joints" \in kinds /\ "timer" \in kinds
  BY DEF kinds
<1>4. IsOne(Depth(image, TRUE)) /\ IsOne(Depth(Blank, TRUE)) /\ IsOne(Depth(Blank, FALSE))
  BY <1>1, <1>3 DEF Depth
<1>5. IsOne(Joints(spheres)) /\ IsOne(Joints({}))
  BY <1>2, <1>3 DEF Joints
<1>6. IsOne(Info) /\ IsOne(Timer)
  BY <1>3 DEF Info, Timer
<1> HIDE DEF IsOne
<1>7. events = <<Timer, Depth(Blank, TRUE), Timer, Info, Timer, Joints({}), Depth(image, TRUE),
                 Timer, Joints(spheres), Depth(Blank, FALSE), Timer>>
  BY DEF Events
<1> HIDE DEF events
<1>8. Len(events) = 11
  BY <1>7
<1>9. \A i \in 1 .. 11 : IsOne(events[i])
  <2>1. /\ events[1] = Timer /\ events[2] = Depth(Blank, TRUE) /\ events[3] = Timer /\ events[4] = Info
        /\ events[5] = Timer /\ events[6] = Joints({}) /\ events[7] = Depth(image, TRUE) /\ events[8] = Timer
        /\ events[9] = Joints(spheres) /\ events[10] = Depth(Blank, FALSE) /\ events[11] = Timer
    BY <1>7
  <2>2. /\ IsOne(events[1]) /\ IsOne(events[2]) /\ IsOne(events[3]) /\ IsOne(events[4]) /\ IsOne(events[5])
        /\ IsOne(events[6]) /\ IsOne(events[7]) /\ IsOne(events[8]) /\ IsOne(events[9]) /\ IsOne(events[10]) /\ IsOne(events[11])
    BY <1>4, <1>5, <1>6, <2>1
  <2>3. \A i \in 1 .. 11 : i = 1 \/ i = 2 \/ i = 3 \/ i = 4 \/ i = 5 \/ i = 6 \/ i = 7 \/ i = 8 \/ i = 9 \/ i = 10 \/ i = 11
    OBVIOUS
  <2> QED BY <2>2, <2>3
<1> QED BY <1>8, <1>9 DEF IsHeard, IsOne, events, kinds

LEMMA HomeIsRobot == IsRobot(Home)
<1>1. <<2, 0, 2>> \in Vector
  BY DEF Vector
<1> QED BY <1>1 DEF Home, IsRobot

LEMMA WhatCamerasTell == PerceptionIsTrue
<1>1. ASSUME NEW p \in Somewhere, NEW q \in Somewhere
      PROVE  DisplayIsTrue({p, q}, Cells3)
  <2>1. {p, q} \in SUBSET Vector
    BY DEF Somewhere, Vector
  <2>2. Cells3.shape[1] = Cells3.shape[3]
    BY DEF Cells3
  <2> QED BY <2>1, <2>2, GridsAreGrids, DisplayTellsTheWorld
<1>2. ASSUME NEW first \in Clouds, NEW second \in Clouds
      PROVE  CloudsArrive(<<Map>>, "camera", first, second, Shelf)
  <2> DEFINE Names == {"map", "camera"}
             Grids == {Esdf({}, Shelf)}
             R == [name : Names, esdf : Grids]
  <2>1. \A cloud \in Clouds : cloud.finite \in SUBSET Vector
    <3>1. Lattice \subseteq Vector
      BY DEF Lattice, Vector
    <3>2. \A S \in {{p, q} : p, q \in Lattice} \cup {{}} : S \in SUBSET Vector
      BY <3>1
    <3> QED BY <3>2 DEF Clouds
  <2>2. Map \in R
    BY DEF Map
  <2> DEFINE list == <<Map>>
  <2>3. list \in Seq(R) /\ DOMAIN list = {1}
    <3> HIDE DEF R
    <3> QED BY <2>2
  <2>4. IsList(list, Names, Grids)
    <3> HIDE DEF list, Names, Grids
    <3> QED BY <2>3 DEF IsList
  <2>5. "camera" \in Names
    OBVIOUS
  <2> HIDE DEF Names, Grids
  <2> QED BY <2>1, <2>4, <2>5, GridsAreGrids, CloudsAreTheWorld
<1>3. ASSUME NEW occupied \in SUBSET Voxels(Row)
      PROVE  FreeIsFar(occupied, Row)
  <2>1. Voxels(Row) \subseteq Vector
    BY DEF Voxels, Row, Vector
  <2>2. occupied \in SUBSET Vector
    BY <2>1
  <2> QED BY <2>2, GridsAreGrids, FreeKeepsItsDistance
<1>4. ASSUME NEW image \in Images, NEW spheres \in Robots
      PROVE  LatestIsCut(Home, Events(image, spheres), 1)
  BY EventsAreHeard, HomeIsRobot, SegmentationUsesTheLatest
<1>5. ASSUME NEW kinds \in [1 .. 3 -> CameraKinds], NEW answering \in SUBSET (1 .. 3)
      PROVE  CamerasAreLoaded(Cameras(kinds), answering)
  <2> DEFINE list == Cameras(kinds)
  <2>1. DOMAIN list = 1 .. 3 /\ \A i \in 1 .. 3 : list[i].name = i
    BY DEF Cameras
  <2>2. Len(list) = 3
    <3> DEFINE One(i) == [type |-> kinds[i].type, intrinsics |-> kinds[i].intrinsics, name |-> i]
               f == [i \in 1 .. 3 |-> One(i)]
    <3>1. list = f
      BY DEF Cameras
    <3> HIDE DEF One
    <3>2. Len(f) = 3
      <4>1. f \in Seq({One(i) : i \in 1 .. 3})
        OBVIOUS
      <4> QED BY <4>1
    <3> QED BY <3>1, <3>2
  <2>3. Len(list) \in Nat /\ DOMAIN list = 1 .. Len(list)
    BY <2>1, <2>2
  <2>4. \A i, j \in DOMAIN list : list[i].name = list[j].name => i = j
    BY <2>1
  <2> HIDE DEF list
  <2>5. CamerasAreLoaded(list, answering)
    BY <2>3, <2>4, CamerasComeInOrder
  <2> QED BY <2>5 DEF list
<1>6. ASSUME NEW static \in Poses, NEW transform \in Poses
      PROVE  FrameIsPlaced({Origin}, Frame, static, transform)
  <2>1. Frame \in SUBSET Vector
    BY DEF Frame, Vector
  <2>2. \A poses \in Poses : \A pose \in poses : IsPose(pose)
    BY DEF Poses, IsPose, Vector
  <2>3. \A pose \in static \cup transform : IsPose(pose)
    BY <2>2
  <2> QED BY <2>1, <2>3, FramesAreWhereTheyAre
<1> QED BY <1>1, <1>2, <1>3, <1>4, <1>5, <1>6, Zenon DEF PerceptionIsTrue

THEOREM CamerasAreTrusted == Spec => []CamerasTellTheWorld
<1>1. CamerasTellTheWorld
  BY WhatCamerasTell DEF CamerasTellTheWorld
<1> QED BY <1>1, PTL
================================================================================
