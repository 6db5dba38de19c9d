----------------------------- MODULE PlannerStack -----------------------------
(***************************************************************************)
(* The processes behind a measured run: the controllers and one planner,   *)
(* each started in the background by a script.  Nobody waits for processes *)
(* that were told to end, and they answer until they have ended: whether a *)
(* new planner is there is asked of whoever offers its services, and for   *)
(* two of the planners of a log too.                                       *)
(***************************************************************************)
EXTENDS Naturals, FiniteSets, SequencesExt

CONSTANTS MaxStacks,   \* bound: stacks at a time
          MaxLingering \* bound: stacks that were to end, and servers of theirs that were
                       \* told to end and still run, when another stack is started

VARIABLES stack,  \* each stack: of which kind, how far its start is, its processes, the
                  \* servers among them that answer, the ones that were told to end, and
                  \* whether it was to end before it was launched and was not found
          logged  \* the lines of the logs that say that a planner is ready, and whether
                  \* a line came after its planner was to end

Stacks == 1..MaxStacks
Planners == {"curobo", "cumotion", "ompl", "hybrid"}
Kinds == Planners \cup {"ros"}

(* What a launch file starts, in the configuration that the scripts ask    *)
(* for.  Displays are left out.                                            *)
ControlNodes == {"ros2_control_node", "robot_state_publisher"}
Filters == {"moveit_joint_state_bounds_filter.py", "moveit_joint_state_filter"}
Collisions == {"isaac_urdf_collision_publisher.py"}
MoveItNodes == Filters \cup Collisions \cup {"move_group"}
CumotionNodes == {"static_planning_scene", "cumotion_planner_upstream_framefix.py"}
HumanNodes == {"human_skeleton_collision_publisher.py"}
Spheres == {"curobo_live_collision_spheres.py"}
PreviewNodes == {"curobo_preview_joint_states.py", "joint_state_publisher",
                 "robot_state_publisher", "static_transform_publisher"}
CuroboNodes == {"curobo_trajectory_planner", "curobo_world_bridge.py"} \cup PreviewNodes
CuroboHumanNodes == {"curobo_human_skeleton_collision_publisher.py"}
HybridPlannerNodes ==
  {"curobo_trajectory_planner", "curobo_world_bridge.py"} \cup CuroboHumanNodes
Container == {"curobo_hybrid_planning_container"}
Bridge == {"hybrid_move_action_bridge.py"}

Nodes(kind) ==
  CASE kind = "ros" -> ControlNodes
    [] kind = "ompl" -> MoveItNodes \cup Spheres
    [] kind = "cumotion" -> MoveItNodes \cup CumotionNodes \cup HumanNodes \cup Spheres
    [] kind = "curobo" -> CuroboNodes \cup CuroboHumanNodes \cup Spheres
    [] kind = "hybrid" -> MoveItNodes \cup HumanNodes \cup Spheres
                            \cup HybridPlannerNodes \cup Container \cup Bridge

(* The controllers are loaded one after the other into one process.        *)
Controllers ==
  <<"joint_trajectory_controller", "forward_position_controller", "gripper_controllers">>

Provider(kind, service) ==
  CASE service = "/move_action" /\ kind \in {"ompl", "cumotion"} -> "move_group"
    [] service = "/move_action" /\ kind = "hybrid" -> "hybrid_move_action_bridge.py"
    [] service = "/plan_kinematic_path" /\ kind \in {"ompl", "cumotion", "hybrid"} -> "move_group"
    [] service = "/planner_attach_object" /\ kind = "cumotion" ->
         "cumotion_planner_upstream_framefix.py"
    [] service = "/unified_planner" /\ kind \in {"curobo", "hybrid"} -> "curobo_trajectory_planner"
    [] service = "/run_hybrid_planning" /\ kind = "hybrid" -> "curobo_hybrid_planning_container"
    [] service \in ToSet(Controllers) /\ kind = "ros" -> service
    [] OTHER -> "nobody"

Services == {"/move_action", "/plan_kinematic_path", "/planner_attach_object",
             "/unified_planner", "/run_hybrid_planning"} \cup ToSet(Controllers)
Servers(kind) == {Provider(kind, service) : service \in Services} \ {"nobody"}
AllServers == UNION {Servers(kind) : kind \in Kinds}
Host(server) == IF server \in ToSet(Controllers) THEN "ros2_control_node" ELSE server

(* The server that says in the log that its planner is ready.              *)
Logs(kind) == kind \in {"ompl", "cumotion"}
Speaker(kind) == Provider(kind, IF kind = "ompl" THEN "/move_action" ELSE "/planner_attach_object")

-----------------------------------------------------------------------------
(* What pkill -f looks for, of what there is to be found: the process that *)
(* launches, by the name of its file or by an argument, and single nodes.  *)
Command(kind) ==
  CASE kind = "ros" -> {"ur_robotiq_isaac_control.launch.py"}
    [] kind = "ompl" -> {"ur_robotiq_isaac_moveit.launch.py"}
    [] kind = "cumotion" -> {"ur_robotiq_isaac_moveit_human.launch.py", "move_group"}
    [] kind = "curobo" -> {"ur_robotiq_curobo_human.launch.py"}
    [] kind = "hybrid" -> {"curobo_hybrid_planning.launch.py"}
Script(kind) ==
  CASE kind = "cumotion" -> "start_cumotion_planner.sh"
    [] kind = "curobo" -> "start_curobo_planner.sh"
    [] kind = "hybrid" -> "start_hybrid_planner.sh"
    [] kind = "ompl" -> "start_ompl_planner.sh"
    [] kind = "ros" -> "control.sh"

(* Mutant of Patterns: the list from before there was a hybrid planner.    *)
PatternsBeforeHybrid ==
  {"ur_robotiq_isaac_control.launch.py", "ur_robotiq_isaac_moveit.launch.py",
   "ur_robotiq_curobo.launch.py", "ur_robotiq_curobo_human.launch.py",
   "start_cumotion_planner.sh", "start_curobo_planner.sh",
   "cumotion_planner_upstream_framefix.py", "curobo_trajectory_planner",
   "curobo_human_skeleton_collision_publisher.py", "curobo_live_collision_spheres.py",
   "isaac_urdf_collision_publisher.py", "curobo_world_bridge.py", "joint_state_publisher",
   "moveit_joint_state_filter", "move_group"}
Patterns ==
  {"ur_robotiq_isaac_control.launch.py", "ur_robotiq_isaac_moveit.launch.py",
   "ur_robotiq_curobo.launch.py", "ur_robotiq_curobo_human.launch.py",
   "start_cumotion_planner.sh", "start_curobo_planner.sh", "start_hybrid_planner.sh",
   "curobo_hybrid_planning.launch.py", "cumotion_planner_upstream_framefix.py",
   "curobo_trajectory_planner", "hybrid_move_action_bridge.py",
   "curobo_hybrid_planning_container", "curobo_human_skeleton_collision_publisher.py",
   "curobo_live_collision_spheres.py", "isaac_urdf_collision_publisher.py",
   "curobo_world_bridge.py", "joint_state_publisher", "moveit_joint_state_filter", "move_group"}

Nothing == [kind |-> "ros", at |-> "none", running |-> {}, up |-> {}, told |-> {}, late |-> FALSE]

(* A process that launches tells its own to end before it ends.            *)
Hit(s, patterns) ==
  [s EXCEPT !.told = @ \cup IF Command(s.kind) \cap patterns # {} THEN s.running
                            ELSE s.running \cap patterns]

(* A script may be found before it has launched anything.  What is only    *)
(* asked for cannot.                                                       *)
Kill(from) == [k \in Stacks |->
  LET s == from[k] IN
  IF s.at = "script" /\ Script(s.kind) \in Patterns THEN Nothing
  ELSE IF s.at \in {"asked", "script"} THEN [s EXCEPT !.late = TRUE]
  ELSE Hit(s, Patterns)]

(* What the scripts that start a planner and the controllers clear first,  *)
(* in their own container.  The latter look whether there is a controller  *)
(* manager, and may not see one whose controllers are not there yet.       *)
Leftovers(kind) ==
  CASE kind = "curobo" ->
         {"ur_robotiq_curobo_human.launch.py", "curobo_trajectory_planner",
          "curobo_human_skeleton_collision_publisher.py", "curobo_live_collision_spheres.py",
          "curobo_world_bridge.py", "robot_state_publisher", "joint_state_publisher",
          "static_transform_publisher"}
    [] kind = "ros" -> {"ur_robotiq_isaac_control.launch.py", "ros2_control_node"}
    [] OTHER -> {}
Seen(kind) == kind # "ros" \/ \E k \in Stacks : stack[k].kind = "ros" /\ stack[k].up # {}
Cleared(kind) == {Leftovers(kind)} \cup IF Seen(kind) THEN {} ELSE {{}}
Together(kind, other) == kind = "ros" <=> other = "ros"

-----------------------------------------------------------------------------
InitStacks == stack = [k \in Stacks |-> Nothing] /\ logged = {}

LogOf(kind) == {line \in logged : line[1] = kind}

Lingering == {k \in Stacks : stack[k].told # {} \/ stack[k].late}
Remnants == {r \in Lingering \X AllServers :
              r[2] \in Servers(stack[r[1]].kind) /\ Host(r[2]) \in stack[r[1]].told}

(* docker compose exec -d: the script of stack k runs later.               *)
AskFor(from, k, kind) ==
  /\ from[k].at = "none" /\ \A n \in 1..(k - 1) : from[n].at # "none"
  /\ Cardinality(Lingering) <= MaxLingering /\ Cardinality(Remnants) <= MaxLingering
  /\ stack' = [from EXCEPT ![k] = [Nothing EXCEPT !.kind = kind, !.at = "asked"]]

(* The shell truncates the log, then the script clears what is in its way. *)
ScriptRuns(k) ==
  LET kind == stack[k].kind IN
  /\ stack[k].at = "asked"
  /\ \E patterns \in Cleared(kind) : stack' = [n \in Stacks |->
       IF n = k THEN [stack[n] EXCEPT !.at = "script"]
       ELSE IF Together(kind, stack[n].kind) THEN Hit(stack[n], patterns) ELSE stack[n]]
  /\ logged' = logged \ LogOf(kind)

Launch(k) ==
  /\ stack[k].at = "script"
  /\ stack' = [stack EXCEPT ![k].at = "launched",
                            ![k].running = Nodes(stack[k].kind) \cup {"launch"}]
  /\ UNCHANGED logged

(* The checks before the launch fail.                                      *)
ScriptFails(k) ==
  /\ stack[k].at = "script" /\ stack[k].kind # "ros"
  /\ stack' = [stack EXCEPT ![k] = Nothing]
  /\ UNCHANGED logged

InTurn(s, server) ==
  s.kind = "ros" => server = Controllers[Cardinality(s.up) + 1]

ComesUp(k) ==
  LET s == stack[k] IN
  \E server \in Servers(s.kind) \ s.up :
    /\ Host(server) \in s.running /\ InTurn(s, server)
    /\ stack' = [stack EXCEPT ![k].up = @ \cup {server}]
    /\ logged' = IF Logs(s.kind) /\ server = Speaker(s.kind)
                 THEN logged \cup {<<s.kind, s.late \/ server \in s.told>>} ELSE logged

(* Servers end one by one.  Nobody asks for the other processes, and the   *)
(* one that launched them all ends last.                                   *)
Ends(k) ==
  LET s == stack[k]
      hosts == {Host(server) : server \in Servers(s.kind)} \cap s.told IN
  \E over \in IF hosts = {} THEN {s.told} ELSE {{host} : host \in hosts} :
    /\ over # {}
    /\ stack' = [stack EXCEPT ![k] =
         IF s.running = over THEN Nothing
         ELSE [s EXCEPT !.running = @ \ over, !.told = @ \ over,
                        !.up = {server \in @ : Host(server) \notin over}]]
    /\ UNCHANGED logged

Goes(k) == ScriptRuns(k) \/ Launch(k) \/ ScriptFails(k) \/ Ends(k)
StackStep ==
  \E k \in Stacks : Goes(k) \/ ComesUp(k)

-----------------------------------------------------------------------------
(* What the readiness checks ask.                                          *)
Answering(service) == {k \in Stacks : Provider(stack[k].kind, service) \in stack[k].up}
Some(service) == Answering(service) # {}
One(service) == Cardinality(Answering(service)) = 1

RosReady == One("joint_trajectory_controller") /\ One("gripper_controllers")
HybridControllersReady == Some("joint_trajectory_controller") /\ Some("forward_position_controller")

Answers(kind) ==
  CASE kind = "curobo" -> Some("/unified_planner")
    [] kind = "ompl" -> One("/move_action")
    [] kind = "cumotion" -> One("/move_action") /\ One("/planner_attach_object")
    [] kind = "hybrid" -> /\ Some("/unified_planner")
                          /\ One("/move_action") /\ One("/run_hybrid_planning")
                          /\ Some("/plan_kinematic_path") /\ HybridControllersReady
=============================================================================
