------------------------------ MODULE JointOrder ------------------------------
(***************************************************************************)
(* Joint values travel as a list of names and a list of numbers, in one    *)
(* order at the drivers, in another in cuRobo and in MoveIt. This module   *)
(* is what the planner, MPC and the clients do with such lists: they look  *)
(* values up by name, choose among commands, scale them, publish them and  *)
(* turn an angle into the equivalent one that is near                      *)
(* (unified_planner_node.py, controller_trajectory.py, mpc_planner.py,     *)
(* goals.py, backend_curobo.py, move_group_ops.py).                        *)
(*                                                                         *)
(* Values are integers. An answer that may be missing is a set of at most  *)
(* one element.                                                            *)
(***************************************************************************)
EXTENDS Integers, Sequences, FiniteSets

CONSTANTS NotFinite,  \* a value that is not a finite number
          FullTurn    \* two pi
ASSUME FiniteAssumption == NotFinite \notin Int
ASSUME TurnAssumption == FullTurn \in Nat \ {0} /\ FullTurn % 2 = 0

Half == FullTurn \div 2
Abs(n) == IF n < 0 THEN -n ELSE n
Highest(S) == CHOOSE n \in S : \A k \in S : k <= n

-----------------------------------------------------------------------------
(* zip and a dictionary: the last value of a name counts.                  *)
Zipped(names, values) == {i \in DOMAIN names : i \in DOMAIN values}
LastOf(names, values, n) ==
  CHOOSE i \in Zipped(names, values) : names[i] = n /\ \A j \in Zipped(names, values) : names[j] = n => j <= i
ByName(names, values) ==
  [n \in {names[i] : i \in Zipped(names, values)} |-> values[LastOf(names, values, n)]]

Lacks(byName, order) == \E i \in DOMAIN order : order[i] \notin DOMAIN byName
InOrder(byName, order) == [i \in DOMAIN order |-> byName[order[i]]]
OrZero(byName, order) == [i \in DOMAIN order |-> IF order[i] \in DOMAIN byName THEN byName[order[i]] ELSE 0]
Zeros(list) == [i \in DOMAIN list |-> 0]

(* Velocities count when there is one for each name.                       *)
Velocities(report) == IF Len(report.velocities) = Len(report.names) THEN report.velocities ELSE <<>>
State(order, values, velocities) == [names |-> order, values |-> values, velocities |-> velocities]
(* Mutant of Sorted: the values stay in the order of the message.          *)
SortedAsGiven(report, order) ==
  State(order, SubSeq(report.values, 1, Len(order)), OrZero(ByName(report.names, Velocities(report)), order))
Sorted(report, order) ==
  State(order, InOrder(ByName(report.names, report.values), order),
        OrZero(ByName(report.names, Velocities(report)), order))

(* _get_live_joint_state_dict                                              *)
LiveJointState(latest, order) ==
  {Sorted(report, order) : report \in
     {report \in latest : order # <<>> /\ ~ Lacks(ByName(report.names, report.values), order)}}

(* get_current_joint_state                                                 *)
CurrentJointState(latest, order, context) ==
  IF LiveJointState(latest, order) # {} THEN LiveJointState(latest, order)
  ELSE {State(IF order # <<>> THEN order ELSE context.names, context.values, Zeros(context.values))}

(* _joint_state_msg_to_ordered_dict: a message that lacks a joint keeps    *)
(* its own names.                                                          *)
OrderedDict(report, order) ==
  LET asked == IF order # <<>> THEN order ELSE report.names
  IN  IF report.values = <<>> \/ Len(report.names) # Len(report.values) THEN {}
      ELSE IF Lacks(ByName(report.names, report.values), asked)
      THEN {State(report.names, report.values,
                  IF Velocities(report) # <<>> THEN report.velocities ELSE Zeros(report.names))}
      ELSE {Sorted(report, asked)}

(* _reorder_positions, _reorder_joint_target_positions: without names that *)
(* fit, the values stay as they are.                                       *)
ReorderPositions(names, values, order) ==
  LET asked == IF order # <<>> THEN order ELSE names
  IN  IF \/ names = <<>> \/ Len(names) # Len(values)
         \/ Lacks(ByName(names, values), asked)
      THEN values ELSE InOrder(ByName(names, values), asked)

-----------------------------------------------------------------------------
(* extract_ordered_waypoints: at most so many rows, in the order of the    *)
(* controller; rows of velocities that are missing are zero. What raises   *)
(* an error gives nothing.                                                 *)
ExtractWaypoints(state, order, most) ==
  LET column == ByName(state.names, [i \in DOMAIN state.names |-> i])
      rows   == SubSeq(state.rows, 1, IF Len(state.rows) < most THEN Len(state.rows) ELSE most)
      Short(row) == \E i \in DOMAIN order : column[order[i]] > Len(row)
      Pick(row) == [i \in DOMAIN order |-> row[column[order[i]]]]
      given  == {r \in DOMAIN rows : r \in DOMAIN state.velocities}
  IN  IF \/ state.names = <<>> \/ state.rows = <<>> \/ Lacks(column, order)
         \/ \E r \in DOMAIN rows : Short(rows[r])
         \/ \E r \in given : Short(state.velocities[r])
      THEN {}
      ELSE {[rows |-> [r \in DOMAIN rows |-> Pick(rows[r])],
             velocities |-> [r \in DOMAIN rows |-> IF r \in given THEN Pick(state.velocities[r]) ELSE Zeros(order)]]}

(* _ordered_rows_are_finite                                                *)
AreFinite(rows) == \A r \in DOMAIN rows : \A i \in DOMAIN rows[r] : rows[r][i] # NotFinite

(* _max_joint_error                                                        *)
MaxJointError(values, goal) ==
  IF values = <<>> \/ Len(values) # Len(goal) THEN {}
  ELSE {Highest({Abs(values[i] - goal[i]) : i \in DOMAIN values})}

(* What a candidate gives: velocities that are not finite are zero.        *)
(* Mutant of Usable: whether a candidate is finite is not looked at.       *)
UsableUnchecked(candidate, order, most) ==
  UNION {ExtractWaypoints(state, order, most) : state \in candidate}
Usable(candidate, order, most) ==
  {IF AreFinite(c.velocities) THEN c ELSE [c EXCEPT !.velocities = [r \in DOMAIN c.rows |-> Zeros(order)]] :
     c \in {c \in UNION {ExtractWaypoints(state, order, most) : state \in candidate} : AreFinite(c.rows)}}

(* _extract_first_valid_ordered_command: the first that is usable, or      *)
(* the one whose first row is nearest to the goal.                         *)
FirstValidCommand(candidates, order, most, goal) ==
  LET usable == {k \in DOMAIN candidates : Usable(candidates[k], order, most) # {}}
      Command(k) == CHOOSE c \in Usable(candidates[k], order, most) : TRUE
      Error(k) == MaxJointError(Command(k).rows[1], goal)
      Nearer(k, l) == \E e \in Error(k), f \in Error(l) : e < f \/ (e = f /\ k <= l)
      best == IF goal = <<>> THEN {k \in usable : \A l \in usable : k <= l}
              ELSE {k \in usable : \A l \in usable : Error(k) # {} /\ (Error(l) = {} \/ Nearer(k, l))}
  IN  {Command(k) : k \in best}

(* _get_command_speed_scale in percent, _scale_stream_command.             *)
SpeedScale(raw) == IF raw < 0 THEN 0 ELSE IF raw > 100 THEN 100 ELSE raw
ScaleStreamCommand(current, command, order, raw) ==
  LET byName == ByName(current.names, current.values)
      scale  == SpeedScale(raw)
      Toward(from, to) == from + (scale * (to - from)) \div 100
  IN  IF scale = 100 \/ Lacks(byName, order) THEN command
      ELSE [rows |-> [r \in DOMAIN command.rows |->
                        [i \in DOMAIN order |-> Toward(byName[order[i]], command.rows[r][i])]],
            velocities |-> [r \in DOMAIN command.velocities |->
                              [i \in DOMAIN command.velocities[r] |-> (scale * command.velocities[r][i]) \div 100]]]

(* publish_mpc_stream_position: a list without names.                      *)
PublishStream(names, values, order) ==
  IF names # order \/ Len(values) # Len(order) \/ \E i \in DOMAIN values : values[i] = NotFinite
  THEN {} ELSE {values}

(* build_joint_trajectory: the last point is at rest.                      *)
JointTrajectory(order, command, dt) ==
  [names  |-> order,
   points |-> [r \in DOMAIN command.rows |->
                 [values |-> command.rows[r], at |-> r * (IF dt < 1 THEN 1 ELSE dt),
                  velocities |-> IF r = Len(command.rows) THEN Zeros(command.rows[r]) ELSE command.velocities[r]]]]

-----------------------------------------------------------------------------
(* The arc tangent of a difference of angles: from minus half a turn to    *)
(* half a turn.                                                            *)
Wrapped(angle) ==
  LET rest == ((angle + Half) % FullTurn) - Half
  IN  IF rest = -Half /\ angle > 0 THEN Half ELSE rest

(* nearest_equivalent_joint_position, normalize_periodic_joint_targets.    *)
(* Mutant of NearestEquivalent: the difference has the other sign.         *)
NearestEquivalentReversed(periodic, goal, reference) ==
  IF periodic THEN reference + Wrapped(reference - goal) ELSE goal
NearestEquivalent(periodic, goal, reference) ==
  IF periodic THEN reference + Wrapped(goal - reference) ELSE goal
NormalizeTargets(goals, current, periodic) ==
  [n \in DOMAIN goals |-> IF n \in DOMAIN current
                          THEN NearestEquivalent(n \in periodic, goals[n], current[n]) ELSE goals[n]]

(* build_joint_goal: where it starts, and the constraints, one per joint.  *)
KnownNames(order, known) ==
  LET names[i \in 0 .. Len(order)] ==
        IF i = 0 THEN <<>>
        ELSE IF order[i] \in known THEN Append(names[i - 1], order[i]) ELSE names[i - 1]
  IN  names
JointGoal(goals, current, periodic, order, normalize) ==
  LET wanted == IF normalize THEN NormalizeTargets(goals, current, periodic) ELSE goals
      names  == KnownNames(order, DOMAIN current)[Len(order)]
  IN  [start |-> State(names, InOrder(current, names), <<>>), constraints |-> InOrder(wanted, order)]

(* _nearest_equivalent_angle: one turn at most; a tie keeps the earlier.   *)
NearestAngle(goal, current) ==
  LET Gap(angle) == Abs(angle - current)
      Better(best, angle) == IF Gap(angle) < Gap(best) THEN angle ELSE best
  IN  Better(Better(goal, goal - FullTurn), goal + FullTurn)

(* _build_home_joint_target: latest has at most one snapshot.              *)
HomeTarget(home, latest, periodic) ==
  [n \in DOMAIN home |-> IF n \in periodic /\ \E now \in latest : n \in DOMAIN now
                         THEN NearestAngle(home[n], (CHOOSE now \in latest : TRUE)[n]) ELSE home[n]]

(* _equivalent_joint_candidates: those within a turn of zero, the nearest  *)
(* first.                                                                  *)
EquivalentAngles(goal, current) ==
  LET within == {angle \in {goal, goal - FullTurn, goal + FullTurn} : Abs(angle) <= FullTurn}
      Gap(angle)  == Abs(angle - current)
      Rank(angle) == IF angle = goal THEN 1 ELSE IF angle = goal - FullTurn THEN 2 ELSE 3
      Sooner(a, b) == Gap(a) < Gap(b) \/ (Gap(a) = Gap(b) /\ Rank(a) < Rank(b))
      Nearest(S) == CHOOSE a \in S : \A b \in S \ {a} : Sooner(a, b)
      Rest(S) == S \ {Nearest(S)}
  IN  IF within = {} THEN <<goal>>
      ELSE IF Rest(within) = {} THEN <<Nearest(within)>>
      ELSE IF Rest(Rest(within)) = {} THEN <<Nearest(within), Nearest(Rest(within))>>
      ELSE <<Nearest(within), Nearest(Rest(within)), Nearest(Rest(Rest(within)))>>

(* _build_home_joint_target_candidates: the nearest target, home itself,   *)
(* the nearest with one joint turned, and the first combinations of all    *)
(* turned joints; they are tried from the nearest on.                      *)
SumOf(target, now) ==
  LET Gap(n) == IF n \in DOMAIN now THEN Abs(target[n] - now[n]) ELSE 0
      sum[S \in SUBSET DOMAIN target] ==
        IF S = {} THEN 0 ELSE LET n == CHOOSE n \in S : TRUE IN Gap(n) + sum[S \ {n}]
  IN  sum
Distance(target, now) == SumOf(target, now)[DOMAIN target]
HomeCandidates(home, now, turned, most) ==
  LET joints == {k \in DOMAIN turned : turned[k] \in DOMAIN now /\ turned[k] \in DOMAIN home}
      Angles(k) == EquivalentAngles(home[turned[k]], now[turned[k]])
      With(target, choice) ==
        [n \in DOMAIN home |-> IF \E k \in DOMAIN choice : turned[k] = n
                               THEN LET j == CHOOSE k \in DOMAIN choice : turned[k] = n IN Angles(j)[choice[j]]
                               ELSE target[n]]
      nearest == With(home, [k \in joints |-> 1])
      single == UNION {{With(nearest, [j \in {k} |-> a]) : a \in DOMAIN Angles(k) \ {1}} : k \in joints}
      choices == {c \in [joints -> 1 .. 3] : \A k \in joints : c[k] \in DOMAIN Angles(k)}
      Before(c, d) == \E k \in joints : c[k] < d[k] /\ \A j \in joints : j < k => c[j] = d[j]
  IN  {nearest, home} \cup single
        \cup {With(home, c) : c \in {c \in choices : Cardinality({d \in choices : Before(d, c)}) < most}}

(* _wait_for_recent_joint_positions, when the wait is over: MoveIt's joint *)
(* positions, or the driver's; if none are recent, the old ones.           *)
RecentPositions(moveit, raw, mostAge) ==
  IF moveit.positions # {} /\ moveit.age <= mostAge THEN moveit.positions
  ELSE IF raw.positions # {} /\ raw.age <= mostAge THEN raw.positions
  ELSE IF moveit.positions # {} THEN moveit.positions ELSE raw.positions

(* _verify_home_joint_result_warn_only: the joints that are not at home.   *)
WrappedError(goal, measured) == Abs(((measured - goal + Half) % FullTurn) - Half)
HomeMismatch(home, measured, linear, tolerance) ==
  {n \in DOMAIN home \cap DOMAIN measured :
     (IF n \in linear THEN Abs(measured[n] - home[n]) ELSE WrappedError(home[n], measured[n])) > tolerance}
=============================================================================
