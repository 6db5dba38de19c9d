-------------------------- MODULE MCHybridExecution --------------------------
(* A motion on a path of three waypoints, and the joint values of its      *)
(* commands: three joints, of which the last turns without end, that are   *)
(* named in any order and together with another joint.                     *)
EXTENDS HybridExecution, JointOrder

Wanted == <<"lift", "elbow", "wrist">>
Angle == [gripper |-> 9, lift |-> 1, elbow |-> 4, wrist |-> -3]
Reports == {[names |-> names, values |-> [i \in DOMAIN names |-> Angle[names[i]]],
             velocities |-> velocities] :
              names \in {s \in [1 .. 3 -> DOMAIN Angle] \cup [1 .. 4 -> DOMAIN Angle] :
                           \A i, j \in DOMAIN s : s[i] = s[j] => i = j},
              velocities \in {<<>>, <<0, 0, 0>>, <<5, 6, 7, 8>>}}

(* Every vector of joint values that the planner makes of a report is the  *)
(* report's, joint by joint, in the order of its names.                    *)
Tells(state) == \A i \in DOMAIN state.names : state.values[i] = Angle[state.names[i]]
ReadingsAreOrdered ==
  \A report \in Reports :
    /\ \A state \in LiveJointState({report}, Wanted) : state.names = Wanted /\ Tells(state)
    /\ \A state \in OrderedDict(report, Wanted) : Tells(state)
    /\ OrderedDict(report, <<>>) # {}
    /\ LiveJointState({report}, Wanted) # {} =>
         ReorderPositions(report.names, report.values, Wanted) = [i \in 1 .. 3 |-> Angle[Wanted[i]]]

(* What MPC solves: two candidates, in the order of cuRobo; a velocity or  *)
(* a position may not be a number.                                         *)
Candidates == {[names |-> names, rows |-> <<[i \in 1 .. 3 |-> shift + Angle[names[i]]], <<0, 0, last>>>>,
               velocities |-> <<speed>>] :
                names \in {Wanted, <<"wrist", "lift", "elbow">>, <<"elbow", "wrist", "gripper">>},
                shift \in {0, 2}, last \in {0, NotFinite},
                speed \in {<<1, 1, 1>>, <<1, NotFinite, 1>>}}
Now == [names |-> <<"wrist", "elbow", "lift">>, values |-> <<-3, 4, 1>>]

(* What is streamed to the controller goes from where a joint is toward    *)
(* where a solution wants this joint, and no farther.                      *)
CommandsAreOrdered ==
  \A first \in Candidates, second \in {{}} \cup {{s} : s \in Candidates} :
    \A goal \in {<<>>, <<3, 6, -1>>}, most \in 1 .. 2, raw \in {-1, 50, 100} :
      \A command \in FirstValidCommand(<<{first}, second>>, Wanted, most, goal) :
        LET scaled == ScaleStreamCommand(Now, command, Wanted, raw)
        IN  /\ PublishStream(Wanted, scaled.rows[1], Wanted) = {scaled.rows[1]}
            /\ \A r \in DOMAIN command.rows : AreFinite(<<command.rows[r], command.velocities[r]>>)
            /\ LET points == JointTrajectory(Wanted, command, 0).points
                   last == Highest(DOMAIN points)
               IN  /\ points[last].velocities = <<0, 0, 0>>
                   /\ \A r, q \in DOMAIN points : r < q => points[r].at < points[q].at
            /\ \E solution \in {first} \cup second : \A i \in 1 .. 3 : \E k \in 1 .. 3 :
                 /\ solution.names[k] = Wanted[i]
                 /\ scaled.rows[1][i] \in Angle[Wanted[i]] .. solution.rows[1][k]

Positions == {-FullTurn, -7, 0, 5, FullTurn - 1}
Homes == {[lift |-> 3, elbow |-> e, wrist |-> w] : e \in {-6, 0, FullTurn}, w \in {-5, 12}}
(* A target for home, or for a motion, is the one that was asked for but   *)
(* for whole turns of the joints that can turn; the nearest is tried.      *)
HomeIsHome ==
  \A home \in Homes, e, w \in Positions :
    LET now == [lift |-> 1, elbow |-> e, wrist |-> w]
        turned == <<"elbow", "wrist">>
        candidates == HomeCandidates(home, now, turned, 3)
        asked == JointGoal(home, now, {"wrist"}, Wanted, TRUE)
        goal == ByName(Wanted, asked.constraints)
    IN  /\ \A c \in candidates \cup {HomeTarget(home, {now}, {"wrist"})} :
             HomeMismatch(home, c, {"lift"}, 0) = {}
        /\ \E c \in candidates : \A t, u \in {-FullTurn, 0, FullTurn} :
             LET other == [home EXCEPT !.elbow = @ + t, !.wrist = @ + u]
             IN  Distance(c, now) > Distance(other, now) =>
                   ~ {other.elbow, other.wrist} \subseteq -FullTurn .. FullTurn
        /\ HomeMismatch(home, goal, {"lift", "elbow"}, 0) = {}
        /\ Distance([wrist |-> goal.wrist], now) <= FullTurn \div 2
        /\ ByName(asked.start.names, asked.start.values) = now

(* Old positions are used only when there are no recent ones.              *)
RecentComeFirst ==
  \A moveit, raw \in [positions : {{}, {Now.values}}, age : {0, 9}] :
    LET recent == {s \in {moveit, raw} : s.positions # {} /\ s.age <= 5}
    IN  /\ recent # {} => \E s \in recent : RecentPositions(moveit, raw, 5) = s.positions
        /\ (RecentPositions(moveit, raw, 5) = {}) = (moveit.positions = {} /\ raw.positions = {})

JointsAreNotMixed == ReadingsAreOrdered /\ CommandsAreOrdered /\ HomeIsHome /\ RecentComeFirst

(* A command of MPC reaches the joint it was computed for: whatever the    *)
(* order of the joints in a report and in a solution.                      *)
CommandsReachTheirJoints == answer.kind = "command" => JointsAreNotMixed
=============================================================================
