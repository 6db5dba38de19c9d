--------------------------------- MODULE Space ---------------------------------
(***************************************************************************)
(* Points with integer coordinates, and poses: a place and a quarter turn  *)
(* about the vertical axis.                                                *)
(***************************************************************************)
EXTENDS Integers

Axes == 1 .. 3
Origin == <<0, 0, 0>>
Plus(p, q) == <<p[1] + q[1], p[2] + q[2], p[3] + q[3]>>
Minus(p, q) == <<p[1] - q[1], p[2] - q[2], p[3] - q[3]>>
Times(n, p) == <<n * p[1], n * p[2], n * p[3]>>

Square(n) == n * n
SquaredDistance(p, q) == Square(p[1] - q[1]) + Square(p[2] - q[2]) + Square(p[3] - q[3])
Least(S) == CHOOSE n \in S : \A m \in S : n <= m
Greatest(S) == CHOOSE n \in S : \A m \in S : n >= m

(* rotate_vector: what a quaternion does to a point.                       *)
Turn(quat, p) ==
  CASE quat = 0 -> p
    [] quat = 1 -> <<-p[2], p[1], p[3]>>
    [] quat = 2 -> <<-p[1], -p[2], p[3]>>
    [] quat = 3 -> <<p[2], -p[1], p[3]>>
(* quat_to_rotation_matrix, transposed: the turn back.                     *)
TurnBack(quat, p) == Turn((4 - quat) % 4, p)

Identity == [at |-> Origin, quat |-> 0]
Placed(frame, p) == Plus(frame.at, Turn(frame.quat, p))

(* compose_pose_tuples                                                     *)
Compose(parent, child) == [at |-> Placed(parent, child.at), quat |-> (parent.quat + child.quat) % 4]
=============================================================================
