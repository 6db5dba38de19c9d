--------------------------- MODULE AttachmentSpheres ---------------------------
(***************************************************************************)
(* The spheres that stand for a carried object on the robot of cuRobo and  *)
(* of cuMotion: collision shapes from the scene or a URDF, a grid of       *)
(* spheres in each of them, a finer one while they are too few, a stride   *)
(* through them when they are too many (sphere_builder.py,                 *)
(* cumotion_attachment_ops.py, curobo_object_tracking.py).                 *)
(*                                                                         *)
(* Lengths of objects are integers. A sphere has a centre and a radius     *)
(* that are fractions: both count in parts of the unit, "den" of them make *)
(* one, and "squared" is the square of the radius, without the inflation   *)
(* that is added to the radius of each.                                    *)
(***************************************************************************)
EXTENDS Space, Sequences

CONSTANT DiameterFloor   \* 5 mm
ASSUME FloorAssumption == DiameterFloor \in Nat

Ceiling(n, d) == (n + d - 1) \div d
Larger(m, n) == IF m >= n THEN m ELSE n

(* The lists one after the other.                                          *)
Joined(lists) ==
  LET joined[i \in 0 .. Len(lists)] == IF i = 0 THEN <<>> ELSE joined[i - 1] \o lists[i]
  IN  joined[Len(lists)]

-----------------------------------------------------------------------------
(* cap_grid_counts: the longest axis gives way first.                      *)
Cells(counts) == counts[1] * counts[2] * counts[3]
Together(counts) == counts[1] + counts[2] + counts[3]
Longest(c) == CHOOSE a \in Axes : \A b \in Axes : c[a] > c[b] \/ (c[a] = c[b] /\ a <= b)
CapGridCounts(counts, cap) ==
  LET capped[i \in 0 .. Together(counts)] ==
        IF i = 0 THEN counts
        ELSE LET c == capped[i - 1]
             IN  IF Cells(c) <= cap THEN c ELSE [c EXCEPT ![Longest(c)] = @ - 1]
  IN  capped[Together(counts)]

(* The counts along the axes, _preclamp_budget included.                   *)
Budget(maximum) == Larger(64, 6 * Larger(1, maximum))
GridCounts(extents, target, maximum) ==
  CapGridCounts([a \in Axes |-> Larger(1, Ceiling(extents[a] * target.den, target.num))], Budget(maximum))

(* axis_centers: where the i-th of n cells lies, in halves of a cell from  *)
(* the middle; the cells of a grid, the last axis changing fastest.        *)
AxisCenter(n, i) == 2 * i + 1 - n
Centers(n) ==
  [m \in 1 .. Cells(n) |-> <<AxisCenter(n[1], (m - 1) \div (n[2] * n[3])),
                             AxisCenter(n[2], ((m - 1) \div n[3]) % n[2]),
                             AxisCenter(n[3], (m - 1) % n[3])>>]
(* Half of a cell along each axis, when 2 * Cells(n) parts make a unit.    *)
HalfCell(extents, n) == <<extents[1] * (n[2] * n[3]), extents[2] * (n[1] * n[3]), extents[3] * (n[1] * n[2])>>

Stretch(c, by) == <<c[1] * by[1], c[2] * by[2], c[3] * by[3]>>
Ball(center, parts, squaredRadius) == [at |-> center, den |-> parts, squared |-> squaredRadius]
Spheres(centers, extents, n, squaredRadius) ==
  [m \in DOMAIN centers |-> Ball(Stretch(centers[m], HalfCell(extents, n)), 2 * Cells(n), squaredRadius)]
Diagonal(extents, n) == SquaredDistance(HalfCell(extents, n), Origin)
OrOne(balls, ball) == IF balls = <<>> THEN <<ball>> ELSE balls

(* Mutant of BoxGrid: the sphere is the one inscribed in its cell.         *)
BoxGridInscribed(size, n) ==
  Spheres(Centers(n), size, n, Square(Least({HalfCell(size, n)[a] : a \in Axes})))
BoxGrid(size, n) == Spheres(Centers(n), size, n, Diagonal(size, n))
BuildBox(size, target, maximum) == BoxGrid(size, GridCounts(size, target, maximum))

(* Is a root of one square plus a root of another at most r? A centre on   *)
(* the axis always counts, the limit being no less than 0.                 *)
Inscribed(square, half, r) ==
  \/ square = 0
  \/ /\ square + half <= r * r
     /\ 4 * (square * half) <= Square(r * r - square - half)

(* The cells that are in the shape; the radius of the shape is the unit of *)
(* what is compared, so that it drops out.                                 *)
CylinderGrid(height, r, n) ==
  LET extents == <<2 * r, 2 * r, height>>
      Across(c) == Square(c[1] * n[2]) + Square(c[2] * n[1])
      cells == Centers(n)
      kept == Joined([m \in DOMAIN cells |->
                IF Inscribed(Across(cells[m]), Square(n[1]) + Square(n[2]), n[1] * n[2])
                THEN <<cells[m]>> ELSE <<>>])
  IN  OrOne(Spheres(kept, extents, n, Diagonal(extents, n)),
            Ball(Origin, 2, Square(Larger(2 * r, height))))
BuildCylinder(height, r, target, maximum) ==
  CylinderGrid(height, r, GridCounts(<<2 * r, 2 * r, height>>, target, maximum))

(* A cube of n cells along each axis: half a cell is a part of the radius. *)
SphereCells(r, n, cells) ==
  [m \in DOMAIN cells |-> Ball(Times(r, cells[m]), n, 3 * Square(r))]
(* Mutant of SphereGrid: a centre counts when it is in the sphere itself.  *)
SphereGridProtruding(r, n) ==
  LET cells == Centers(<<n, n, n>>)
      kept == Joined([m \in DOMAIN cells |->
                IF SquaredDistance(cells[m], Origin) <= n * n THEN <<cells[m]>> ELSE <<>>])
  IN  IF n = 1 \/ 3 >= n * n THEN <<Ball(Origin, 1, r * r)>>
      ELSE OrOne(SphereCells(r, n, kept), Ball(Origin, 1, r * r))
SphereGrid(r, n) ==
  LET cells == Centers(<<n, n, n>>)
      kept == Joined([m \in DOMAIN cells |->
                IF Inscribed(SquaredDistance(cells[m], Origin), 3, n) THEN <<cells[m]>> ELSE <<>>])
  IN  IF n = 1 \/ 3 >= n * n THEN <<Ball(Origin, 1, r * r)>>
      ELSE OrOne(SphereCells(r, n, kept), Ball(Origin, 1, r * r))
BuildSphere(r, target, maximum) ==
  SphereGrid(r, GridCounts(<<2 * r, 2 * r, 2 * r>>, target, maximum)[1])

-----------------------------------------------------------------------------
(* A shape of the scene or of a URDF has a type, its dimensions or its     *)
(* vertices, and a pose. What cannot be read gives no specification.       *)
Shape(type, dimensions, place) == [type |-> type, dimensions |-> dimensions, pose |-> place]

(* _mesh_aabb, _mesh_to_box_spec: a mesh is the box around its vertices,   *)
(* its middle cut to whole units.                                          *)
MeshBox(vertices, place) ==
  LET low  == [a \in Axes |-> Least({v[a] : v \in vertices})]
      high == [a \in Axes |-> Greatest({v[a] : v \in vertices})]
      Middle(a) == (low[a] + high[a]) \div 2
  IN  Shape("box", Minus(high, low),
            Compose(place, [at |-> <<Middle(1), Middle(2), Middle(3)>>, quat |-> 0]))

Primitives == {"box", "cylinder", "sphere"}
DimensionsOf(type) == CASE type = "box" -> 3 [] type = "cylinder" -> 2 [] type = "sphere" -> 1

(* _collision_specs_from_world_snapshot: the primitives, then the meshes.  *)
(* A shape without a pose is at the origin of the object.                  *)
PoseOf(part) == IF part.posed THEN part.pose ELSE Identity
SpecsFromSnapshot(snapshot) ==
  LET Primitive(s) == IF s.type \in Primitives /\ Len(s.dimensions) >= DimensionsOf(s.type)
                      THEN <<Shape(s.type, s.dimensions, PoseOf(s))>> ELSE <<>>
      Mesh(s) == IF s.type = "mesh" /\ s.vertices # {} THEN <<MeshBox(s.vertices, PoseOf(s))>> ELSE <<>>
  IN  Joined([i \in DOMAIN snapshot |-> Primitive(snapshot[i])])
      \o Joined([i \in DOMAIN snapshot |-> Mesh(snapshot[i])])

(* load_collision_specs_from_urdf: in the order of the file.               *)
SpecsFromUrdf(file) ==
  LET Read(s) == CASE s.readable /\ s.type = "mesh" -> <<MeshBox(s.vertices, s.pose)>>
                   [] s.readable /\ s.type \in Primitives -> <<Shape(s.type, s.dimensions, s.pose)>>
                   [] OTHER -> <<>>
  IN  IF file.parses THEN Joined([i \in DOMAIN file.shapes |-> Read(file.shapes[i])]) ELSE <<>>

-----------------------------------------------------------------------------
(* transform_spheres_to_frame                                              *)
ToFrame(place, local) ==
  [m \in DOMAIN local |->
     LET ball == local[m]
     IN  Ball(Plus(Times(ball.den, place.at), Turn(place.quat, ball.at)), ball.den, ball.squared)]

(* _build_once                                                             *)
LocalSpheres(s, target, maximum) ==
  CASE s.type = "box" -> BuildBox(s.dimensions, target, maximum)
    [] s.type = "cylinder" -> BuildCylinder(s.dimensions[1], s.dimensions[2], target, maximum)
    [] s.type = "sphere" -> BuildSphere(s.dimensions[1], target, maximum)
BuildOnce(specs, object, target, maximum) ==
  Joined([i \in DOMAIN specs |->
            ToFrame(Compose(object, specs[i].pose), LocalSpheres(specs[i], target, maximum))])

(* Mutant of Downsample: one more than was asked for.                      *)
DownsampleOneMore(balls, count) ==
  IF Len(balls) <= count THEN balls
  ELSE [i \in 1 .. count + 1 |-> balls[1 + ((i - 1) * Len(balls)) \div (count + 1)]]
(* downsample_spheres: a stride through the list.                          *)
Downsample(balls, count) ==
  IF Len(balls) <= count THEN balls
  ELSE [i \in 1 .. count |-> balls[1 + ((i - 1) * Len(balls)) \div count]]

(* build_attachment_spheres: at most six tries, each aiming at spheres of  *)
(* 0.7 times the diameter of those before.                                 *)
Aim(diameter, k) ==
  LET aim[j \in 0 .. 5] == IF j = 0 THEN [num |-> diameter, den |-> 1]
                           ELSE [num |-> 7 * aim[j - 1].num, den |-> 10 * aim[j - 1].den]
  IN  aim[k]
FirstEnough(attempts, diameter, least) ==
  LET floor == IF diameter < DiameterFloor THEN diameter ELSE DiameterFloor
      Enough(k) == Len(attempts[k]) >= least \/ Aim(diameter, k).num <= floor * Aim(diameter, k).den
  IN  attempts[Greatest({k \in 0 .. 5 : \A j \in 0 .. k - 1 : ~ Enough(j)})]
BuildAttachmentSpheres(specs, object, diameter, minimum, maximum) ==
  LET least == Larger(1, minimum)
      most  == Larger(least, maximum)
      attempts == [k \in 0 .. 5 |-> BuildOnce(specs, object, Aim(diameter, k), most)]
  IN  Downsample(FirstEnough(attempts, diameter, least), most)

(* _build_target_object_attachment_spheres for cuMotion: nothing without a *)
(* shape; _build_sphere_data for cuRobo: then a single sphere.             *)
CumotionSpheres(snapshot, object, diameter, minimum, maximum) ==
  BuildAttachmentSpheres(SpecsFromSnapshot(snapshot), object, diameter, minimum, maximum)
TrackerSpheres(file, object, diameter, minimum, maximum) ==
  OrOne(BuildAttachmentSpheres(SpecsFromUrdf(file), object, diameter, minimum, maximum),
        Ball(Times(2, object.at), 2, Square(diameter)))

-----------------------------------------------------------------------------
(* What the properties say of spheres.                                     *)
(* Is a point, in the frame of the gripper, in a shape?                    *)
InShape(p, spec, object) ==
  LET place == Compose(object, spec.pose)
      q == TurnBack(place.quat, Minus(p.at, Times(p.den, place.at)))
  IN  CASE spec.type = "box" -> \A a \in Axes : 2 * Larger(q[a], -q[a]) <= p.den * spec.dimensions[a]
        [] spec.type = "cylinder" -> /\ Square(q[1]) + Square(q[2]) <= Square(p.den * spec.dimensions[2])
                                     /\ 2 * Larger(q[3], -q[3]) <= p.den * spec.dimensions[1]
        [] spec.type = "sphere" -> SquaredDistance(q, Origin) <= Square(p.den * spec.dimensions[1])

(* Does a sphere lie in a round shape?                                     *)
Fits(ball, spec, object) ==
  LET r == ball.den * spec.dimensions[1]
      middle == Compose(object, spec.pose).at
  IN  /\ ball.squared <= r * r
      /\ Inscribed(SquaredDistance(ball.at, Times(ball.den, middle)), ball.squared, r)

CoveredBy(balls, p) ==
  \E m \in DOMAIN balls :
    SquaredDistance(Times(balls[m].den, p.at), Times(p.den, balls[m].at)) <= Square(p.den) * balls[m].squared

(* Points of a box: its corners, and those that quarter its edges.         *)
BoxPoints(spec, object) ==
  LET place == Compose(object, spec.pose)
  IN  {[at |-> Plus(Times(4, place.at), Turn(place.quat, Stretch(c, spec.dimensions))), den |-> 4] :
         c \in (-2 .. 2) \X (-2 .. 2) \X (-2 .. 2)}
=============================================================================
