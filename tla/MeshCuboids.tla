------------------------------ MODULE MeshCuboids ------------------------------
(***************************************************************************)
(* The cuboids that stand for a mesh in the planner's world: the mesh is   *)
(* voxelized, blocks of voxels are merged into larger cubes, and the cubes *)
(* are moved and removed with the mesh (MeshBloxilization and              *)
(* ObstacleManager in obstacle_manager.py).                                *)
(*                                                                         *)
(* Space is a lattice of cells two units wide; a solid is the set of the   *)
(* centres of its cells, whose coordinates are odd. A voxel is an odd      *)
(* number of cells wide, so that its centre is the centre of a cell. Turns *)
(* are quarter turns about the vertical axis.                              *)
(***************************************************************************)
EXTENDS Space, Sequences, FiniteSets, SequencesExt

-----------------------------------------------------------------------------
(* ensure_power_of_two_dims                                                *)
PowerOfTwo(n) == CHOOSE m \in {1, 2, 4, 8, 16, 32} : m >= n /\ m < 2 * n

(* build_dense_grid: as many voxels as cover the bounding box, and on to   *)
(* powers of two.                                                          *)
DenseGrid(solid, voxel) ==
  LET low  == [a \in Axes |-> Least({p[a] : p \in solid}) - 1]
      high == [a \in Axes |-> Greatest({p[a] : p \in solid}) + 1]
  IN  [low |-> low,
       shape |-> [a \in Axes |-> PowerOfTwo((high[a] - low[a] + 2 * voxel - 1) \div (2 * voxel))]]

Indices(shape) ==
  (0 .. shape[1] - 1) \X (0 .. shape[2] - 1) \X (0 .. shape[3] - 1)

(* compute_occupancy: the voxels whose centre is in the mesh.              *)
Occupancy(solid, grid, voxel) ==
  {i \in Indices(grid.shape) :
     [a \in Axes |-> grid.low[a] + 2 * voxel * i[a] + voxel] \in solid}

(* The voxels under one index of a level whose cubes are factor wide.      *)
Block(i, factor) ==
  {Plus(Times(factor, i), d) : d \in Indices([a \in Axes |-> factor])}

(* Mutant of MergeLevel: a block of eight is taken when any is occupied.   *)
MergeLevelAny(level, shape) ==
  {i \in Indices([a \in Axes |-> shape[a] \div 2]) : Block(i, 2) \cap level # {}}
MergeLevel(level, shape) ==
  {i \in Indices([a \in Axes |-> shape[a] \div 2]) : Block(i, 2) \subseteq level}

(* build_levels: until a dimension is odd or nothing can be merged.        *)
ShapeAt(shape, n) == [a \in Axes |-> shape[a] \div 2 ^ n]
Merged(occupied, shape) ==
  LET level[n \in 0 .. 5] ==
        IF n = 0 THEN occupied ELSE MergeLevel(level[n - 1], ShapeAt(shape, n - 1))
  IN  level
BuildLevels(occupied, shape) ==
  LET level == Merged(occupied, shape)
      Built(n) == \A i \in 1 .. n : level[i] # {} /\ \A a \in Axes : ShapeAt(shape, i - 1)[a] % 2 = 0
  IN  [n \in 1 .. 1 + Greatest({i \in 0 .. 5 : Built(i)}) |-> level[n - 1]]

(* extract_cubes: from the largest to the smallest, what no larger cube    *)
(* covers. Cubes of one level do not overlap, so their order is free; one  *)
(* that is left out is covered, so all larger ones cover what those that   *)
(* are taken cover.                                                        *)
Covered(levels, n) == UNION {Block(i, 2 ^ (n - 1)) : i \in levels[n]}
CubesOf(levels, n) ==
  LET larger == UNION {Covered(levels, m) : m \in n + 1 .. Len(levels)}
  IN  {[corner |-> Times(2 ^ (n - 1), i), size |-> 2 ^ (n - 1)] :
         i \in {i \in levels[n] : ~ Block(i, 2 ^ (n - 1)) \subseteq larger}}
ExtractCubes(levels) == UNION {CubesOf(levels, n) : n \in DOMAIN levels}

(* pipeline: the mesh is scaled (which makes a mesh of it), turned about   *)
(* its centre, the mean of its vertices, and translated.                   *)
Pipeline(mesh, pose, voxel) ==
  LET solid == {Plus(pose.at, Plus(mesh.centre, Turn(pose.quat, Minus(p, mesh.centre)))) :
                  p \in mesh.solid}
      grid  == DenseGrid(solid, voxel)
  IN  {[corner |-> Plus(grid.low, Times(2 * voxel, c.corner)), size |-> 2 * voxel * c.size] :
         c \in ExtractCubes(BuildLevels(Occupancy(solid, grid, voxel), grid.shape))}

-----------------------------------------------------------------------------
(* The lists of the manager. A cuboid derived from a mesh has a name of    *)
(* its own; the offset of its centre is kept in the frame of the mesh.     *)
EmptyStore == [mesh |-> {}, cuboid |-> {}, names |-> {}, offsets |-> {}]

(* add_object of a box, or of what is turned into one.                     *)
AddCuboid(store, name, pose) ==
  [store EXCEPT !.cuboid = @ \cup {[name |-> <<name>>, at |-> pose.at, quat |-> pose.quat, size |-> 2]},
                !.names = @ \cup {<<name>>}]

(* add_object of a mesh: its cuboids are aligned with the world.           *)
AddMesh(store, name, mesh, pose, voxel) ==
  LET Name(cube) == <<name, cube.corner>>
      Centre(cube) == Plus(cube.corner, [a \in Axes |-> cube.size \div 2])
      cubes == Pipeline(mesh, pose, voxel)
  IN  [mesh    |-> store.mesh \cup {[name |-> <<name>>, pose |-> pose]},
       cuboid  |-> store.cuboid \cup
                     {[name |-> Name(c), at |-> Centre(c), quat |-> 0, size |-> c.size] : c \in cubes},
       names   |-> store.names \cup {<<name>>} \cup {Name(c) : c \in cubes},
       offsets |-> store.offsets \cup
                     {[mesh |-> <<name>>, name |-> Name(c),
                       offset |-> TurnBack(pose.quat, Minus(Centre(c), pose.at))] : c \in cubes}]

(* The first checks of add_object, for a mesh.                             *)
AddObject(store, name, mesh, pose, voxel) ==
  IF <<name>> \in store.names THEN store ELSE AddMesh(store, name, mesh, pose, voxel)

(* get_obstacles                                                           *)
GetObstacles(store) == store.names

(* get_object: the list in which a name is found first.                    *)
ListOf(store, name) ==
  IF \E b \in store.cuboid : b.name = name THEN "cuboid"
  ELSE IF \E m \in store.mesh : m.name = name THEN "mesh" ELSE "none"

(* Mutant of DerivedCentre: the offset is not turned with the mesh.        *)
DerivedCentreUnturned(offset, pose) == Plus(pose.at, offset)
DerivedCentre(offset, pose) == Plus(pose.at, Turn(pose.quat, offset))

(* _update_mesh_derived_cuboids: they follow the mesh and turn with it.    *)
UpdateDerived(store, name, pose) ==
  LET own == {o \in store.offsets : o.mesh = name}
      Moved(b) == [b EXCEPT !.at = DerivedCentre((CHOOSE o \in own : o.name = b.name).offset, pose),
                            !.quat = pose.quat]
  IN  [store EXCEPT !.cuboid = {IF \E o \in own : o.name = b.name THEN Moved(b) ELSE b : b \in @}]

(* update_object_poses of one name                                         *)
UpdatePose(store, name, pose) ==
  CASE ListOf(store, name) = "none" -> store
    [] ListOf(store, name) = "cuboid" ->
         [store EXCEPT !.cuboid =
            {IF b.name = name THEN [b EXCEPT !.at = pose.at, !.quat = pose.quat] ELSE b : b \in @}]
    [] ListOf(store, name) = "mesh" ->
         UpdateDerived([store EXCEPT !.mesh = {IF m.name = name THEN [m EXCEPT !.pose = pose] ELSE m : m \in @}],
                       name, pose)

(* remove_object: the derived cuboids go with their mesh.                  *)
RemoveObject(store, name) ==
  LET derived == {o.name : o \in {o \in store.offsets : o.mesh = name}}
      isMesh == \E m \in store.mesh : m.name = name
  IN  [mesh    |-> {m \in store.mesh : m.name # name},
       cuboid  |-> {b \in store.cuboid : b.name \notin derived /\ (isMesh \/ b.name # name)},
       names   |-> store.names \ (derived \cup {name}),
       offsets |-> {o \in store.offsets : o.mesh # name}]

-----------------------------------------------------------------------------
(* What the properties say of a store.                                     *)
PlacedSolid(solid, pose) == {Placed(pose, p) : p \in solid}

(* The cells of a cuboid, a cube that has made quarter turns.              *)
CellsOf(b) ==
  LET reach == b.size \div 2
      Along(a) == {n \in b.at[a] - reach .. b.at[a] + reach : (n - b.at[a] + reach) % 2 = 1}
  IN  Along(1) \X Along(2) \X Along(3)

Derived(store, name) == {b \in store.cuboid : Len(b.name) = 2 /\ b.name[1] = name}
Filled(store, name) == UNION {CellsOf(b) : b \in Derived(store, name)}
Disjoint(cuboids) == \A b, c \in cuboids : b = c \/ CellsOf(b) \cap CellsOf(c) = {}

(* The cuboids of a mesh fill it, without overlap, and still do when it is *)
(* moved; all that is listed is found; a removed mesh leaves nothing.      *)
CuboidsFollow(store, name, mesh, from, to) ==
  LET added == AddObject(store, name, mesh, from, 1)
      moved == UpdatePose(added, <<name>>, to)
  IN  /\ from.quat = 0 \/ mesh.centre = Origin => Filled(moved, name) = PlacedSolid(mesh.solid, to)
      /\ Disjoint(Derived(added, name))
      /\ \A n \in GetObstacles(moved) : ListOf(moved, n) # "none"
      /\ RemoveObject(moved, <<name>>) = store
=============================================================================
