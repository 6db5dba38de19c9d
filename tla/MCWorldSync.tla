----------------------------- MODULE MCWorldSync -----------------------------
(***************************************************************************)
(* WorldSync for TLC, and the cuboids of the meshes its contents are made  *)
(* of.                                                                     *)
(***************************************************************************)
EXTENDS WorldSync, MeshCuboids

-----------------------------------------------------------------------------
(* Meshes: any part of a cube of eight cells, whose merged and single      *)
(* voxels meet in every way, and larger solids with a hole, with a part    *)
(* that sticks out, of an odd width and in one line. The mean of the       *)
(* vertices is the origin of the mesh or not.                              *)
Cube(n) == {<<2 * x + 1, 2 * y + 1, 2 * z + 1>> : x, y, z \in 0 .. n - 1}
Solids == ((SUBSET Cube(2)) \ {{}}) \cup
          {Cube(4) \ {<<3, 3, 3>>}, Cube(4) \cup {<<9, 1, 1>>}, Cube(3),
           {<<x, 1, 1>> : x \in {-5, -3, -1, 1, 3, 5}}}
Meshes == [solid : Solids, centre : {Origin, <<2, 0, 2>>}]
PosesAt(place) == [at : {place}, quat : 0 .. 3]

BoxStore == AddCuboid(EmptyStore, "box", [at |-> Origin, quat |-> 0])

CuboidsFollowMeshes ==
  \A mesh \in Meshes, from \in PosesAt(Origin), to \in PosesAt(<<4, -6, 2>>) :
    CuboidsFollow(BoxStore, "mesh", mesh, from, to)

(* Whatever the last change of the world was, the cuboids of a mesh fill   *)
(* exactly the voxels of the mesh, without overlap, and still do after the *)
(* mesh has been moved and turned; every name that is listed is found; and *)
(* a mesh that is removed leaves nothing behind (add_object,               *)
(* update_object_poses, remove_object, MeshBloxilization). For a mesh that *)
(* is turned when it is added, its centre must be the origin of its frame: *)
(* the voxels are turned about the one, the mesh about the other.          *)
MeshesKeepTheirCuboids == content > 0 => CuboidsFollowMeshes
=============================================================================
