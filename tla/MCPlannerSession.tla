-------------------------- MODULE MCPlannerSession --------------------------
(***************************************************************************)
(* The backend with MPC for its poses beside the panel, and what cameras   *)
(* tell the planner that both of them use.                                 *)
(***************************************************************************)
EXTENDS PlannerSession, Perception
MCClients == {"backend", "panel"}

-----------------------------------------------------------------------------
(* Grids, and points inside, beside, below and above them.                 *)
Shelf == [low |-> <<-2, 0, 0>>, voxel |-> 2, shape |-> <<4, 2, 1>>]
Cells3 == [low |-> <<-2, -2, -2>>, voxel |-> 2, shape |-> <<3, 3, 3>>]
Row == [low |-> <<0, 0, 0>>, voxel |-> 1, shape |-> <<9, 1, 1>>]
Somewhere == {-3, -2, 1, 2, 3, 4} \X {-2, 1, 5} \X {-4, 0, 1, 3}
Lattice == {-5, -3, -2, 1, 4, 6} \X {0, 2, 3} \X {1}
Clouds == [finite : {{p, q} : p, q \in Lattice} \cup {{}}]

(* The grid of another camera.                                             *)
Map == [name |-> "map", esdf |-> Esdf({}, Shelf)]

(* Images of six pixels, robots of three spheres and one of them at home;  *)
(* of the images, one is of an encoding that is not known.                 *)
Pixels == (0 .. 2) \X (0 .. 1)
Images == [Pixels -> {0, 2, 4}]
Blank == [q \in Pixels |-> 2]
Robots == SUBSET {[at |-> <<0, 0, 2>>, radius |-> 0], [at |-> <<4, 2, 2>>, radius |-> 1],
                  [at |-> <<4, 4, 4>>, radius |-> 1]}
Home == {[at |-> <<2, 0, 2>>, radius |-> 0]}
Depth(image, known) == [kind |-> "depth", supported |-> known, image |-> image]
Joints(spheres) == [kind |-> "joints", spheres |-> spheres]
Info == [kind |-> "info"]
Timer == [kind |-> "timer"]
Events(image, spheres) ==
  <<Timer, Depth(Blank, TRUE), Timer, Info, Timer, Joints({}), Depth(image, TRUE),
    Timer, Joints(spheres), Depth(Blank, FALSE), Timer>>

(* Configurations: three cameras of any type.                              *)
CameraKinds == [type : {"point_cloud", "depth_camera", "lidar"}, intrinsics : BOOLEAN]
Cameras(kinds) ==
  [i \in 1 .. 3 |-> [type |-> kinds[i].type, intrinsics |-> kinds[i].intrinsics, name |-> i]]

Poses == {{[at |-> <<2, 0, 6>>, quat |-> turn]} : turn \in 0 .. 3} \cup {{}}
Frame == {<<2, 0, 4>>, <<0, 4, 2>>}

PerceptionIsTrue ==
  /\ \A p, q \in Somewhere : DisplayIsTrue({p, q}, Cells3)
  /\ \A first, second \in Clouds : CloudsArrive(<<Map>>, "camera", first, second, Shelf)
  /\ \A occupied \in SUBSET Voxels(Row) : FreeIsFar(occupied, Row)
  /\ \A image \in Images, spheres \in Robots : LatestIsCut(Home, Events(image, spheres), 1)
  /\ \A kinds \in [1 .. 3 -> CameraKinds], answering \in SUBSET (1 .. 3) :
       CamerasAreLoaded(Cameras(kinds), answering)
  /\ \A static, transform \in Poses : FrameIsPlaced({Origin}, Frame, static, transform)

(* However the planner is used, what cameras see is what the lists of its  *)
(* world have and what is shown, voxel by voxel (the pose and the sizes    *)
(* that cuRobo reads a grid with are left out): a cloud marks the voxels   *)
(* of its points and no others, and does not touch the grid of another     *)
(* camera; a frame is put where its camera is; the robot, and only the     *)
(* robot, is cut from a depth image; RViz shows the voxels that are        *)
(* occupied (pointcloud_callback,                                          *)
(* update_world_config, callback_depth_map, robot_segmentation,            *)
(* get_voxel_grid, create_voxel_grid_marker).                              *)
CamerasTellTheWorld == (\E p \in Planners : planned[p] # "none") => PerceptionIsTrue
=============================================================================
