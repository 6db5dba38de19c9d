------------------------------ MODULE Perception ------------------------------
(***************************************************************************)
(* What the planner is told of the world by cameras, and tells of it: the  *)
(* voxel grid built from a point cloud (pointcloud_camera_strategy.py),    *)
(* the depth image without the robot (robot_segmentation.py), and the      *)
(* voxel grid that RViz shows (get_voxel_grid, show_voxel_grid.py).        *)
(*                                                                         *)
(* Lengths are integers. A grid has its low corner, the width of a voxel   *)
(* and the number of voxels along each axis; <<x, y, z>> numbers a voxel.  *)
(***************************************************************************)
EXTENDS Space, Sequences

Voxels(grid) == (0 .. grid.shape[1] - 1) \X (0 .. grid.shape[2] - 1) \X (0 .. grid.shape[3] - 1)
Abs(n) == IF n < 0 THEN -n ELSE n

(* astype(int), long(): towards zero.                                      *)
Truncated(n, d) == IF n < 0 THEN -((-n) \div d) ELSE n \div d

-----------------------------------------------------------------------------
(* get_voxel_grid: the voxels of the world that lie in the grid, in an     *)
(* array of three dimensions that is flattened row by row.                 *)
VoxelOf(p, grid) == [a \in Axes |-> (p[a] - grid.low[a]) \div grid.voxel]
GetVoxelGrid(points, grid) ==
  LET marked == {VoxelOf(p, grid) : p \in points}
      size   == grid.shape[1] * grid.shape[2] * grid.shape[3]
      At(n)  == <<n \div (grid.shape[2] * grid.shape[3]),
                  (n \div grid.shape[3]) % grid.shape[2], n % grid.shape[3]>>
  IN  [grid |-> grid, data |-> [n \in 1 .. size |-> At(n - 1) \in marked]]

(* Mutant of Shown: the first number is taken to change fastest.           *)
ShownTransposed(answer) ==
  LET grid == answer.grid
  IN  {[a \in Axes |-> grid.low[a] + v[a] * grid.voxel] : v \in
         {v \in Voxels(grid) : answer.data[1 + v[1] + v[2] * grid.shape[1]
                                             + v[3] * grid.shape[1] * grid.shape[2]]}}
(* create_voxel_grid_marker: a cube for each voxel, at its low corner. The *)
(* loops take the three sizes, which are equal, in the opposite order.     *)
Shown(answer) ==
  LET grid == answer.grid
  IN  {[a \in Axes |-> grid.low[a] + v[a] * grid.voxel] : v \in
         {v \in (0 .. grid.shape[3] - 1) \X (0 .. grid.shape[2] - 1) \X (0 .. grid.shape[1] - 1) :
            answer.data[1 + (v[1] * grid.shape[2] + v[2]) * grid.shape[1] + v[3]]}}

-----------------------------------------------------------------------------
(* The builder on the processor: a point below the grid by less than a     *)
(* voxel counts for the first one.                                         *)
PointsToVoxels(cloud, grid) ==
  {[a \in Axes |-> Truncated(p[a] - grid.low[a], grid.voxel)] : p \in cloud} \cap Voxels(grid)

(* Mutant of Esdf: the sign of the distance is the usual one.              *)
EsdfPositiveOutside(occupied, grid) ==
  [v \in Voxels(grid) |-> IF v \in occupied THEN -1
                          ELSE IF occupied = {} THEN 1
                          ELSE Least({SquaredDistance(v, w) : w \in occupied})]
(* _compute_esdf_fast: positive in an obstacle; outside, the distance to   *)
(* the nearest one with a minus (its square here). With nothing in the     *)
(* grid, the library's answer is some distance.                            *)
Esdf(occupied, grid) ==
  [v \in Voxels(grid) |-> IF v \in occupied THEN 1
                          ELSE IF occupied = {} THEN -1
                          ELSE -Least({SquaredDistance(v, w) : w \in occupied})]

(* The builder on the graphics card: what is occupied and what is free     *)
(* both grow by five voxels in every direction, and the one is subtracted  *)
(* from the other (_fast_distance_transform_gpu).                          *)
EsdfGpu(occupied, grid) ==
  LET Near(S, v) == \E w \in S : \A a \in Axes : Abs(v[a] - w[a]) <= 5
      One(b) == IF b THEN 1 ELSE 0
  IN  [v \in Voxels(grid) |-> One(Near(occupied, v)) - One(Near(Voxels(grid) \ occupied, v))]

(* update_world_config: the grid of this camera is replaced, or appended.  *)
(* Its pose and its sizes in metres are the same at each cloud.            *)
UpdateWorldConfig(voxel, esdf, name) ==
  LET mine == {i \in DOMAIN voxel : voxel[i].name = name}
  IN  IF mine = {} THEN Append(voxel, [name |-> name, esdf |-> esdf])
      ELSE [voxel EXCEPT ![Least(mine)].esdf = esdf]

(* pointcloud_callback: points with a coordinate that is not finite are    *)
(* left out, and a cloud of no other points changes nothing.               *)
OnPointCloud(voxel, name, cloud, grid) ==
  IF cloud.finite = {} THEN voxel
  ELSE UpdateWorldConfig(voxel, Esdf(PointsToVoxels(cloud.finite, grid), grid), name)

(* callback_depth_map: the image enters the world with the pose of the     *)
(* camera: the one of the configuration, else the last transform, else the *)
(* identity. An image of another encoding is tried as one in metres.       *)
OnDepthImage(world, camera, image, transform) ==
  LET pose == IF camera.static # {} THEN camera.static
              ELSE IF transform # {} THEN transform ELSE {Identity}
  IN  IF ~ image.converts THEN world
      ELSE world \cup {Placed(at, p) : at \in pose, p \in image.seen}

-----------------------------------------------------------------------------
(* The cameras of a configuration, in order, until one cannot be set up: a *)
(* depth camera without intrinsics, in the configuration or from its info  *)
(* topic, or a second point cloud, which declares the parameters of the    *)
(* first one again.                                                        *)
AddCamera(scene, camera, answering) ==
  LET refused == [scene EXCEPT !.failed = TRUE]
      set     == [scene EXCEPT !.cameras = @ \cup {camera.name}]
      listed  == [scene EXCEPT !.cameras = @ \cup {camera.name}, !.declared = TRUE]
  IN  IF scene.failed THEN scene
      ELSE CASE camera.type = "point_cloud" -> IF scene.declared THEN refused ELSE listed
             [] camera.type = "depth_camera" ->
                  IF ~ camera.intrinsics /\ camera.name \notin answering THEN refused ELSE set
             [] OTHER -> scene
NoCameras == [cameras |-> {}, declared |-> FALSE, failed |-> FALSE]
CamerasAfter(configuration, answering) ==
  LET scene[i \in 0 .. Len(configuration)] ==
        IF i = 0 THEN NoCameras ELSE AddCamera(scene[i - 1], configuration[i], answering)
  IN  scene
LoadCameras(configuration, answering) == CamerasAfter(configuration, answering)[Len(configuration)]

-----------------------------------------------------------------------------
(* The segmentation. A depth image gives each pixel <<u, v>> a depth in    *)
(* millimetres, or 0. The camera has the focal length 1 and its centre at  *)
(* <<0, 0>>.                                                               *)
DepthToPointcloud(image) ==
  {<<p[1] * image[p], p[2] * image[p], image[p]>> : p \in {p \in DOMAIN image : image[p] > 0}}

(* Mutant of MaskPointcloud: the points of the robot are the ones kept.    *)
MaskPointcloudInverted(points, spheres, threshold) ==
  {p \in points : \E s \in spheres : SquaredDistance(p, s.at) <= Square(s.radius + threshold)}
MaskPointcloud(points, spheres, threshold) ==
  {p \in points : \A s \in spheres : SquaredDistance(p, s.at) > Square(s.radius + threshold)}

(* Where a point is drawn: in single precision the quotient may fall short *)
(* of the pixel it came from, and is then cut to the one before.           *)
DrawnAt(point) ==
  LET u == point[1] \div point[3]
      v == point[2] \div point[3]
  IN  ({u, u - 1} \X {v, v - 1}) \cap (Nat \X Nat)

(* pointcloud_to_depth, depth_tensor_to_image_msg: what a pixel may show.  *)
(* Of several points any may win; a metre may be cut to 999 mm.            *)
MayShow(points, pixel) ==
  LET drawn == {p \in points : pixel \in DrawnAt(p)}
  IN  (UNION {{p[3], p[3] - 1} : p \in drawn}) \cup
      (IF \E p \in drawn : DrawnAt(p) = {pixel} THEN {} ELSE {0})

(* _mask_depth_image: what the image without the robot may be.             *)
MaskDepthImage(image, spheres, threshold) ==
  [pixel \in DOMAIN image |->
     MayShow(MaskPointcloud(DepthToPointcloud(image), spheres, threshold), pixel)]

(* The callbacks of the node: it keeps the last image of an encoding it    *)
(* knows, the last camera info and, in its context, the last joints, and   *)
(* every ten milliseconds takes the robot out of the image. Until it hears *)
(* of its joints the robot is at home, with all of them zero.              *)
SegmentationStep(node, event, threshold) ==
  CASE event.kind = "depth" -> IF event.supported THEN [node EXCEPT !.image = <<event.image>>] ELSE node
    [] event.kind = "info" -> [node EXCEPT !.info = TRUE]
    [] event.kind = "joints" -> [node EXCEPT !.spheres = event.spheres]
    [] event.kind = "timer" ->
         IF node.image = <<>> \/ ~ node.info THEN node
         ELSE [node EXCEPT !.published = <<MaskDepthImage(node.image[1], node.spheres, threshold)>>]
NewNode(home) == [image |-> <<>>, info |-> FALSE, spheres |-> home, published |-> <<>>]
NodeAfter(home, events, threshold) ==
  LET node[i \in 0 .. Len(events)] ==
        IF i = 0 THEN NewNode(home) ELSE SegmentationStep(node[i - 1], events[i], threshold)
  IN  node

-----------------------------------------------------------------------------
(* What the properties say of grids, images and cameras.                   *)
Inside(p, grid) == \A a \in Axes : p[a] >= grid.low[a] /\ p[a] < grid.low[a] + grid.voxel * grid.shape[a]

(* What RViz shows: a cube around each point of the world that lies in the *)
(* grid, and no other.                                                     *)
DisplayIsTrue(points, grid) ==
  LET shown == Shown(GetVoxelGrid(points, grid))
      In(p, corner) == \A a \in Axes : p[a] >= corner[a] /\ p[a] < corner[a] + grid.voxel
  IN  /\ \A p \in points : Inside(p, grid) => \E d \in shown : In(p, d)
      /\ \A d \in shown : \E p \in points : In(p, d)

(* A grid of distances: positive where a point of the cloud is, or is less *)
(* than a voxel below the grid, and never too far from one elsewhere.      *)
GridIsTrue(esdf, cloud, grid) ==
  /\ \A p \in cloud : Inside(p, grid) => esdf[VoxelOf(p, grid)] > 0
  /\ \A v \in DOMAIN esdf : esdf[v] > 0 =>
       \E p \in cloud : \A a \in Axes : VoxelOf(p, grid)[a] = v[a] \/ (v[a] = 0 /\ VoxelOf(p, grid)[a] = -1)
  /\ \A v \in DOMAIN esdf, p \in cloud :
       Inside(p, grid) /\ esdf[v] < 0 => -esdf[v] <= SquaredDistance(v, VoxelOf(p, grid))

(* Two clouds of one camera, one after the other, beside other grids.      *)
CloudsArrive(voxel, name, first, second, grid) ==
  LET two  == OnPointCloud(OnPointCloud(voxel, name, first, grid), name, second, grid)
      last == IF second.finite = {} THEN first ELSE second
      Has(list) == \E i \in DOMAIN list : list[i].name = name
  IN  /\ \A i \in DOMAIN voxel : voxel[i].name # name => two[i] = voxel[i]
      /\ Len(two) = Len(voxel) + IF last.finite = {} \/ Has(voxel) THEN 0 ELSE 1
      /\ last.finite # {} =>
           /\ Has(two)
           /\ \A i \in DOMAIN two : two[i].name = name => GridIsTrue(two[i].esdf, last.finite, grid)

(* The same set of points for a grid of the graphics card: a distance that *)
(* says free keeps five voxels from every point.                           *)
FreeIsFar(occupied, grid) ==
  \A v \in Voxels(grid) :
    EsdfGpu(occupied, grid)[v] < 0 => \A w \in occupied : SquaredDistance(v, w) > 25

(* The image without the robot: a pixel shows a depth of the image, of     *)
(* itself or of a neighbour whose rounding is lost, and none when their    *)
(* points touch the robot. A depth of a millimetre may be lost.            *)
RobotIsCut(image, spheres, threshold, shows) ==
  LET Point(q) == <<q[1] * image[q], q[2] * image[q], image[q]>>
      Touches(p) == \E s \in spheres : SquaredDistance(p, s.at) <= Square(s.radius + threshold)
      Free(q) == q \in DOMAIN image /\ image[q] > 0 /\ ~ Touches(Point(q))
  IN  \A pixel \in DOMAIN image :
        LET near == {q \in {pixel[1], pixel[1] + 1} \X {pixel[2], pixel[2] + 1} : Free(q)}
        IN  /\ \A d \in shows[pixel] : d # 0 => \E q \in near : d \in {image[q], image[q] - 1}
            /\ near = {} => shows[pixel] = {0}
            /\ Free(pixel) /\ pixel = <<0, 0>> /\ (\A q \in near : image[q] # 1) => 0 \notin shows[pixel]

(* What the node publishes at a tick of its timer is the last image of an  *)
(* encoding it knows without the robot as its joints were last, or as it   *)
(* is at home.                                                             *)
LatestIsCut(home, events, threshold) ==
  LET node == NodeAfter(home, events, threshold)
      Until(i, kind) == {k \in 1 .. i : events[k].kind = kind /\ (kind = "depth" => events[k].supported)}
      Latest(i, kind) == events[Greatest(Until(i, kind))]
      Spheres(i) == IF Until(i, "joints") = {} THEN home ELSE Latest(i, "joints").spheres
  IN  \A i \in 1 .. Len(events) :
        IF events[i].kind # "timer" THEN node[i].published = node[i - 1].published
        ELSE IF Until(i, "depth") = {} \/ Until(i, "info") = {} THEN node[i].published = <<>>
        ELSE /\ Len(node[i].published) = 1
             /\ RobotIsCut(Latest(i, "depth").image, Spheres(i), threshold, node[i].published[1])

(* A camera that is listed is set up when nothing before it, nor itself,   *)
(* is refused; of the point clouds one is at most.                         *)
CamerasAreLoaded(list, answering) ==
  LET loaded == {i \in DOMAIN list : list[i].name \in LoadCameras(list, answering).cameras}
      Known(i) == list[i].type \in {"point_cloud", "depth_camera"}
  IN  /\ \A i \in loaded : Known(i)
      /\ \A i \in loaded : \A j \in 1 .. i : j \in loaded \/ ~ Known(j)
      /\ \A i, j \in loaded : list[i].type = "point_cloud" /\ list[j].type = "point_cloud" => i = j

(* A frame: a camera with a pose of its own, or with a transform, puts     *)
(* what it sees where it is.                                               *)
FrameIsPlaced(world, seen, static, transform) ==
  LET after == OnDepthImage(world, [static |-> static], [converts |-> TRUE, seen |-> seen], transform)
      known == IF static # {} THEN static ELSE transform
  IN  /\ world \subseteq after
      /\ \A pose \in known, p \in seen : \E q \in after :
           p = TurnBack(pose.quat, Minus(q, pose.at))
=============================================================================
