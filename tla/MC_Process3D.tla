---------------------------- MODULE MC_Process3D ----------------------------
(* Model-checking instance of Process3D: closed and open meshes, an empty  *)
(* mesh, a point cloud, and scenes of none, of meshes only, of a mesh and *)
(* a point cloud, and of a point cloud only.                              *)
EXTENDS Process3D

Mesh(e, w) == [kind |-> "trimesh", empty |-> e, watertight |-> w, parts |-> {}]
PointCloud == [kind |-> "points", empty |-> FALSE, watertight |-> FALSE,
               parts |-> {}]
Scene(ps)  == [kind |-> "scene", empty |-> FALSE, watertight |-> FALSE,
               parts |-> ps]

MCFiles ==
  { Mesh(FALSE, TRUE), Mesh(FALSE, FALSE), Mesh(TRUE, FALSE), PointCloud,
    Scene({}), Scene({Mesh(FALSE, TRUE), Mesh(FALSE, FALSE)}),
    Scene({Mesh(FALSE, TRUE), PointCloud}), Scene({PointCloud}) }
=============================================================================
