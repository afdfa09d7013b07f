----------------------------- MODULE Process3D -----------------------------
(***************************************************************************)
(* scripts/process_3d.py: one invocation loads a 3D file with trimesh,    *)
(* merges a scene into one mesh, extracts its metadata, optionally renders *)
(* a thumbnail to a given path, and prints the result.  Failures of the   *)
(* load, an empty scene and a non-mesh geometry are returned as            *)
(* {"error": ...}; a failed thumbnail is recorded as thumbnail_error.      *)
(*                                                                         *)
(* trimesh is the environment.  What it returns is a geometry record      *)
(*   [kind |-> "trimesh" | "scene" | "points" | "path",                    *)
(*    empty |-> it has no vertices, watertight |-> BOOLEAN,                *)
(*    parts |-> for a scene, the set of its geometries]                    *)
(* and where its behaviour differs between versions the model takes every *)
(* outcome: concatenate over parts that are not all meshes may drop them  *)
(* or return something that is not a Trimesh.  The result dict is its set *)
(* of keys, without the has_* keys of the visual, which no step reads.   *)
(***************************************************************************)
EXTENDS Integers, FiniteSets

CONSTANTS
  Files,      \* what trimesh.load may return for the files tried
  LoadFails,  \* trimesh.load raises
  NoMesh      \* no geometry loaded yet

VARIABLES
  file,      \* the input, chosen once
  thumb,     \* --thumbnail was given
  pc,        \* where the script is
  mesh,      \* the geometry process_3d_file works on
  result,    \* the keys of the dict process_3d_file builds
  thumbFile  \* the file at the thumbnail path: "none", "stale" (left by an
             \* earlier run), "partial" or "complete"

vars == <<file, thumb, pc, mesh, result, thumbFile>>

BaseKeys ==
  {"format", "vertex_count", "face_count", "edge_count", "bounds_min",
   "bounds_max", "is_watertight", "is_manifold", "surface_area"}

-----------------------------------------------------------------------------
\* trimesh.util.concatenate over the geometries of a scene.  Meshes alone
\* give one mesh; parts that are not meshes are dropped or make the result
\* something other than a Trimesh, depending on the version.
Concatenate(parts) ==
  LET meshes == {g \in parts : g.kind = "trimesh"}
      merged == [kind |-> "trimesh", empty |-> \A g \in meshes : g.empty,
                 watertight |-> \A g \in meshes : g.watertight, parts |-> {}]
      other  == [merged EXCEPT !.kind = "other"]
  IN  IF meshes = parts THEN {merged}
      ELSE IF meshes = {} THEN {other}
      ELSE {merged, other}

\* The keys of the metadata of a Trimesh: volume only when it is watertight.
MetadataKeys(g) ==
  BaseKeys \cup (IF g.watertight THEN {"volume"} ELSE {})

\* The geometry after the scene branch: a scene is concatenated.
Merged(g) == IF g.kind = "scene" THEN Concatenate(g.parts) ELSE {g}

\* The outcomes of the thumbnail block: save_image raises or gives None,
\* open() fails, write() fails after open() emptied the file, or it works.
ThumbnailOutcomes ==
  {"render_raises", "no_image", "open_fails", "write_fails", "written"}

-----------------------------------------------------------------------------
Init ==
  /\ file \in Files \cup {LoadFails}
  /\ thumb \in BOOLEAN
  /\ pc = "load"
  /\ mesh = NoMesh
  /\ result = {}
  /\ thumbFile \in {"none", "stale"}

\* trimesh.load inside try/except.
Load ==
  /\ pc = "load"
  /\ \/ /\ file = LoadFails
        /\ result' = {"error"}
        /\ pc' = "print"
        /\ UNCHANGED mesh
     \/ /\ file # LoadFails
        /\ mesh' = file
        /\ pc' = "merge"
        /\ UNCHANGED result
  /\ UNCHANGED <<file, thumb, thumbFile>>

\* A scene is merged, an empty one refused; what is not a Trimesh then is
\* refused as an unsupported type.
Merge ==
  /\ pc = "merge"
  /\ \/ /\ mesh.kind = "scene" /\ mesh.parts = {}
        /\ result' = {"error"}
        /\ pc' = "print"
        /\ UNCHANGED mesh
     \/ /\ mesh.kind # "scene" \/ mesh.parts # {}
        /\ \E g \in Merged(mesh) :
             /\ mesh' = g
             /\ IF g.kind = "trimesh"
                  THEN pc' = "extract" /\ UNCHANGED result
                  ELSE pc' = "print" /\ result' = {"error"}
  /\ UNCHANGED <<file, thumb, thumbFile>>

\* The metadata block.  bounds[0] of a Trimesh with no vertices is
\* None[0] in current trimesh: a TypeError nothing catches.
Extract ==
  /\ pc = "extract"
  /\ \/ /\ mesh.empty
        /\ pc' = "crashed"
        /\ UNCHANGED result
     \/ /\ ~mesh.empty
        /\ result' = MetadataKeys(mesh)
        /\ pc' = IF thumb THEN "thumbnail" ELSE "print"
  /\ UNCHANGED <<file, thumb, mesh, thumbFile>>

\* Mutant: thumbnail_generated set before the file is written.
ThumbnailFlagFirst ==
  /\ pc = "thumbnail"
  /\ \E o \in ThumbnailOutcomes :
       /\ thumbFile' = CASE o = "written"     -> "complete"
                         [] o = "write_fails" -> "partial"
                         [] OTHER             -> thumbFile
       /\ result' = result \cup
                      CASE o \in {"written", "write_fails"}
                             -> {"thumbnail_generated"} \cup
                                  (IF o = "write_fails"
                                   THEN {"thumbnail_error"} ELSE {})
                        [] o = "no_image" -> {}
                        [] OTHER          -> {"thumbnail_error"}
  /\ pc' = "print"
  /\ UNCHANGED <<file, thumb, mesh>>

\* The thumbnail block inside try/except.
Thumbnail ==
  /\ pc = "thumbnail"
  /\ \E o \in ThumbnailOutcomes :
       /\ thumbFile' = CASE o = "written"     -> "complete"
                         [] o = "write_fails" -> "partial"
                         [] OTHER             -> thumbFile
       /\ result' = result \cup
                      CASE o = "written"  -> {"thumbnail_generated"}
                        [] o = "no_image" -> {}
                        [] OTHER          -> {"thumbnail_error"}
  /\ pc' = "print"
  /\ UNCHANGED <<file, thumb, mesh>>

\* main prints every key, as JSON or as key: value lines.
PrintResult ==
  /\ pc = "print"
  /\ pc' = "printed"
  /\ UNCHANGED <<file, thumb, mesh, result, thumbFile>>

Terminated ==
  /\ pc \in {"printed", "crashed"}
  /\ UNCHANGED vars

Next == Load \/ Merge \/ Extract \/ Thumbnail \/ PrintResult \/ Terminated

Spec == Init /\ [][Next]_vars

-----------------------------------------------------------------------------
(* Properties.                                                             *)

\* What the printed result says of the thumbnail matches the file at the
\* thumbnail path: thumbnail_generated exactly when this run wrote the
\* whole image there, and thumbnail_error whenever it left the file cut
\* short (open() emptied it, write() then failed).
ThumbnailAccounted ==
  pc = "printed" =>
    /\ ("thumbnail_generated" \in result) = (thumbFile = "complete")
    /\ thumbFile = "partial" => "thumbnail_error" \in result

=============================================================================
