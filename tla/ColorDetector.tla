---------------------------- MODULE ColorDetector ----------------------------
(***************************************************************************)
(* color_detector_node.py: from the mask of a colour, a set of pixels      *)
(* <<row, column>>, to the poses that are published.  The pinhole camera   *)
(* is exact: a centroid is a pair of sums over a number of pixels, and     *)
(* what TF makes of a point is an input.                                   *)
(***************************************************************************)
EXTENDS Integers, Sequences, FiniteSets, SequencesExt, Cells

CONSTANTS
  Targets,      (* the names; "cube" and the landmarks                     *)
  MinPixels,    (* min_pixels of each                                      *)
  OnFloor,      (* the targets whose localize is 'ground'                  *)
  Redraw,       (* the square of the distance that redraws a marker        *)
  None

Blob(cells) ==
  [n |-> Cardinality(cells), cx |-> ColumnSum(cells), cy |-> RowSum(cells),
   w |-> Extent(Columns(cells)), h |-> Extent(Rows(cells))]

(* _detect(): one of the largest blobs, or None.                           *)
Detections(mask, t) ==
  LET blobs == Components(mask)
      largest == {b \in blobs :
                    \A c \in blobs : Cardinality(c) <= Cardinality(b)}
      seen == {b \in largest : Cardinality(b) >= MinPixels[t]}
  IN  IF seen = {} THEN {None} ELSE {Blob(b) : b \in seen}

(* _clipped(): by the centroid and the height of the bounding box.         *)
Clipped(blob, height) ==
  \/ 2 * blob.cy - blob.n * blob.h <= 4 * blob.n
  \/ 2 * blob.cy + blob.n * blob.h >= 2 * blob.n * (height - 2)

(* _mono(): a point of the camera's frame, over a common divisor.  The     *)
(* focal length, in pixels, only tells in the depth.                       *)
Mono(blob, height_m, focal, w, h) ==
  [x |-> (2 * blob.cx - blob.n * w) * height_m,
   y |-> (2 * blob.cy - blob.n * h) * height_m,
   z |-> 2 * blob.n * height_m * focal,
   over |-> 2 * blob.n * blob.h]

(* _floor(): the ray from o through p, both in the map; None if it does    *)
(* not point down.  The point is <<x, y>> over a common divisor.           *)
Floor(o, p, floor_z) ==
  IF p[3] - o[3] >= 0 THEN None
  ELSE LET down == o[3] - p[3]
           s == o[3] - floor_z
       IN  <<o[1] * down + s * (p[1] - o[1]), o[2] * down + s * (p[2] - o[2]), down>>

----------------------------------------------------------------------------
(* The node's state, with what it last published: the latched pose of each *)
(* target, the latched markers, whether the live stream spoke in this      *)
(* frame.                                                                  *)
DetectorInit ==
  LET none == [t \in Targets |-> None]
  IN  [poses |-> none, latched |-> none, markers |-> none, live |-> FALSE]

Apart(p, q) ==
  (p[1] - q[1]) * (p[1] - q[1]) + (p[2] - q[2]) * (p[2] - q[2])

PublishMap(s, t, p) ==
  LET redraw == s.poses[t] = None \/ Apart(p, s.poses[t]) > Redraw
      told == [s EXCEPT !.latched[t] = p]
  IN  IF redraw THEN [told EXCEPT !.poses[t] = p, !.markers = [s.poses EXCEPT ![t] = p]]
      ELSE told

(* A sighting: the blob, the height of the image, and the point TF gives   *)
(* in the map and in the base frame, or None.                              *)
PublishCube(s, seen) ==
  IF seen.base = None THEN s
  ELSE LET spoken == [s EXCEPT !.live = TRUE]
       IN  IF Clipped(seen.blob, seen.height) \/ seen.map = None THEN spoken
           ELSE PublishMap(spoken, "cube", seen.map)

PublishLandmark(s, t, seen) ==
  IF seen.map = None \/ (t \notin OnFloor /\ Clipped(seen.blob, seen.height))
    THEN s ELSE PublishMap(s, t, seen.map)

(* _on_image(), for the sightings of one frame, in the order of _TARGETS.  *)
OnImage(s, order, frame) ==
  FoldLeft(LAMBDA r, t :
             CASE frame[t] = None -> r
               [] frame[t] # None /\ t = "cube" -> PublishCube(r, frame[t])
               [] OTHER -> PublishLandmark(r, t, frame[t]),
           [s EXCEPT !.live = FALSE], order)

=============================================================================
