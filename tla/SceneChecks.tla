----------------------------- MODULE SceneChecks -----------------------------
(***************************************************************************)
(* What the scene's nodes compute, over bounded inputs: the frontiers of   *)
(* small grids, blobs on small images, and every short history of the      *)
(* door.  The assumptions are evaluated by the runs of MCNavClient, whose  *)
(* goals come from these frontiers and poses.                              *)
(***************************************************************************)
EXTENDS Integers, Sequences, FiniteSets
LOCAL INSTANCE SequencesExt

LOCAL Large == INSTANCE Frontier WITH MinFrontierCells <- 2
LOCAL Grids == INSTANCE Cells

----------------------------------------------------------------------------
(* Frontiers. *)

(* Four rows of six: the inner cells are free or unknown, the outer ones   *)
(* unknown, free or walls, so that a wrong index or bound shows.           *)
GridOf(unknown, edge) ==
  [w |-> 6, h |-> 4,
   data |-> [i \in 0 .. 23 |->
               LET cell == <<i \div 6, i % 6>>
               IN  IF cell[1] \notin 1 .. 2 \/ cell[2] \notin 1 .. 4 THEN edge
                   ELSE IF cell \in unknown THEN -1 ELSE 0]]

SmallGrids == {GridOf(u, e) : u \in SUBSET ((1 .. 2) \X (1 .. 4)), e \in {-1, 0, 100}}

(* What the docstring of compute_frontiers() promises.                     *)
ExpectedClusters(g) ==
  LET Value(r, c) == g.data[r * g.w + c]
      frontier == {cell \in (1 .. 2) \X (1 .. 4) :
        /\ Value(cell[1], cell[2]) = 0
        /\ -1 \in {Value(cell[1] - 1, cell[2]), Value(cell[1] + 1, cell[2]),
                   Value(cell[1], cell[2] - 1), Value(cell[1], cell[2] + 1)}}
  IN  Grids!Components(frontier)

(* The worklist of compute_frontiers() finds each connected cluster of     *)
(* frontier cells once, whole, whichever seed the set yields first.        *)
ASSUME ClustersAreComponents ==
  \A g \in SmallGrids :
    LET cells == Large!FrontierCells(g)
        seeds == Grids!Listed(cells)
    IN  \A order \in {seeds, Reverse(seeds)} :
          LET found == Large!Clusters(cells, order)
          IN  /\ {ToSet(found[i]) : i \in DOMAIN found} = ExpectedClusters(g)
              /\ \A i \in DOMAIN found : IsInjective(found[i])
              /\ IsInjective(found)

(* A centroid lies within its cluster's box, and none is reported for a    *)
(* cluster below the minimum.                                              *)
ASSUME CentroidsAreInTheirClusters ==
  \A g \in SmallGrids :
    LET cells == Large!FrontierCells(g)
        found == Large!compute_frontiers(g, Grids!Listed(cells))
        large == {c \in ExpectedClusters(g) : Cardinality(c) >= 2}
        Inside(p, c) ==
          /\ p[3] = Cardinality(c)
          /\ \E left, right \in c : (2 * left[2] + 1) * p[3] <= p[1]
                                    /\ p[1] <= (2 * right[2] + 1) * p[3]
          /\ \E low, high \in c : (2 * low[1] + 1) * p[3] <= p[2]
                                  /\ p[2] <= (2 * high[1] + 1) * p[3]
    IN  /\ Len(found) = Cardinality(large)
        /\ \A i \in DOMAIN found : \E c \in large : Inside(found[i], c)

(* A centroid need not be a frontier cell, nor even known: the goal of a   *)
(* ring around an unknown cell is that cell (explore() sends it to Nav2).  *)
ASSUME CentroidMayBeUnknown ==
  LET hole == [w |-> 5, h |-> 5, data |-> [i \in 0 .. 24 |-> IF i = 12 THEN -1 ELSE 0]]
  IN  Large!compute_frontiers(hole, Grids!Listed(Large!FrontierCells(hole)))
        = <<<<20, 20, 4>>>>

----------------------------------------------------------------------------
(* Blobs and poses. *)

LOCAL Image ==
  INSTANCE ColorDetector WITH Targets <- {"cube", "plate"},
    MinPixels <- [cube |-> 3, plate |-> 3], OnFloor <- {"plate"},
    Redraw <- 4, None <- <<>>

Rectangle(top, bottom, left, right) == (top .. bottom) \X (left .. right)

(* What _clipped() is for: of the rectangles, it passes those that end at  *)
(* least three rows below the top of the image and two above its last row, *)
(* so none of which the edge may have cut off a part.                      *)
ASSUME CutRectanglesAreClipped ==
  \A top \in 0 .. 11, bottom \in 0 .. 11, right \in 0 .. 2 :
    top <= bottom =>
      (~ Image!Clipped(Image!Blob(Rectangle(top, bottom, 0, right)), 12)
         <=> 3 <= top /\ bottom <= 9)

(* _clipped() measures from the centroid and not from the box: a blob with *)
(* a thin part at the edge and most of its pixels away from it passes,     *)
(* though it touches the edge.                                             *)
ASSUME ThinTouchPasses ==
  LET touching == Rectangle(0, 15, 4, 4) \union Rectangle(16, 19, 0, 9)
  IN  ~ Image!Clipped(Image!Blob(touching), 40)

(* Why clipped heights matter: the less of a rectangle is seen, the        *)
(* farther away _mono() takes it for.                                      *)
ASSUME CutLooksFarther ==
  \A bottom, cut \in 1 .. 8 : cut < bottom =>
    LET whole == Image!Mono(Image!Blob(Rectangle(0, bottom, 0, 1)), 20, 9, 16, 12)
        part == Image!Mono(Image!Blob(Rectangle(cut, bottom, 0, 1)), 20, 9, 16, 12)
    IN  part.z * whole.over > whole.z * part.over

(* _detect() reports one whole blob of the colour, a largest one, and      *)
(* nothing if that is noise.                                               *)
ASSUME DetectionsAreTheLargest ==
  \A mask \in SUBSET Rectangle(0, 1, 0, 3) :
    LET sizes == {Cardinality(b) : b \in Grids!Components(mask)}
        seen == Image!Detections(mask, "cube")
    IN  IF \E n \in sizes : n >= 3
        THEN \A d \in seen : d.n \in sizes /\ \A n \in sizes : n <= d.n
        ELSE seen = {<<>>}

(* _floor() finds the point of the floor that a pixel shows, and none for  *)
(* a pixel at or above the horizon.                                        *)
ASSUME FloorIsFound ==
  \A x, y \in -1 .. 1, down \in -1 .. 2, k \in 1 .. 3 :
    LET o == <<5, 7, 6>>
        found == Image!Floor(o, <<5 + x, 7 + y, 6 - down>>, 6 - k * down)
    IN  IF down <= 0 THEN found = <<>>
        ELSE /\ found[1] = (5 + k * x) * found[3]
             /\ found[2] = (7 + k * y) * found[3]

(* Every history of four frames, in which the cube is whole, cut off or    *)
(* unseen, at four places.                                                 *)
Square(top) == Image!Blob(Rectangle(top, top + 3, 0, 3))
Sightings ==
  {<<>>} \union [blob : {Square(4), Square(0)}, height : {12},
               base : {<<1>>}, map : {<<n, 0, 0>> : n \in 0 .. 3} \union {<<>>}]

Seen(frames) ==
  FoldLeft(LAMBDA s, f : Image!OnImage(s, <<"cube", "plate">>, [cube |-> f, plate |-> <<>>]),
           Image!DetectorInit, frames)

(* Small steps add up: however slowly the published pose drifts, the       *)
(* marker is never farther from it than the redraw distance.  The pose     *)
(* kept for late subscribers is that of the last whole sighting, though    *)
(* the live stream goes on while the cube is cut off.                      *)
ASSUME MarkersFollowWholeSightings ==
  \A frames \in [1 .. 3 -> Sightings] :
    LET s == Seen(frames)
        whole == {i \in 1 .. 3 : /\ frames[i] # <<>>
                                 /\ frames[i].blob = Square(4)
                                 /\ frames[i].map # <<>>}
    IN  /\ s.live <=> frames[3] # <<>>
        /\ IF whole = {} THEN <<>> = s.latched["cube"] /\ <<>> = s.markers["cube"]
           ELSE LET last == CHOOSE i \in whole : \A j \in whole : j <= i
                IN  /\ s.latched["cube"] = frames[last].map
                    /\ Image!Apart(s.markers["cube"], s.latched["cube"]) <= 4

----------------------------------------------------------------------------
(* The door. *)

LOCAL Door(latch) ==
  INSTANCE DoorController WITH HalfX <- 2, HalfY <- 1, Margin <- 1, Below <- 1,
    Above <- 2, OpenDistance <- 3, Latch <- latch, None <- <<>>

Closed == 10
On == [x |-> 3, y |-> -2, z |-> 2]
Off == [x |-> 3, y |-> -2, z |-> 3]

(* What can happen to a door: a tick, with the cube on the plate, lifted   *)
(* from it or unknown, or a new start of the node.                         *)
Ticks(faults) ==
  [restart : {FALSE}, d : {On, Off}, fault : faults]
    \union [restart : {FALSE}, d : {<<>>}, fault : {"none"}]
Restart == [restart |-> TRUE, d |-> <<>>, fault |-> "none"]

After(w, latch, e) ==
  CASE e.restart -> Door(latch)!Started(w)
    [] ~e.restart /\ w.node = <<>> -> w
    [] OTHER -> Door(latch)!tick(w, e.d, e.fault)

(* The worlds that a history of happenings goes through.                   *)
Worlds(latch, events) ==
  FoldLeft(LAMBDA ws, e : Append(ws, After(Last(ws), latch, e)),
           <<Door(latch)!Started([door |-> Closed, node |-> <<>>])>>, events)

Faulty == [1 .. 4 -> Ticks({"none", "before", "after"}) \union {Restart}]
Sound == [1 .. 5 -> Ticks({"none"})]

(* A latched door never closes, whatever fails and however often the node  *)
(* starts again.                                                           *)
ASSUME LatchedDoorsStayOpen ==
  \A events \in Faulty :
    LET ws == Worlds(TRUE, events)
    IN  \A i \in 1 .. 4 : ws[i + 1].door <= ws[i].door

(* While the node lives and is not started again, is_open tells where the  *)
(* door stands, and without the latch the door follows the last answer.    *)
ASSUME DoorFollowsThePlate ==
  \A latch \in BOOLEAN : \A events \in Sound :
    LET w == Last(Worlds(latch, events))
        answered == {i \in 1 .. 5 : events[i].d # <<>>}
        pressed == {i \in answered : events[i].d = On}
    IN  /\ w.door = IF w.node.is_open THEN w.node.door_open_pos
                                      ELSE w.node.door_closed_pos
        /\ w.node.is_open <=>
             IF latch THEN pressed # {}
             ELSE pressed # {} /\ \A i \in answered : \E j \in pressed : i <= j

(* A node that starts while the door is open takes that for closed: from   *)
(* then on no history brings the door back to where it was built, and the  *)
(* next press pushes it down once more.                                    *)
ASSUME OpenDoorIsRelearnt ==
  \A latch \in BOOLEAN : \A events \in Faulty :
    LET ws == Worlds(latch, events)
    IN  \A i \in 1 .. 4 : events[i].restart /\ ws[i].door < Closed =>
          \A j \in i + 1 .. 5 :
            /\ ws[j].door < Closed
            /\ ws[j].node # <<>> /\ ws[j].node.is_open
                 => ws[j].door < ws[i].door

(* A node that dies with the door away from where it was built leaves it   *)
(* so for ever, whether open_door() failed after the move or close_door()  *)
(* before it: nobody, and no later node, brings it back.                   *)
ASSUME OpenDoorOutlivesItsNode ==
  \A latch \in BOOLEAN : \A events \in Faulty :
    LET ws == Worlds(latch, events)
    IN  \A i \in 1 .. 4 : ws[i].node = <<>> /\ ws[i].door < Closed
                            => \A j \in i .. 5 : ws[j].door < Closed

=============================================================================
