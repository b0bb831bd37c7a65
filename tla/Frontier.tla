------------------------------- MODULE Frontier -------------------------------
(***************************************************************************)
(* frontier.py: the frontiers of an occupancy grid.  A grid is a record    *)
(* [w, h, data], where data is row-major and starts at 0 as in the         *)
(* message; the resolution is 2 units, so that half a cell is one.         *)
(***************************************************************************)
EXTENDS Integers, Sequences, FiniteSets, SequencesExt, Cells

CONSTANT MinFrontierCells

Free == 0
Unknown == -1

Data(g, cell) == g.data[cell[1] * g.w + cell[2]]

FrontierCells(g) ==
  {cell \in (1 .. g.h - 2) \X (1 .. g.w - 2) :
     /\ Data(g, cell) = Free
     /\ \E d \in Beside : Data(g, Shifted(cell, d)) = Unknown}

(* The stack of one cluster: a cell is visited when it is pushed.          *)
RECURSIVE Flood(_, _, _, _)
Flood(frontier, stack, visited, cluster) ==
  IF stack = <<>> THEN [cluster |-> cluster, visited |-> visited]
  ELSE LET cell == Last(stack)
           new == {nb \in frontier \ visited :
                     \E d \in Around : nb = Shifted(cell, d)}
       IN  Flood(frontier, Front(stack) \o Listed(new), visited \union new,
                 Append(cluster, cell))

(* The clusters, from the seeds in the order in which the set yields them. *)
Clusters(frontier, seeds) ==
  FoldLeft(LAMBDA found, seed :
             IF seed \in found.visited THEN found
             ELSE LET f == Flood(frontier, <<seed>>, found.visited \union {seed},
                                 <<>>)
                  IN  [visited |-> f.visited,
                       clusters |-> Append(found.clusters, f.cluster)],
           [visited |-> {}, clusters |-> <<>>], seeds).clusters

(* A centroid is kept as <<sum of x, sum of y, number of cells>>.          *)
Centroid(cluster) ==
  FoldLeft(LAMBDA s, cell : <<s[1] + 2 * cell[2] + 1, s[2] + 2 * cell[1] + 1,
                              s[3] + 1>>,
           <<0, 0, 0>>, cluster)

compute_frontiers(g, seeds) ==
  LET large == SelectSeq(Clusters(FrontierCells(g), seeds),
                         LAMBDA cluster : Len(cluster) >= MinFrontierCells)
  IN  [i \in DOMAIN large |-> Centroid(large[i])]

=============================================================================
