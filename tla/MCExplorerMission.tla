------------------------- MODULE MCExplorerMission -------------------------
(* ExplorerMission with small bounds. *)
EXTENDS ExplorerMission, TLC

CONSTANTS g1, g2

TwoGoals == {g1, g2}
MCPlaces == {"frontier", "key", "plate"}
TwoSymmetry == Permutations(TwoGoals)
=============================================================================
