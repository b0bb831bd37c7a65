---------------------------- MODULE MCNavClient ----------------------------
(* NavClient with a small set of goal identifiers, and the checks of what  *)
(* the nodes around it compute. *)
EXTENDS NavClient, SceneChecks

CONSTANTS g1, g2, g3, pose

MCGoals == {g1, g2, g3}
MCPlaces == {pose}
=============================================================================
