--------------------------- MODULE MCPluginRobots ---------------------------
(* PluginRobots: an EP, an S1, and an S1 whose gimbal LEDs were removed. *)
EXTENDS PluginRobots

CONSTANTS ep, s1, bare

MCHas ==
  [m \in Models |->
     IF m = s1 THEN Parts
     ELSE IF m = ep THEN {"wheels", "chassis leds"}
     ELSE Parts \ {"gimbal leds"}]
=============================================================================
