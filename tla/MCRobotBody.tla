----------------------------- MODULE MCRobotBody -----------------------------
(* RobotBody, one or two groups of actuators commanded in a behaviour; the *)
(* actions are asked for by scripts, without pushes.                       *)
EXTENDS RobotBody

CONSTANTS b1, b2, c1, yaw, m1

MCKinds == {"move", "move_arm", "move_gimbal", "move_servo"}
MCUses == {{"wheels", "gripper"}, {"gimbal"}, {"servos"}, {"leds"}}
MCPhases == {2}
=============================================================================
