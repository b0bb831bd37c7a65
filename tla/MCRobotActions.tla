--------------------------- MODULE MCRobotActions ---------------------------
(* RobotActions with four of the five kinds: moving the arm stands for     *)
(* moving the base, the gimbal for a kind the robot has no hardware for.   *)
EXTENDS RobotActions

CONSTANT a1

MCKinds == {"move_arm", "move_gimbal", "move_servo", "play_sound"}
MCAvailable == {"move_arm", "move_servo", "play_sound"}
MCPeriods == {3}
=============================================================================
