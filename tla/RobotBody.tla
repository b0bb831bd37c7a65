------------------------------- MODULE RobotBody -------------------------------
(***************************************************************************)
(* robot.cpp, chassis.cpp, gimbal.hpp, servo.hpp, arm.cpp and action.cpp:  *)
(* the actuators of the simulated robot, the messages that set them and    *)
(* the actions (RobotActions) that move them.                              *)
(*                                                                         *)
(* Every actuator keeps what was asked for (desired) and what the          *)
(* simulator was told (target); a step reads the sensors, lets the actions *)
(* set what they want, and forwards what changed.  A message and an action *)
(* may want different things of the same actuator.                         *)
(*                                                                         *)
(* Geometry is reduced to one axis per joint and to whole units; how far a *)
(* joint gets in a step, and where the chassis turns, is physics.  The     *)
(* pitch of the gimbal moves as its yaw does.                              *)
(***************************************************************************)
EXTENDS RobotLeds

CONSTANTS
  Uses,        (* bound: sets of parts commanded in one behaviour          *)
  Velocities,  (* of the wheels; 0 stands                                  *)
  Yaw,         (* the gimbal's yaw servo (connected_servos[3])             *)
  Motors,      (* servos of the arm                                        *)
  MaxAngle,    (* joints turn from 0 to MaxAngle                           *)
  Rates,       (* speeds asked of a joint, per step                        *)
  Headings,    (* of the chassis, chassis_attitude.yaw                     *)
  Powers,      (* of the gripper                                           *)
  FirstPower   (* its power before any command                             *)

Parts == {"wheels", "gimbal", "servos", "gripper", "leds"}

ASSUME BodyAssumption ==
  /\ Uses \subseteq SUBSET Parts
  /\ Velocities \subseteq Int /\ 0 \in Velocities
  /\ Yaw \notin Motors
  /\ MaxAngle \in Nat
  /\ Rates \subseteq {-1, 0, 1}
  /\ Headings \subseteq Int /\ 0 \in Headings
  /\ FirstPower \in Powers
  /\ None \notin [servo : Motors, angle : 0 .. MaxAngle]

VARIABLES
  uses,      (* the parts commanded in this behaviour                      *)
  engaged,   (* chassis.wheel_motors_engaged                               *)
  wheels,    (* chassis.wheel_speeds: desired and target                   *)
  standby,   (* history: wheels.desired was set while not engaged          *)
  joint,     (* per servo its ControllableValues, and angle.current        *)
  armGoal,   (* MoveArmAction::goal_position                               *)
  servoGoal, (* MoveServoAction: servo_id and target_angle                 *)
  gimbal,    (* the fields of Gimbal                                       *)
  heading,   (* Gimbal::chassis_attitude.yaw: the chassis' heading of the  *)
             (* last step, until update_control() takes this step's        *)
  wish,      (* MoveGimbalAction: target and frame as they were asked for, *)
             (* until the first step resolves them                         *)
  aim,       (* history: where the gimbal's action goes, in the fixed      *)
             (* frame, and whether something replaced that goal            *)
  grip,      (* gripper: state and power, desired and target               *)
  gripAge    (* history: steps since the last GripperCtrl, up to 2         *)

wheelVars == <<engaged, wheels, standby>>
jointVars == <<joint, armGoal, servoGoal>>
gimbalVars == <<gimbal, heading, wish, aim>>
gripVars == <<grip, gripAge>>
bodyVars == <<uses, wheelVars, jointVars, gimbalVars, gripVars>>
allVars == <<vars, ledVars, bodyVars>>

Joints == Motors \cup {Yaw}
Angles == 0 .. MaxAngle
Spins == {-1, 0, 1}
Frames == {"chassis", "fixed", "gimbal"}
GripStates == {"pause", "open", "close"}

BodyTypeOK ==
  /\ RobotTypeOK
  /\ LedTypeOK
  /\ uses \in Uses
  /\ engaged \in BOOLEAN
  /\ wheels \in [desired : Velocities, target : Velocities]
  /\ standby \in BOOLEAN
  /\ joint \in [Joints -> [on : BOOLEAN, onTarget : BOOLEAN,
                           mode : {"angle", "speed"},
                           modeTarget : {"angle", "speed"},
                           speed : Spins, speedTarget : Spins,
                           angle : Int, angleTarget : Int, at : Angles]]
  /\ armGoal \in Angles
  /\ servoGoal \in [servo : Motors, angle : Angles] \cup {None}
  /\ gimbal \in [mode : {"attitude", "velocity"}, following : BOOLEAN,
                 performing : BOOLEAN, target : Int, spin : Spins,
                 frame : {"fixed", "chassis"}]
  /\ heading \in Headings
  /\ wish \in [angle : Angles, frame : Frames]
  /\ aim \in [at : Int, lost : BOOLEAN]
  /\ grip \in [state : GripStates, stateTarget : GripStates,
               power : Powers, powerTarget : Powers]
  /\ gripAge \in 0 .. 2

AtRest == [on |-> TRUE, onTarget |-> TRUE, mode |-> "angle",
           modeTarget |-> "angle", speed |-> 0, speedTarget |-> 0,
           angle |-> 0, angleTarget |-> 0, at |-> 0]

NoWish == [angle |-> 0, frame |-> "chassis"]
NoAim == [at |-> 0, lost |-> FALSE]

BodyInit ==
  /\ Init
  /\ LedInit
  /\ uses \in Uses
  /\ engaged = TRUE
  /\ wheels = [desired |-> 0, target |-> 0]
  /\ standby = FALSE
  /\ joint = [s \in Joints |-> AtRest]
  /\ armGoal = 0
  /\ servoGoal = None
  /\ gimbal = [mode |-> "attitude", following |-> FALSE, performing |-> FALSE,
               target |-> 0, spin |-> 0, frame |-> "fixed"]
  /\ heading = 0
  /\ wish = NoWish
  /\ aim = NoAim
  /\ grip = [state |-> "pause", stateTarget |-> "pause",
             power |-> FirstPower, powerTarget |-> FirstPower]
  /\ gripAge = 2

----------------------------------------------------------------------------
(* Messages for the wheels. *)

(* SetWheelSpeed and ChassisSpeedMode                                      *)
SetTargetVelocity(v) ==
  /\ wheels' = [wheels EXCEPT !.desired = v]
  /\ standby' = ~engaged
  /\ UNCHANGED <<vars, ledVars, uses, engaged, jointVars, gimbalVars, gripVars>>

(* Mutant of EngageWheelMotors: the chassis is not stopped.                *)
EngageWheelMotorsRolling(value) ==
  /\ value # engaged
  /\ engaged' = value
  /\ UNCHANGED <<wheels, standby>>
  /\ UNCHANGED <<vars, ledVars, uses, jointVars, gimbalVars, gripVars>>

(* ChassisSetWorkMode: engage_wheel_motors()                               *)
EngageWheelMotors(value) ==
  /\ value # engaged
  /\ engaged' = value
  /\ IF value
       THEN wheels' = [wheels EXCEPT !.desired = 0] /\ standby' = FALSE
       ELSE UNCHANGED <<wheels, standby>>
  /\ UNCHANGED <<vars, ledVars, uses, jointVars, gimbalVars, gripVars>>

(* PositionMove *)
PositionMove(id, p) ==
  /\ Submit("move", id, p, 0)
  /\ UNCHANGED <<ledVars, bodyVars>>

(* Sounds touch no actuator.                                               *)
PlaySound(id, p, n) ==
  /\ Submit("play_sound", id, p, n)
  /\ UNCHANGED <<ledVars, bodyVars>>

----------------------------------------------------------------------------
(* Messages for the gimbal. *)

(* Where the gimbal looks, in a frame, as far as the gimbal knows the      *)
(* chassis' heading.                                                       *)
Attitude(s, f) == s + IF f = "fixed" THEN heading ELSE 0

(* Mutant of HoldStill: the target is taken in the fixed frame always.     *)
HoldStillFixed(g, s) ==
  [g EXCEPT !.target = Attitude(s, "fixed"), !.frame = "fixed"]

(* reset_target_attitude()                                                 *)
HoldStill(g, s) ==
  LET f == IF g.following THEN "chassis" ELSE "fixed"
  IN  [g EXCEPT !.target = Attitude(s, f), !.frame = f]

(* A command takes the goal from an action that moves the gimbal.          *)
Replaced == [at |-> aim.at, lost |-> aim.lost \/ gimbal.performing]

(* SetRobotMode: follow_chassis(), which replaces the target also while an *)
(* action moves the gimbal towards it.                                     *)
FollowChassis(value) ==
  /\ value # gimbal.following
  /\ gimbal' = HoldStill([gimbal EXCEPT !.following = value], joint[Yaw].at)
  /\ aim' = Replaced
  /\ UNCHANGED <<vars, ledVars, uses, wheelVars, jointVars, heading, wish, gripVars>>

(* GimbalCtrlSpeed: set_target_speeds()                                    *)
GimbalCtrlSpeed(spin) ==
  /\ gimbal' = [gimbal EXCEPT !.mode = "velocity", !.spin = spin]
  /\ aim' = Replaced
  /\ UNCHANGED <<vars, ledVars, uses, wheelVars, jointVars, heading, wish, gripVars>>

(* GimbalCtrl: enable()                                                    *)
GimbalCtrl(value) ==
  /\ joint' = [joint EXCEPT ![Yaw].on = value]
  /\ UNCHANGED <<vars, ledVars, uses, wheelVars, armGoal, servoGoal, gimbalVars,
                 gripVars>>

(* GimbalRotate, and GimbalRecenter with angle 0 in the chassis' frame     *)
GimbalRotate(a, f, id, p) ==
  /\ Submit("move_gimbal", id, p, 0)
  /\ wish' = IF answer' = "accepted" THEN [angle |-> a, frame |-> f] ELSE wish
  /\ UNCHANGED <<ledVars, uses, wheelVars, jointVars, gimbal, heading, aim, gripVars>>

----------------------------------------------------------------------------
(* Messages for the servos, the arm and the gripper. *)

(* ServoModeSet *)
ServoModeSet(s, m) ==
  /\ joint' = [joint EXCEPT ![s].mode = m]
  /\ UNCHANGED <<vars, ledVars, uses, wheelVars, armGoal, servoGoal, gimbalVars,
                 gripVars>>

(* ServoControl: enable_servo() and set_target_servo_speed()               *)
Driven(j, on, spin) == [j EXCEPT !.on = on, !.speed = spin]

ServoControl(s, on, spin) ==
  /\ joint' = [joint EXCEPT ![s] = Driven(joint[s], on, spin)]
  /\ UNCHANGED <<vars, ledVars, uses, wheelVars, armGoal, servoGoal, gimbalVars,
                 gripVars>>

(* ServoCtrlSet *)
ServoCtrlSet(s, a, id, p) ==
  /\ Submit("move_servo", id, p, 0)
  /\ servoGoal' = IF answer' = "accepted" THEN [servo |-> s, angle |-> a]
                                          ELSE servoGoal
  /\ UNCHANGED <<ledVars, uses, wheelVars, joint, armGoal, gimbalVars, gripVars>>

(* RoboticArmMoveCtrl: a goal the arm can reach.                           *)
RoboticArmMoveCtrl(a, id, p) ==
  /\ Submit("move_arm", id, p, 0)
  /\ armGoal' = IF answer' = "accepted" THEN a ELSE armGoal
  /\ UNCHANGED <<ledVars, uses, wheelVars, joint, servoGoal, gimbalVars, gripVars>>

GripperCtrl(s, p) ==
  /\ grip' = [grip EXCEPT !.state = s, !.power = p]
  /\ gripAge' = 0
  /\ UNCHANGED <<vars, ledVars, uses, wheelVars, jointVars, gimbalVars>>

Message ==
  \/ /\ "wheels" \in uses
     /\ \/ \E v \in Velocities : SetTargetVelocity(v)
        \/ \E b \in BOOLEAN : EngageWheelMotors(b)
        \/ \E id \in Ids \cup {None}, p \in Periods : PositionMove(id, p)
        \/ \E id \in Ids \cup {None}, p \in Periods, n \in 0 .. MaxPlays :
             PlaySound(id, p, n)
  \/ /\ "gimbal" \in uses
     /\ \/ \E b \in BOOLEAN : FollowChassis(b) \/ GimbalCtrl(b)
        \/ \E v \in Rates : GimbalCtrlSpeed(v)
        \/ \E a \in Angles, f \in Frames, id \in Ids \cup {None},
              p \in Periods : GimbalRotate(a, f, id, p)
  \/ /\ "servos" \in uses
     /\ \/ \E s \in Motors, m \in {"angle", "speed"} : ServoModeSet(s, m)
        \/ \E s \in Motors, b \in BOOLEAN, v \in Rates : ServoControl(s, b, v)
        \/ \E s \in Motors, a \in Angles, id \in Ids \cup {None},
              p \in Periods : ServoCtrlSet(s, a, id, p)
        \/ \E a \in Angles, id \in Ids \cup {None}, p \in Periods :
             RoboticArmMoveCtrl(a, id, p)
  \/ /\ "gripper" \in uses
     /\ \E s \in GripStates, p \in Powers : GripperCtrl(s, p)
  \/ /\ "leds" \in uses
     /\ \/ \E e \in Effects, c \in Colors, mask \in SUBSET Bulbs,
              on, off \in Phases, loop \in BOOLEAN :
             SetLedEffect(e, c, mask, on, off, loop)
        \/ \E b \in BOOLEAN : SetBlasterLed(b)
     /\ UNCHANGED <<vars, bodyVars>>

----------------------------------------------------------------------------
(* A step. *)

InSlot(k) == k \in Kinds /\ ~Empty(k)
Begins(k) == InSlot(k) /\ running[k].state = "started"

(* What the sensors of a joint may read next. *)
Readings(s) ==
  LET j == joint[s]
  IN  {j.at} \cup
      (IF ~j.onTarget THEN {}
       ELSE IF j.modeTarget = "speed" THEN {j.at + j.speedTarget} \cap Angles
       ELSE {j.angleTarget} \cap Angles)

(* fixed_angles(): the goal in the fixed frame.                            *)
Resolved(s) ==
  wish.angle + (IF wish.frame = "fixed" THEN 0
                ELSE IF wish.frame = "chassis" THEN heading ELSE heading + s)

(* The first step of a MoveGimbalAction.                                   *)
Aimed(s) ==
  IF Begins("move_gimbal")
    THEN [gimbal EXCEPT !.mode = "attitude", !.performing = TRUE, !.spin = 0,
                        !.target = Resolved(s), !.frame = "fixed"]
    ELSE gimbal

(* Mutant of Distance: a following gimbal is measured in the chassis' frame*)
DistanceFollowing(g, s) ==
  g.mode = "attitude"
    /\ g.target # Attitude(s, IF g.following THEN "chassis" ELSE "fixed")

(* distance() is not zero: in velocity mode it always is.                  *)
Distance(g, s) ==
  g.mode = "attitude"
    /\ g.target # Attitude(s, IF ~g.performing /\ g.following
                                THEN "chassis" ELSE "fixed")

(* MoveGimbalAction::do_step(), when it ends: the gimbal holds still.      *)
Ended(g, s) == [HoldStill(g, s) EXCEPT !.performing = FALSE]

(* The speed towards a target, clamped to the joint's greatest.            *)
Sign(x) == IF x > 0 THEN 1 ELSE IF x < 0 THEN -1 ELSE 0

(* will_pass_limits() *)
PassesLimits(s, v) ==
  \/ s + v < 0 /\ v <= 0
  \/ s + v > MaxAngle /\ v >= 0

(* Gimbal::update_control(), which knows this step's heading h: what it    *)
(* wants of the yaw servo.  The turning of the chassis is compensated, so  *)
(* that the world frame holds.                                             *)
Wanted(g, h, s) ==
  IF g.mode = "velocity" THEN [mode |-> "speed", speed |-> g.spin]
  ELSE IF ~g.following \/ g.performing
    THEN [mode |-> "speed", speed |-> Sign(g.target - s - h)]
  ELSE [mode |-> "angle", speed |-> 0]

(* ... and what it gives up at the end of the servo's range.               *)
Limited(g, h, s) ==
  LET w == Wanted(g, h, s)
  IN  IF w.mode = "angle" \/ ~PassesLimits(s, w.speed) THEN g
      ELSE IF g.mode = "velocity" THEN [g EXCEPT !.spin = 0]
      ELSE [g EXCEPT !.target = s + h]

(* Robot::control_servos() for a servo: one that is off is told no more.   *)
Told(j) ==
  IF ~j.on THEN [j EXCEPT !.onTarget = FALSE]
  ELSE IF j.mode = "speed"
    THEN [j EXCEPT !.onTarget = TRUE, !.modeTarget = "speed",
                   !.speedTarget = IF PassesLimits(j.at, j.speed) THEN 0
                                                                  ELSE j.speed]
    ELSE [j EXCEPT !.onTarget = TRUE, !.modeTarget = "angle",
                   !.angleTarget = j.angle]

(* Mutant of Gripped: only a new state is looked at.                       *)
GrippedByState ==
  IF grip.state # grip.stateTarget
    THEN [grip EXCEPT !.stateTarget = grip.state]
    ELSE grip

(* state.check() || power.check(): a new state is told with the power that *)
(* was told before, the new power follows in the next step.                *)
Gripped ==
  IF grip.state # grip.stateTarget
    THEN [grip EXCEPT !.stateTarget = grip.state]
    ELSE [grip EXCEPT !.powerTarget = grip.power]

(* The wheels: a MoveAction sets them in every step, and stands at its     *)
(* end; motors that are not engaged are told nothing.                      *)
WheelsStep(arrives) ==
  /\ UNCHANGED engaged
  /\ standby' = IF InSlot("move") THEN ~engaged ELSE standby
  /\ \E v \in Velocities :
       /\ v = IF ~InSlot("move") THEN wheels.desired
              ELSE IF arrives THEN 0 ELSE v
       /\ wheels' = [desired |-> v,
                     target |-> IF engaged THEN v ELSE wheels.target]

(* The yaw servo is wanted by the gimbal; the motors are wanted by the     *)
(* arm's action in every step and by a servo's in its first, which has the *)
(* last word.                                                              *)
Desired(at, w, target) ==
  [j \in Joints |->
    [joint[j] EXCEPT
      !.at = at[j],
      !.mode = IF j = Yaw THEN w.mode ELSE @,
      !.speed = IF j = Yaw /\ w.mode = "speed" THEN w.speed ELSE @,
      !.angle = IF j = Yaw THEN (IF w.mode = "angle" THEN target ELSE @)
                ELSE IF Begins("move_servo") /\ servoGoal.servo = j
                  THEN servoGoal.angle
                ELSE IF InSlot("move_arm") THEN armGoal ELSE @]]

(* The gimbal after its action's step, which comes before update_control().*)
Steered(s) ==
  LET g == Aimed(s)
  IN  IF InSlot("move_gimbal") /\ ~Distance(g, s) THEN Ended(g, s) ELSE g

(* What the servos are wanted to do. *)
Want(h, at) ==
  LET g == Steered(at[Yaw])
  IN  Desired(at, Wanted(g, h, at[Yaw]), g.target)

(* The actions that find their distance vanished. *)
Reached(k, h, at, moved) ==
  CASE k = "move_gimbal" -> ~Distance(Aimed(at[Yaw]), at[Yaw])
    [] k = "move_arm" -> \A m \in Motors : at[m] = armGoal
    [] k = "move_servo" ->
         at[servoGoal.servo] = Want(h, at)[servoGoal.servo].angle
    [] OTHER -> k \in moved

GimbalStep(h, s) ==
  LET g == Steered(s)
      turned == g.performing /\ gimbal'.target # g.target
  IN  /\ gimbal' = Limited(g, h, s)
      /\ heading' = h
      /\ aim' = IF ~InSlot("move_gimbal") THEN NoAim
                ELSE IF Begins("move_gimbal")
                  THEN [at |-> Aimed(s).target, lost |-> turned]
                ELSE [at |-> aim.at, lost |-> aim.lost \/ turned]
      /\ wish' = IF Begins("move_gimbal") THEN NoWish ELSE wish

(* Robot::do_step(): sensors, actions, gimbal, wheels, LEDs, servos and    *)
(* gripper.                                                                *)
BodyStepWith(h, at, moved) ==
  /\ \A j \in Joints : at[j] \in Readings(j)
  /\ "gimbal" \in uses \/ h = heading
  /\ "wheels" \in uses \/ moved = {}
  /\ StepWith({k \in Kinds : ~Empty(k) /\ Reached(k, h, at, moved)})
  /\ WheelsStep("move" \in moved)
  /\ joint' = [j \in Joints |-> Told(Want(h, at)[j])]
  /\ GimbalStep(h, at[Yaw])
  /\ grip' = Gripped
  /\ gripAge' = IF gripAge < 2 THEN gripAge + 1 ELSE gripAge
  /\ LedStep
  /\ UNCHANGED <<uses, armGoal, servoGoal>>

BodyStep ==
  \E h \in Headings, at \in [Joints -> Angles], moved \in SUBSET {"move"} :
    BodyStepWith(h, at, moved)

BodyNext == Message \/ BodyStep

BodySpec == BodyInit /\ [][BodyNext]_allVars

----------------------------------------------------------------------------
(* What was asked of the wheels while their motors were not engaged is     *)
(* never driven, neither by a client nor by an action that kept moving:    *)
(* engaging them starts from rest (robot.hpp:73-82, robot.cpp:60-66).      *)
StandbyOrdersAreDropped ==
  [][wheels'.target # wheels.target => ~standby']_allVars

(* The gimbal follows a target in the frame the target was meant in,       *)
(* through actions, mode changes and limits, unless the robot's mode was   *)
(* changed under a running action (gimbal.hpp:118-141, gimbal.cpp:11-48).  *)
TargetKeepsItsFrame ==
  gimbal.mode = "attitude" /\ ~aim.lost =>
    gimbal.frame = IF gimbal.following /\ ~gimbal.performing
                     THEN "chassis" ELSE "fixed"

(* A gimbal action that succeeds has brought the gimbal where it was asked *)
(* to look when it started, however the chassis turned since then, but for *)
(* the last step: the action is run before update_control() and measures   *)
(* from the heading of the step before (robot.cpp:173-187, gimbal.cpp:6),  *)
(* so that the gimbal is off by what the chassis turned in that one step.  *)
(* Not so when a command or a limit took the goal away: a speed command    *)
(* ends the action with success wherever it is (gimbal.hpp:45-57).         *)
GimbalMoveReaches ==
  [][InSlot("move_gimbal") /\ ~InSlot("move_gimbal")' /\ ~aim'.lost =>
       joint'[Yaw].at + heading' - aim'.at = heading' - heading]_allVars

(* Two steps after a command the gripper has been told all of it, state    *)
(* and power, although one step tells one of them (robot.cpp:195-199).     *)
GripperIsToldAll ==
  gripAge = 2 => grip.stateTarget = grip.state /\ grip.powerTarget = grip.power

=============================================================================
