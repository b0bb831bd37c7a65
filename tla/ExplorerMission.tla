-------------------------- MODULE ExplorerMission --------------------------
(***************************************************************************)
(* explorer_node.py: the mission state machine, composed with its Nav2     *)
(* client (NavClient), the gripper script it drives over ZMQ               *)
(* (explorer/gripper.py, gripper_helpers.lua) and the robot it moves       *)
(* through /cmd_vel.                                                       *)
(*                                                                         *)
(* The node runs on a single-threaded executor: the control tick and every *)
(* callback are atomic, and they interleave in any order.  A tick whose    *)
(* handler returns early without effect is a stuttering step.  What the    *)
(* sensors report is chosen freely: a transform lookup fails or not, the   *)
(* action server is there or not, the cube is seen in any of three ways.   *)
(*                                                                         *)
(* Geometry is reduced to what the handlers branch on.  A cube detection   *)
(* is "off" (outside the yaw tolerance), "far" or "near" (within           *)
(* pickup_lunge_start_m); lengths driven on odometry are counted in steps. *)
(***************************************************************************)
EXTENDS NavClient, Naturals

CONSTANTS
  Views,           (* what a cube detection may show                       *)
  GripperTimeout,  (* gripper_timeout_s, in clock steps                    *)
  CubeLiveTimeout, (* cube_live_timeout_s, in clock steps                  *)
  MaxLunge,        (* the longest approach an odometry lunge covers        *)
  BackupDist       (* drop_backup_m                                        *)

ASSUME MissionAssumption ==
  /\ Places = {"frontier", "key", "plate"}
  /\ Views \subseteq {"off", "far", "near"}
  /\ GripperTimeout \in Nat
  /\ CubeLiveTimeout \in Nat
  /\ MaxLunge \in Nat
  /\ BackupDist \in Nat

VARIABLES
  alive,        (* the node spins                                          *)
  started,      (* _started                                                *)
  mapSeen,      (* current_map is not None                                 *)
  targets,      (* the keys of targets                                     *)
  mode,         (* mode                                                    *)
  actionAge,    (* clock_s() - action_t, saturating at the timeout         *)
  cubeLive,     (* _cube_live: what the last detection showed; "none" when *)
                (* there is none or it is past cube_live_timeout_s, after  *)
                (* which it is never read again                            *)
  cubeAge,      (* its age, in clock steps                                 *)
  lungeActive,  (* _lunge_active                                           *)
  lungeDist,    (* _lunge_dist                                             *)
  advanced,     (* odometry distance from _lunge_start or _backup_start    *)
  cmd,          (* the last velocity published on /cmd_vel                 *)
  jawTarget,    (* _ext_target_state of the Lua script                     *)
  jawState,     (* _ext_current_state of the Lua script                    *)
  cubeVisible,  (* the cube's detectable property                          *)
  gaveUp        (* history: the wait for closed jaws ended by its timeout  *)

startVars == <<started, mapSeen, targets>>
cubeVars == <<cubeLive, cubeAge>>
lungeVars == <<lungeActive, lungeDist>>
jawVars == <<jawTarget, jawState>>
carryVars == <<cubeVisible, gaveUp>>
vars == <<navVars, alive, startVars, mode, actionAge, cubeVars, lungeVars,
          advanced, cmd, jawVars, carryVars>>

Landmarks == {"cube", "plate", "door"}
State == {"explore", "go_to_key", "pickup_open", "pickup_align",
          "pickup_close", "go_to_plate", "drop_align", "drop_open",
          "drop_backup", "done"}
NavStates == {"explore", "go_to_key", "go_to_plate"}
JawWaits == {"pickup_open", "pickup_close", "drop_open"}
MaxLeg == IF MaxLunge > BackupDist THEN MaxLunge ELSE BackupDist

TypeOK ==
  /\ NavTypeOK
  /\ alive \in BOOLEAN
  /\ started \in BOOLEAN
  /\ mapSeen \in BOOLEAN
  /\ targets \subseteq Landmarks
  /\ mode \in State
  /\ actionAge \in 0 .. GripperTimeout
  /\ cubeLive \in Views \cup {"none"}
  /\ cubeAge \in 0 .. CubeLiveTimeout
  /\ lungeActive \in BOOLEAN
  /\ lungeDist \in 0 .. MaxLunge
  /\ advanced \in 0 .. MaxLeg
  /\ cmd \in {"zero", "turn", "forward", "back", "nav"}
  /\ jawTarget \in {"none", "open", "closed"}
  /\ jawState \in {"none", "open", "closed"}
  /\ cubeVisible \in BOOLEAN
  /\ gaveUp \in BOOLEAN

Init ==
  /\ NavInit
  /\ alive = TRUE
  /\ started = FALSE
  /\ mapSeen = FALSE
  /\ targets = {}
  /\ mode = "explore"
  /\ actionAge = 0
  /\ cubeLive = "none"
  /\ cubeAge = 0
  /\ lungeActive = FALSE
  /\ lungeDist = 0
  /\ advanced = 0
  /\ cmd = "zero"
  /\ jawTarget = "none"
  /\ jawState = "none"
  /\ cubeVisible = TRUE
  /\ gaveUp = FALSE

----------------------------------------------------------------------------
(* Subscriptions. *)

OnMap ==
  /\ alive
  /\ mapSeen' = TRUE
  /\ UNCHANGED <<navVars, alive, started, targets, mode, actionAge, cubeVars,
                 lungeVars, advanced, cmd, jawVars, carryVars>>

(* Only the set of landmarks matters: a refined position changes where the *)
(* next goal lies, not what the state machine does.                        *)
OnTarget(n) ==
  /\ alive
  /\ targets' = targets \cup {n}
  /\ UNCHANGED <<navVars, alive, started, mapSeen, mode, actionAge, cubeVars,
                 lungeVars, advanced, cmd, jawVars, carryVars>>

OnCubeLive(v) ==
  /\ alive
  /\ cubeLive' = v
  /\ cubeAge' = 0
  /\ UNCHANGED <<navVars, alive, startVars, mode, actionAge, lungeVars,
                 advanced, cmd, jawVars, carryVars>>

----------------------------------------------------------------------------
(* The control tick: startup, then the handler of the current state. *)

(* _is_ready(): the action server, a map and a transform are there.        *)
Starts ==
  /\ alive
  /\ ~started
  /\ mapSeen
  /\ started' = TRUE
  /\ UNCHANGED <<navVars, alive, mapSeen, targets, mode, actionAge, cubeVars,
                 lungeVars, advanced, cmd, jawVars, carryVars>>

In(s) == alive /\ started /\ mode = s

(* _transition(): cancel the Nav2 goal, then change state. *)
Transition(s) == mode' = s /\ Cancel

(* _transition() and then a navigation goal, unless the pose or the action *)
(* server is missing: then the next tick retries.                          *)
TransitionAndGo(s, p) ==
  /\ mode' = s
  /\ Cancel \/ CancelThenSend(p)

(* A script call over ZMQ raises when the simulator does not serve it;     *)
(* nothing catches the exception, so spin() ends and main() publishes a    *)
(* last zero velocity.  Handlers that call the script have stopped the     *)
(* robot already.                                                          *)
Raises == alive' = FALSE

(* gripper.open() and gripper.close() *)
Command(t) ==
  \/ jawTarget' = t /\ UNCHANGED alive
  \/ Raises /\ UNCHANGED jawTarget

(* elapsed_s >= timeout_s in GripperIO._reached() *)
TimedOut == actionAge >= GripperTimeout

(* Mutant of Reached: any report of the script counts. *)
ReachedByAnyReport(t) == TimedOut \/ jawState # "none"

(* Mutant of Reached: no timeout. *)
ReachedWithoutTimeout(t) == jawState = t

(* GripperIO._reached(): the script's state counts until the timeout does. *)
Reached(t) == TimedOut \/ jawState = t

(* Mutant of Explore: a frontier goal is sent without looking at `active`. *)
ExploreWhileActive ==
  /\ In("explore")
  /\ \/ targets = Landmarks /\ TransitionAndGo("go_to_key", "key")
     \/ targets # Landmarks /\ Send("frontier") /\ UNCHANGED mode
  /\ UNCHANGED <<alive, startVars, actionAge, cubeVars, lungeVars, advanced,
                 cmd, jawVars, carryVars>>

(* _explore() *)
Explore ==
  /\ In("explore")
  /\ \/ targets = Landmarks /\ TransitionAndGo("go_to_key", "key")
     \/ /\ targets # Landmarks
        /\ ~active
        /\ Send("frontier")
        /\ UNCHANGED mode
  /\ UNCHANGED <<alive, startVars, actionAge, cubeVars, lungeVars, advanced,
                 cmd, jawVars, carryVars>>

GoToKeyRetries ==
  /\ In("go_to_key")
  /\ ~active /\ ~succeeded
  /\ Send("key")
  /\ UNCHANGED <<alive, startVars, mode, actionAge, cubeVars, lungeVars,
                 advanced, cmd, jawVars, carryVars>>

(* Mutant of GoToKeyArrives: an idle client is taken for an arrived robot. *)
GoToKeyArrivesUnchecked ==
  /\ In("go_to_key")
  /\ ~active
  /\ cmd' = "zero"
  /\ lungeActive' = FALSE
  /\ Transition("pickup_open")
  /\ actionAge' = 0
  /\ Command("open")
  /\ UNCHANGED <<startVars, cubeVars, lungeDist, advanced, jawState,
                 carryVars>>

GoToKeyArrives ==
  /\ In("go_to_key")
  /\ ~active /\ succeeded
  /\ cmd' = "zero"
  /\ lungeActive' = FALSE
  /\ Transition("pickup_open")
  /\ actionAge' = 0
  /\ Command("open")
  /\ UNCHANGED <<startVars, cubeVars, lungeDist, advanced, jawState,
                 carryVars>>

PickupOpen ==
  /\ In("pickup_open")
  /\ cmd' = "zero"
  /\ \/ Reached("open") /\ Transition("pickup_align") /\ UNCHANGED alive
     \/ ~Reached("open") /\ UNCHANGED <<navVars, mode, alive>>
     \/ ~TimedOut /\ Raises /\ UNCHANGED <<navVars, mode>>
  /\ UNCHANGED <<startVars, actionAge, cubeVars, lungeVars, advanced, jawVars,
                 carryVars>>

(* _cube_fresh() *)
Fresh == cubeLive # "none"

(* A stale detection is a stuttering tick: the last velocity stands. *)
PickupAlign ==
  /\ In("pickup_align")
  /\ ~lungeActive
  /\ Fresh
  /\ \/ cubeLive = "off" /\ cmd' = "turn" /\ UNCHANGED <<lungeVars, advanced>>
     \/ cubeLive = "far" /\ cmd' = "forward" /\ UNCHANGED <<lungeVars, advanced>>
     \/ /\ cubeLive = "near"
        /\ lungeActive' = TRUE
        /\ lungeDist' \in 0 .. MaxLunge
        /\ advanced' = 0
        /\ cmd' = "zero"
  /\ UNCHANGED <<navVars, alive, startVars, mode, actionAge, cubeVars,
                 jawVars, carryVars>>

PickupLunges ==
  /\ In("pickup_align")
  /\ lungeActive
  /\ advanced < lungeDist
  /\ cmd' = "forward"
  /\ UNCHANGED <<navVars, alive, startVars, mode, actionAge, cubeVars,
                 lungeVars, advanced, jawVars, carryVars>>

(* Mutant of PickupEngages: the lunge ends without stop(). *)
PickupEngagesRolling ==
  /\ In("pickup_align")
  /\ lungeActive
  /\ advanced >= lungeDist
  /\ UNCHANGED cmd
  /\ lungeActive' = FALSE
  /\ Transition("pickup_close")
  /\ actionAge' = 0
  /\ Command("closed")
  /\ UNCHANGED <<startVars, cubeVars, lungeDist, advanced, jawState,
                 carryVars>>

(* Mutant of PickupEngages: _lunge_active is not reset. *)
PickupEngagesStillLunging ==
  /\ In("pickup_align")
  /\ lungeActive
  /\ advanced >= lungeDist
  /\ cmd' = "zero"
  /\ UNCHANGED lungeActive
  /\ Transition("pickup_close")
  /\ actionAge' = 0
  /\ Command("closed")
  /\ UNCHANGED <<startVars, cubeVars, lungeDist, advanced, jawState,
                 carryVars>>

(* The end of _pickup_lunge(), with _engage_cube(). *)
PickupEngages ==
  /\ In("pickup_align")
  /\ lungeActive
  /\ advanced >= lungeDist
  /\ cmd' = "zero"
  /\ lungeActive' = FALSE
  /\ Transition("pickup_close")
  /\ actionAge' = 0
  /\ Command("closed")
  /\ UNCHANGED <<startVars, cubeVars, lungeDist, advanced, jawState,
                 carryVars>>

PickupClose ==
  /\ In("pickup_close")
  /\ cmd' = "zero"
  /\ \/ /\ Reached("closed")
        /\ cubeVisible' = FALSE
        /\ gaveUp' = (TimedOut /\ jawState # "closed")
        /\ TransitionAndGo("go_to_plate", "plate")
        /\ UNCHANGED alive
     \/ ~Reached("closed") /\ UNCHANGED <<navVars, mode, alive, carryVars>>
     \/ Raises /\ UNCHANGED <<navVars, mode, carryVars>>
  /\ UNCHANGED <<startVars, actionAge, cubeVars, lungeVars, advanced, jawVars>>

GoToPlateRetries ==
  /\ In("go_to_plate")
  /\ ~active /\ ~succeeded
  /\ Send("plate")
  /\ UNCHANGED <<alive, startVars, mode, actionAge, cubeVars, lungeVars,
                 advanced, cmd, jawVars, carryVars>>

(* Mutant of GoToPlateArrives: the precise alignment is skipped. *)
GoToPlateArrivesAndDrops ==
  /\ In("go_to_plate")
  /\ ~active /\ succeeded
  /\ cmd' = "zero"
  /\ Transition("drop_open")
  /\ UNCHANGED <<alive, startVars, actionAge, cubeVars, lungeVars, advanced,
                 jawVars, carryVars>>

GoToPlateArrives ==
  /\ In("go_to_plate")
  /\ ~active /\ succeeded
  /\ cmd' = "zero"
  /\ Transition("drop_align")
  /\ UNCHANGED <<alive, startVars, actionAge, cubeVars, lungeVars, advanced,
                 jawVars, carryVars>>

(* The plate is off to a side, too far, too close (the robot backs up), or *)
(* exactly the carried distance ahead.                                     *)
DropAlign ==
  /\ In("drop_align")
  /\ \/ /\ cmd' \in {"turn", "forward", "back"}
        /\ UNCHANGED <<navVars, mode, actionAge, alive, jawTarget>>
     \/ /\ cmd' = "zero"
        /\ Transition("drop_open")
        /\ actionAge' = 0
        /\ Command("open")
  /\ UNCHANGED <<startVars, cubeVars, lungeVars, advanced, jawState, carryVars>>

(* _drop_open() stands still and waits for the jaws, and for an odometry   *)
(* pose to measure the backup from.                                        *)
DropWaits ==
  /\ In("drop_open")
  /\ cmd' = "zero"
  /\ UNCHANGED alive \/ Raises
  /\ UNCHANGED <<navVars, startVars, mode, actionAge, cubeVars, lungeVars,
                 advanced, jawVars, carryVars>>

(* Mutant of DropReleases: the cube is not shown again. *)
DropReleasesHidden ==
  /\ In("drop_open")
  /\ Reached("open")
  /\ cmd' = "zero"
  /\ advanced' = 0
  /\ Transition("drop_backup")
  /\ UNCHANGED <<alive, startVars, actionAge, cubeVars, lungeVars, jawVars,
                 carryVars>>

DropReleases ==
  /\ In("drop_open")
  /\ Reached("open")
  /\ cmd' = "zero"
  /\ cubeVisible' = TRUE
  /\ advanced' = 0
  /\ Transition("drop_backup")
  /\ UNCHANGED <<alive, startVars, actionAge, cubeVars, lungeVars, jawVars,
                 gaveUp>>

(* Mutant of DropBacksUp: the velocity is lost, nothing moves the robot. *)
DropBacksUpStanding ==
  /\ In("drop_backup")
  /\ cmd' = "zero"
  /\ \/ advanced < BackupDist /\ UNCHANGED <<navVars, mode>>
     \/ advanced >= BackupDist /\ Transition("done")
  /\ UNCHANGED <<alive, startVars, actionAge, cubeVars, lungeVars, advanced,
                 jawVars, carryVars>>

DropBacksUp ==
  /\ In("drop_backup")
  /\ \/ advanced < BackupDist /\ cmd' = "back" /\ UNCHANGED <<navVars, mode>>
     \/ advanced >= BackupDist /\ cmd' = "zero" /\ Transition("done")
  /\ UNCHANGED <<alive, startVars, actionAge, cubeVars, lungeVars, advanced,
                 jawVars, carryVars>>

----------------------------------------------------------------------------
(* The callbacks of the Nav2 client run on the same executor. *)
NavCallback ==
  /\ alive
  /\ Callback
  /\ UNCHANGED <<alive, startVars, mode, actionAge, cubeVars, lungeVars,
                 advanced, cmd, jawVars, carryVars>>

(* Ctrl-C ends spin(): main() publishes a last zero velocity, unless the   *)
(* signal has shut the ROS context down first, and cancels no Nav2 goal.   *)
Shutdown ==
  /\ alive
  /\ alive' = FALSE
  /\ cmd' \in {"zero", cmd}
  /\ UNCHANGED <<navVars, startVars, mode, actionAge, cubeVars, lungeVars,
                 advanced, jawVars, carryVars>>

----------------------------------------------------------------------------
(* The world around the node. *)

(* Time passes: a pending gripper wait and the last detection grow older.  *)
ClockAdvances ==
  /\ alive
  /\ actionAge' = IF mode \in JawWaits /\ ~TimedOut THEN actionAge + 1
                                                    ELSE actionAge
  /\ IF cubeAge < CubeLiveTimeout
       THEN cubeAge' = (IF Fresh THEN cubeAge + 1 ELSE 0) /\ UNCHANGED cubeLive
       ELSE cubeAge' = 0 /\ cubeLive' = "none"
  /\ UNCHANGED <<navVars, alive, startVars, mode, lungeVars, advanced, cmd,
                 jawVars, carryVars>>

(* The stock gripper script reaches its target and reports it. *)
JawsMove ==
  /\ jawState # jawTarget
  /\ jawState' = jawTarget
  /\ UNCHANGED <<navVars, alive, startVars, mode, actionAge, cubeVars,
                 lungeVars, advanced, cmd, jawTarget, carryVars>>

(* The wheels follow the last velocity.  `advanced` is an unsigned         *)
(* distance, counted up to the longest leg: a goal Nav2 still drives to    *)
(* may take the robot either way.                                          *)
RobotMoves ==
  /\ lungeActive \/ mode = "drop_backup"
  /\ \/ /\ cmd \in {"forward", "back", "nav"}
        /\ advanced < MaxLeg
        /\ advanced' = advanced + 1
     \/ /\ cmd = "nav"
        /\ advanced > 0
        /\ advanced' = advanced - 1
  /\ UNCHANGED <<navVars, alive, startVars, mode, actionAge, cubeVars,
                 lungeVars, cmd, jawVars, carryVars>>

(* Nav2's controller publishes on the same /cmd_vel while it drives ...    *)
NavDrives ==
  /\ Executing # {}
  /\ cmd' = "nav"
  /\ UNCHANGED <<navVars, alive, startVars, mode, actionAge, cubeVars,
                 lungeVars, advanced, jawVars, carryVars>>

(* ... and a zero velocity when its goal ends. *)
NavServes ==
  /\ Server
  /\ cmd' = IF Executing # {} /\ Executing' = {} THEN "zero" ELSE cmd
  /\ UNCHANGED <<alive, startVars, mode, actionAge, cubeVars, lungeVars,
                 advanced, jawVars, carryVars>>

----------------------------------------------------------------------------
Tick ==
  \/ Starts
  \/ Explore
  \/ GoToKeyRetries \/ GoToKeyArrives
  \/ PickupOpen \/ PickupAlign \/ PickupLunges \/ PickupEngages \/ PickupClose
  \/ GoToPlateRetries \/ GoToPlateArrives
  \/ DropAlign \/ DropWaits \/ DropReleases \/ DropBacksUp

Message ==
  \/ OnMap
  \/ \E n \in Landmarks : OnTarget(n)
  \/ \E v \in Views : OnCubeLive(v)
  \/ NavCallback

World ==
  \/ ClockAdvances \/ JawsMove \/ RobotMoves \/ NavDrives \/ NavServes

Next == Tick \/ Message \/ World \/ Shutdown

Spec == Init /\ [][Next]_vars

(* The timer keeps running, time passes, the wheels turn and Nav2 ends its *)
(* goals; odometry is there again and again.  Nothing is assumed of the    *)
(* gripper script, the camera, the map or the order of Nav2's answers.     *)
Fairness ==
  /\ WF_vars(PickupOpen \/ PickupClose \/ DropReleases)
  /\ WF_vars(PickupLunges \/ PickupEngages \/ DropBacksUp)
  /\ WF_vars(NavServes)
  /\ WF_vars(ClockAdvances) /\ WF_vars(RobotMoves)

FairSpec == Spec /\ Fairness

----------------------------------------------------------------------------
(* The poses a navigation state sends goals for. *)
PlaceOf(s) == IF s = "explore" THEN "frontier"
              ELSE IF s = "go_to_key" THEN "key"
              ELSE IF s = "go_to_plate" THEN "plate"
              ELSE None

(* The client of the mission behaves as NavClient's caller may, so what    *)
(* holds of every NavClient holds here (explorer_node.py:214-231, 236-240, *)
(* 250-254, 422 check `active`, or cancel, before they send).              *)
UsesNavClientProperly == NavSpec

(* The mission keeps the documented order of stages, jaw commands and      *)
(* cube visibility (explorer_node.py:208-336, architecture.md:149-162).    *)
Order == INSTANCE MissionOrder
           WITH running <- alive, stage <- mode, jaws <- jawTarget,
                hidden <- ~cubeVisible
KeepsOrder == Order!OrderSpec

(* While no goal was sent over an unanswered one, Nav2 has nothing left to *)
(* do once the mission leaves a navigation state: visual servoing, the     *)
(* lunge and the backup never share the wheels with a leftover goal        *)
(* (explorer_node.py:419-423).                                             *)
ServoingIsAlone ==
  ~overlapped /\ mode \notin NavStates => Outstanding = {}

(* The jaws open or close only under a standing robot, and the mission     *)
(* ends standing: every path into these states has stopped the wheels      *)
(* before, and nobody else publishes (explorer_node.py:242, 266, 273, 303, *)
(* 311, 331, 388).                                                         *)
StandsWhileJawsMove ==
  ~overlapped /\ alive /\ mode \in JawWaits \cup {"done"} => cmd = "zero"

(* The cube is hidden from the lidar for exactly as long as it is carried: *)
(* hidden all the way to the plate, and never hidden in a state where it   *)
(* is not between the jaws (gripper.py:42-46, explorer_node.py:277, 318).  *)
HiddenWhileCarried ==
  /\ mode \in {"go_to_plate", "drop_align"} => ~cubeVisible
  /\ ~cubeVisible => mode \in {"go_to_plate", "drop_align", "drop_open"}

(* Unless the wait for the jaws was given up, the robot carries the cube   *)
(* in closed jaws: no later command or late report of an earlier one opens *)
(* them before the plate (explorer_node.py:271-279, gripper.py:48-55).     *)
CarriesInClosedJaws ==
  mode \in {"go_to_plate", "drop_align"} /\ ~gaveUp =>
    jawTarget = "closed" /\ jawState = "closed"

(* The timeout keeps the mission from stalling in front of the cube if the *)
(* gripper script never reports (gripper.py:49-50).                        *)
PickupNeverStalls ==
  /\ mode = "pickup_open" ~> mode # "pickup_open" \/ ~alive
  /\ mode = "pickup_close" ~> mode # "pickup_close" \/ ~alive

(* Once at the plate with the jaws told to open, the mission completes,    *)
(* whatever the gripper reports (explorer_node.py:310-336).                *)
DropCompletes == mode = "drop_open" ~> mode = "done" \/ ~alive

(* A lunge that started ends: odometry reaches the frozen distance         *)
(* (explorer_node.py:378-391).                                             *)
LungeEnds == lungeActive ~> ~lungeActive \/ ~alive

----------------------------------------------------------------------------
(* What comments in explorer_node.py say and the code does not do. *)

(* "cancel any running Nav2 goal so it can't fire after we've moved on"    *)
(* (explorer_node.py:420): a goal that runs in a state it was not sent in  *)
(* has a cancel request on its way.                                        *)
LeftGoalsAreCancelled ==
  \A g \in Executing : place[g] = PlaceOf(mode) \/ g \in cancels

(* "act once it succeeds" (explorer_node.py:234-235): the robot starts to  *)
(* pick up only when the goal in front of the key was reached.             *)
ActsOnceItSucceeds ==
  [][mode = "go_to_key" /\ mode' = "pickup_open" =>
       /\ latest \in Goals
       /\ place[latest] = "key"
       /\ server[latest] = "succeeded"]_vars
=============================================================================
