---------------------------- MODULE PluginRobots ----------------------------
(***************************************************************************)
(* coppeliaSim_plugin/plugin.cpp: the robots of a CoppeliaSim scene, the   *)
(* handles by which the scripts of their models command them, and the      *)
(* remote API of each on a network thread of its own.                      *)
(*                                                                         *)
(* Three tables belong together: the robots, their remote APIs and the     *)
(* next handle.  Creating a robot fills them one after the other and may   *)
(* fail between any two; the end of the simulation empties them one after  *)
(* the other while the network threads still run.                          *)
(*                                                                         *)
(* One script per model, a child script: it ends with the simulation, and  *)
(* it commands the robot by the handle that its create command returned.   *)
(***************************************************************************)
EXTENDS Integers

CONSTANTS
  Models,     (* the RoboMaster models of the scene                        *)
  Has,        (* the parts that the tree of each model holds               *)
  MaxRobots,  (* bound: robots made in one simulation                      *)
  None

Parts == {"wheels", "chassis leds", "gimbal motors", "gimbal leds"}
RobotHandles == 0 .. MaxRobots - 1

ASSUME RobotsAssumption ==
  /\ MaxRobots \in Nat
  /\ None \notin Models \cup Int
  /\ Has \in [Models -> SUBSET Parts]

VARIABLES
  robots,      (* _robots: the model each one is the controller of, and    *)
               (* whose orders it has                                      *)
  interfaces,  (* _interfaces: whose remote API it is, and its thread      *)
  next,        (* next_robot_handle                                        *)
  stage,       (* the simulation                                           *)
  holds,       (* what the create command returned to the model's script   *)
  moves,       (* whose orders the model in the scene carries out          *)
  spoiled      (* history: a create command failed with a robot made       *)

robotsVars == <<robots, interfaces, next, stage, holds, moves, spoiled>>

Controllers == [model : Models, by : Models \cup {None}]
Interfaces == [owner : Models, thread : {"waits", "handles"},
               stopped : BOOLEAN]

ASSUME NobodyAssumption == None \notin Controllers \cup Interfaces

(* The types of the state. *)
RobotsTypeOK ==
  /\ robots \in [RobotHandles -> Controllers \cup {None}]
  /\ interfaces \in [RobotHandles -> Interfaces \cup {None}]
  /\ next \in 0 .. MaxRobots
  /\ stage \in {"runs", "ends", "over"}
  /\ holds \in [Models -> RobotHandles \cup {-1, None}]
  /\ moves \in [Models -> Models \cup {None}]
  /\ spoiled \in BOOLEAN

RobotsInit ==
  /\ robots = [h \in RobotHandles |-> None]
  /\ interfaces = [h \in RobotHandles |-> None]
  /\ next = 0
  /\ stage = "over"
  /\ holds = [m \in Models |-> None]
  /\ moves = [m \in Models |-> None]
  /\ spoiled = FALSE

Robots == {h \in RobotHandles : robots[h] # None}
Served == {h \in RobotHandles : interfaces[h] # None}

-----------------------------------------------------------------------------
(* create, create_ep and create_s1 (add_robot).                            *)

(* A camera or an arm that is not found is done without, and so is a       *)
(* gimbal; wheels and LEDs must be there.                                  *)
Lacks(m, gimbal) ==
  \/ ~({"wheels", "chassis leds"} \subseteq Has[m])
  \/ gimbal /\ "gimbal motors" \in Has[m] /\ "gimbal leds" \notin Has[m]

CreateRefused(m, gimbal) ==
  /\ stage = "runs"
  /\ Lacks(m, gimbal)
  /\ holds' = [holds EXCEPT ![m] = -1]
  /\ UNCHANGED <<robots, interfaces, next, stage, moves, spoiled>>

(* _robots.emplace: a robot that is already there stays. *)
Emplaced(m) ==
  IF robots[next] = None
  THEN [robots EXCEPT ![next] = [model |-> m, by |-> None]]
  ELSE robots

(* Mutant of CreateSucceeds: the next handle is only counted on with a     *)
(* remote API.                                                             *)
CreateSucceedsUncounted(m, gimbal, network) ==
  /\ stage = "runs" /\ next < MaxRobots
  /\ ~Lacks(m, gimbal)
  /\ robots' = Emplaced(m)
  /\ interfaces' = IF ~network THEN interfaces
                   ELSE [interfaces EXCEPT ![next] =
                           [owner |-> m, thread |-> "waits", stopped |-> FALSE]]
  /\ next' = IF network THEN next + 1 ELSE next
  /\ holds' = [holds EXCEPT ![m] = next]
  /\ UNCHANGED <<stage, moves, spoiled>>

CreateSucceeds(m, gimbal, network) ==
  /\ stage = "runs" /\ next < MaxRobots
  /\ ~Lacks(m, gimbal)
  /\ robots' = Emplaced(m)
  /\ interfaces' = IF ~network THEN interfaces
                   ELSE [interfaces EXCEPT ![next] =
                           [owner |-> m, thread |-> "waits", stopped |-> FALSE]]
  /\ next' = next + 1
  /\ holds' = [holds EXCEPT ![m] = next]
  /\ UNCHANGED <<stage, moves, spoiled>>

(* The network address cannot be read or bound: the exception passes       *)
(* through add_robot, and the command raises an error in the script.       *)
CreateFails(m, gimbal) ==
  /\ stage = "runs" /\ next < MaxRobots
  /\ ~Lacks(m, gimbal)
  /\ robots' = Emplaced(m)
  /\ spoiled' = TRUE
  /\ UNCHANGED <<interfaces, next, stage, holds, moves>>

Create(m) ==
  \E gimbal, network \in BOOLEAN :
    \/ CreateRefused(m, gimbal)
    \/ CreateSucceeds(m, gimbal, network)
    \/ network /\ CreateFails(m, gimbal)

-----------------------------------------------------------------------------
(* Commands, the network, and the steps of the simulation.                 *)

(* A robot takes an order of the model w (of its script or its remote      *)
(* API); a handle without a robot is ignored.                              *)
Takes(h, w) ==
  IF h \in Robots THEN [robots EXCEPT ![h].by = w] ELSE robots

(* Any of the commands that set a target or start a movement. *)
Commands(m) ==
  /\ stage = "runs"
  /\ holds[m] # None
  /\ robots' = Takes(holds[m], m)
  /\ UNCHANGED <<interfaces, next, stage, holds, moves, spoiled>>

NetworkBegins(h) ==
  /\ h \in Served
  /\ interfaces[h].thread = "waits" /\ ~interfaces[h].stopped
  /\ interfaces' = [interfaces EXCEPT ![h].thread = "handles"]
  /\ UNCHANGED <<robots, next, stage, holds, moves, spoiled>>

NetworkEnds(h) ==
  /\ h \in Served
  /\ interfaces[h].thread = "handles"
  /\ interfaces' = [interfaces EXCEPT ![h].thread = "waits"]
  /\ robots' = Takes(h, interfaces[h].owner)
  /\ UNCHANGED <<next, stage, holds, moves, spoiled>>

(* do_step of every robot, in the order of the handles: what it was told   *)
(* goes to the joints of its model.                                        *)
Steps ==
  /\ stage = "runs"
  /\ moves' \in [Models -> Models \cup {None}]
  /\ \A m \in Models :
       LET mine == {h \in Robots : robots[h].model = m /\ robots[h].by # None}
       IN  \/ mine = {} /\ moves'[m] = moves[m]
           \/ \E h \in mine :
                (\A k \in mine : k =< h) /\ moves'[m] = robots[h].by
  /\ UNCHANGED <<robots, interfaces, next, stage, holds, spoiled>>

-----------------------------------------------------------------------------
(* The simulation starts and ends.                                         *)

SimulationStarts ==
  /\ stage = "over"
  /\ stage' = "runs"
  /\ UNCHANGED <<robots, interfaces, next, holds, moves, spoiled>>

SimulationEnds ==
  /\ stage = "runs"
  /\ stage' = "ends"
  /\ UNCHANGED <<robots, interfaces, next, holds, moves, spoiled>>

(* Mutant of Stops: the io_context is left to run. *)
StopsNothing(h) ==
  /\ stage = "ends"
  /\ h \in Served /\ \A k \in Served : h =< k
  /\ ~interfaces[h].stopped
  /\ UNCHANGED robotsVars

(* ~RoboMaster, of one interface after the other: the io_context is        *)
(* stopped, which lets its handler finish and starts no other; the thread  *)
(* is joined.                                                              *)
Stops(h) ==
  /\ stage = "ends"
  /\ h \in Served /\ \A k \in Served : h =< k
  /\ ~interfaces[h].stopped
  /\ interfaces' = [interfaces EXCEPT ![h].stopped = TRUE]
  /\ UNCHANGED <<robots, next, stage, holds, moves, spoiled>>

Joins(h) ==
  /\ stage = "ends"
  /\ h \in Served
  /\ interfaces[h].stopped /\ interfaces[h].thread = "waits"
  /\ interfaces' = [interfaces EXCEPT ![h] = None]
  /\ UNCHANGED <<robots, next, stage, holds, moves, spoiled>>

(* Mutant of ClearsRobots: the robots go before their remote APIs. *)
ClearsRobotsFirst ==
  /\ stage = "ends"
  /\ robots' = [h \in RobotHandles |-> None]
  /\ next' = 0
  /\ stage' = IF Served = {} THEN "over" ELSE stage
  /\ holds' = [m \in Models |-> None]
  /\ moves' = [m \in Models |-> None]
  /\ spoiled' = FALSE
  /\ UNCHANGED interfaces

(* What follows _interfaces.clear(); the scripts of the scene end too. *)
ClearsRobots ==
  /\ stage = "ends"
  /\ Served = {}
  /\ robots' = [h \in RobotHandles |-> None]
  /\ next' = 0
  /\ stage' = "over"
  /\ holds' = [m \in Models |-> None]
  /\ moves' = [m \in Models |-> None]
  /\ spoiled' = FALSE
  /\ UNCHANGED interfaces

TearsDown ==
  ClearsRobots \/ \E h \in RobotHandles : Stops(h) \/ Joins(h)

RobotsNext ==
  \/ \E m \in Models : Create(m) \/ Commands(m)
  \/ \E h \in RobotHandles : NetworkBegins(h) \/ NetworkEnds(h)
  \/ Steps \/ SimulationStarts \/ SimulationEnds \/ TearsDown

RobotsSpec == RobotsInit /\ [][RobotsNext]_robotsVars

(* The simulator's thread goes on clearing the tables; a handler that has  *)
(* begun returns.                                                          *)
RobotsFairness ==
  /\ WF_robotsVars(TearsDown)
  /\ \A h \in RobotHandles : WF_robotsVars(NetworkEnds(h))

FairRobotsSpec == RobotsSpec /\ RobotsFairness

-----------------------------------------------------------------------------
(* Unless a create command failed after it had made the robot, the joints  *)
(* of a model only carry out the orders of its own script and remote API,  *)
(* whatever other robots are made, with or without a network, refused or   *)
(* torn down in between (plugin.cpp, next_robot_handle).                   *)
OrdersReachTheirModel == ~spoiled => \A m \in Models : moves[m] \in {None, m}

(* A network thread never works on a robot that is gone: while the         *)
(* simulation ends the remote APIs go before the robots they point to      *)
(* (plugin.cpp, onSimulationAboutToEnd).                                   *)
ServedRobotsExist == Served \subseteq Robots

(* The end of the simulation does not wait for ever for a network thread,  *)
(* however busy its clients keep it.                                       *)
TeardownEnds == stage = "ends" ~> stage = "over"
=============================================================================
