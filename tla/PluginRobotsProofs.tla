------------------------- MODULE PluginRobotsProofs -------------------------
(***************************************************************************)
(* Proofs about PluginRobots, for every set of models with whatever parts  *)
(* and every number of robots.                                             *)
(***************************************************************************)
EXTENDS PluginRobots, TLAPS

(* As long as no create command failed half-way, a handle is one model's:  *)
(* the robot, its remote API and the script's answer agree on it, and the  *)
(* next handle is free.                                                    *)
Agrees ==
  /\ \A h \in Robots : h < next /\ robots[h].by \in {None, robots[h].model}
  /\ \A h \in Served : interfaces[h].owner = robots[h].model
  /\ \A m \in Models :
       holds[m] \in Robots => robots[holds[m]].model = m
  /\ \A m \in Models : holds[m] \in RobotHandles => holds[m] < next
  /\ OrdersReachTheirModel

PluginInv ==
  /\ RobotsTypeOK
  /\ ServedRobotsExist
  /\ ~spoiled => Agrees

LEMMA InitPlugin == RobotsInit => PluginInv
<1> SUFFICES ASSUME RobotsInit PROVE PluginInv
  OBVIOUS
<1> USE RobotsAssumption DEF RobotsInit
<1>1. RobotsTypeOK
  <2>1. 0 \in 0 .. MaxRobots
    OBVIOUS
  <2>2. QED
    BY <2>1, Zenon DEF RobotsTypeOK
<1>2. Robots = {} /\ Served = {} /\ \A m \in Models : holds[m] \notin RobotHandles
  BY DEF Robots, Served, RobotHandles
<1>3. Agrees
  BY <1>2 DEF Agrees, OrdersReachTheirModel
<1>4. QED
  BY <1>1, <1>2, <1>3 DEF PluginInv, ServedRobotsExist

LEMMA RefusedKeepsInv ==
  ASSUME PluginInv, NEW m \in Models, NEW gimbal, CreateRefused(m, gimbal)
  PROVE  PluginInv'
<1>1. /\ holds' = [holds EXCEPT ![m] = -1] /\ -1 \notin RobotHandles
      /\ UNCHANGED <<robots, interfaces, next, stage, moves, spoiled>>
  BY RobotsAssumption DEF CreateRefused, RobotHandles
<1>2. RobotsTypeOK' /\ ServedRobotsExist'
  BY <1>1 DEF PluginInv, RobotsTypeOK, ServedRobotsExist, Robots, Served
<1>3. ASSUME ~spoiled PROVE Agrees'
  <2>1. Robots' = Robots /\ Served' = Served /\ -1 \notin Robots
    BY <1>1 DEF Robots, Served
  <2>2. \A n \in Models : holds'[n] = IF n = m THEN -1 ELSE holds[n]
    BY <1>1 DEF PluginInv, RobotsTypeOK
  <2>3. QED
    BY <1>1, <1>3, <2>1, <2>2 DEF PluginInv, Agrees, OrdersReachTheirModel
<1>4. QED
  BY <1>1, <1>2, <1>3 DEF PluginInv

LEMMA EmplacedIsThere ==
  ASSUME PluginInv, NEW m \in Models, next < MaxRobots, robots' = Emplaced(m)
  PROVE  /\ next \in RobotHandles
         /\ robots' \in [RobotHandles -> Controllers \cup {None}]
         /\ Robots' = Robots \cup {next}
         /\ \A h \in Robots : robots'[h] = robots[h]
         /\ next \notin Robots => robots'[next].model = m /\ robots'[next].by = None
<1> DEFINE new == [model |-> m, by |-> None]
<1>1. new \in Controllers /\ new # None /\ new.model = m /\ new.by = None
  BY NobodyAssumption DEF Controllers
<1> HIDE DEF new
<1>2. next \in RobotHandles
  BY RobotsAssumption DEF PluginInv, RobotsTypeOK, RobotHandles
<1>3. robots' = IF robots[next] = None THEN [robots EXCEPT ![next] = new] ELSE robots
  BY DEF Emplaced, new
<1>4. QED
  BY <1>1, <1>2, <1>3 DEF PluginInv, RobotsTypeOK, Robots

LEMMA SucceedsKeepsInv ==
  ASSUME PluginInv, NEW m \in Models, NEW gimbal, NEW network \in BOOLEAN,
         CreateSucceeds(m, gimbal, network)
  PROVE  PluginInv'
<1> USE RobotsAssumption, NobodyAssumption
<1>1. /\ next \in RobotHandles /\ next \in Nat
      /\ robots' \in [RobotHandles -> Controllers \cup {None}]
      /\ Robots' = Robots \cup {next}
      /\ \A h \in Robots : robots'[h] = robots[h]
      /\ next \notin Robots => robots'[next].model = m /\ robots'[next].by = None
  BY EmplacedIsThere DEF CreateSucceeds, RobotHandles, PluginInv, RobotsTypeOK
<1> DEFINE api == [owner |-> m, thread |-> "waits", stopped |-> FALSE]
<1>2. api \in Interfaces /\ api # None /\ api.owner = m
  <2>1. api \in Interfaces /\ api.owner = m
    BY DEF Interfaces
  <2> HIDE DEF api
  <2>2. QED
    BY <2>1
<1> HIDE DEF api
<1>3. /\ interfaces' = IF ~network THEN interfaces ELSE [interfaces EXCEPT ![next] = api]
      /\ next' = next + 1
      /\ holds' = [holds EXCEPT ![m] = next]
      /\ UNCHANGED <<stage, moves, spoiled>>
  BY DEF CreateSucceeds, api
<1>4. RobotsTypeOK'
  BY <1>1, <1>2, <1>3 DEF PluginInv, RobotsTypeOK, RobotHandles
<1>5. /\ Served' \subseteq Served \cup {next}
      /\ \A h \in Served : h # next => interfaces'[h] = interfaces[h]
      /\ next \in Served' => interfaces'[next] = api \/ next \in Served
  BY <1>1, <1>2, <1>3 DEF PluginInv, RobotsTypeOK, Served
<1>6. ServedRobotsExist'
  BY <1>1, <1>5 DEF PluginInv, ServedRobotsExist
<1>7. ASSUME ~spoiled
      PROVE  Agrees'
  <2>1. Agrees /\ next \notin Robots /\ next \notin Served
    BY <1>1, <1>7 DEF PluginInv, Agrees, ServedRobotsExist, Robots
  <2>2. \A h \in Robots' : h < next' /\ robots'[h].by \in {None, robots'[h].model}
    BY <1>1, <1>3, <2>1 DEF Agrees, Robots, RobotHandles
  <2>3. \A h \in Served' : interfaces'[h].owner = robots'[h].model
    BY <1>1, <1>2, <1>5, <2>1 DEF Agrees, PluginInv, ServedRobotsExist
  <2>4. \A n \in Models : holds'[n] \in Robots' => robots'[holds'[n]].model = n
    BY <1>1, <1>3, <2>1 DEF Agrees, PluginInv, RobotsTypeOK
  <2>5. \A n \in Models : holds'[n] \in RobotHandles => holds'[n] < next'
    BY <1>1, <1>3, <2>1 DEF Agrees, PluginInv, RobotsTypeOK, RobotHandles
  <2>6. OrdersReachTheirModel'
    BY <1>3, <1>7, <2>1 DEF Agrees, OrdersReachTheirModel
  <2>7. QED
    BY <2>2, <2>3, <2>4, <2>5, <2>6 DEF Agrees
<1>8. QED
  BY <1>3, <1>4, <1>6, <1>7 DEF PluginInv

LEMMA FailsKeepsInv ==
  ASSUME PluginInv, NEW m \in Models, NEW gimbal, CreateFails(m, gimbal)
  PROVE  PluginInv'
<1>1. /\ robots' \in [RobotHandles -> Controllers \cup {None}]
      /\ Robots' = Robots \cup {next}
  BY EmplacedIsThere DEF CreateFails
<1>2. spoiled' = TRUE /\ UNCHANGED <<interfaces, next, stage, holds, moves>>
  BY DEF CreateFails
<1>3. QED
  BY <1>1, <1>2 DEF PluginInv, RobotsTypeOK, ServedRobotsExist, Served

(* A robot that takes an order stays its model's.                          *)
LEMMA TakingKeepsRobots ==
  ASSUME PluginInv, NEW h, NEW w \in Models, robots' = Takes(h, w)
  PROVE  /\ robots' \in [RobotHandles -> Controllers \cup {None}]
         /\ Robots' = Robots
         /\ \A k \in Robots : /\ robots'[k].model = robots[k].model
                              /\ robots'[k].by = IF k = h THEN w ELSE robots[k].by
<1>1. CASE h \notin Robots
  BY <1>1 DEF Takes, PluginInv, RobotsTypeOK, Robots
<1>2. CASE h \in Robots
  <2> DEFINE r == [robots[h] EXCEPT !.by = w]
  <2>1. robots[h] \in Controllers
    BY <1>2 DEF PluginInv, RobotsTypeOK, Robots
  <2>2. r \in Controllers /\ r.model = robots[h].model /\ r.by = w
    BY <2>1 DEF Controllers
  <2>3. robots' = [robots EXCEPT ![h] = r]
    BY <1>2 DEF Takes
  <2> HIDE DEF r
  <2>4. r # None
    BY <2>2, NobodyAssumption
  <2>5. QED
    BY <1>2, <2>2, <2>3, <2>4 DEF PluginInv, RobotsTypeOK, Robots
<1>3. QED
  BY <1>1, <1>2

LEMMA CommandsKeepInv ==
  ASSUME PluginInv, NEW m \in Models, Commands(m)
  PROVE  PluginInv'
<1>1. UNCHANGED <<interfaces, next, stage, holds, moves, spoiled>>
  BY DEF Commands
<1>2. /\ robots' \in [RobotHandles -> Controllers \cup {None}]
      /\ Robots' = Robots
      /\ \A k \in Robots :
           /\ robots'[k].model = robots[k].model
           /\ robots'[k].by = IF k = holds[m] THEN m ELSE robots[k].by
  BY TakingKeepsRobots DEF Commands
<1>3. RobotsTypeOK' /\ ServedRobotsExist'
  BY <1>1, <1>2 DEF PluginInv, RobotsTypeOK, ServedRobotsExist, Served
<1>4. ASSUME ~spoiled PROVE Agrees'
  <2>1. Served' = Served /\ Served \subseteq Robots
    BY <1>1 DEF Served, PluginInv, ServedRobotsExist
  <2>2. QED
    BY <1>1, <1>2, <1>4, <2>1 DEF PluginInv, Agrees, OrdersReachTheirModel
<1>5. QED
  BY <1>1, <1>3, <1>4 DEF PluginInv

(* What happens to a remote API's thread leaves its owner alone.           *)
LEMMA ThreadsKeepInv ==
  ASSUME PluginInv, NEW h \in Served, NEW api \in Interfaces,
         api.owner = interfaces[h].owner,
         interfaces' = [interfaces EXCEPT ![h] = api],
         UNCHANGED <<next, stage, holds, moves, spoiled>>,
         robots' = robots \/ robots' = Takes(h, interfaces[h].owner)
  PROVE  PluginInv'
<1>1. h \in RobotHandles /\ interfaces[h] \in Interfaces /\ interfaces[h].owner \in Models
  BY DEF PluginInv, RobotsTypeOK, Served, Interfaces
<1>2. /\ robots' \in [RobotHandles -> Controllers \cup {None}]
      /\ Robots' = Robots
      /\ \A k \in Robots :
           /\ robots'[k].model = robots[k].model
           /\ \/ robots'[k].by = robots[k].by
              \/ k = h /\ robots'[k].by = interfaces[h].owner
  <2>1. CASE robots' = robots
    BY <2>1 DEF PluginInv, RobotsTypeOK, Robots
  <2>2. CASE robots' = Takes(h, interfaces[h].owner)
    BY <1>1, <2>2, TakingKeepsRobots
  <2>3. QED
    BY <2>1, <2>2
<1>3. /\ interfaces' \in [RobotHandles -> Interfaces \cup {None}]
      /\ Served' = Served
      /\ \A k \in Served : interfaces'[k].owner = interfaces[k].owner
  BY <1>1, NobodyAssumption DEF PluginInv, RobotsTypeOK, Served
<1>4. RobotsTypeOK' /\ ServedRobotsExist'
  BY <1>2, <1>3 DEF PluginInv, RobotsTypeOK, ServedRobotsExist
<1>5. ASSUME ~spoiled PROVE Agrees'
  <2>1. Served \subseteq Robots /\ Agrees
    BY <1>5 DEF PluginInv, ServedRobotsExist
  <2>2. \A k \in Robots' : k < next' /\ robots'[k].by \in {None, robots'[k].model}
    BY <1>2, <2>1 DEF Agrees
  <2>3. QED
    BY <1>2, <1>3, <2>1, <2>2 DEF Agrees, OrdersReachTheirModel
<1>6. QED
  BY <1>4, <1>5 DEF PluginInv

LEMMA NetworkKeepsInv ==
  ASSUME PluginInv, NEW h \in RobotHandles, NetworkBegins(h) \/ NetworkEnds(h) \/ Stops(h)
  PROVE  PluginInv'
<1>1. h \in Served /\ interfaces[h] \in Interfaces
  BY DEF NetworkBegins, NetworkEnds, Stops, PluginInv, RobotsTypeOK, Served
<1>2. CASE NetworkBegins(h)
  <2> DEFINE api == [interfaces[h] EXCEPT !.thread = "handles"]
  <2>1. api \in Interfaces /\ api.owner = interfaces[h].owner
    BY <1>1 DEF Interfaces
  <2>2. interfaces' = [interfaces EXCEPT ![h] = api]
    BY <1>2 DEF NetworkBegins
  <2> HIDE DEF api
  <2>3. QED
    BY <1>1, <1>2, <2>1, <2>2, ThreadsKeepInv DEF NetworkBegins
<1>3. CASE NetworkEnds(h)
  <2> DEFINE api == [interfaces[h] EXCEPT !.thread = "waits"]
  <2>1. api \in Interfaces /\ api.owner = interfaces[h].owner
    BY <1>1 DEF Interfaces
  <2>2. interfaces' = [interfaces EXCEPT ![h] = api]
    BY <1>3 DEF NetworkEnds
  <2> HIDE DEF api
  <2>3. QED
    BY <1>1, <1>3, <2>1, <2>2, ThreadsKeepInv DEF NetworkEnds
<1>4. CASE Stops(h)
  <2> DEFINE api == [interfaces[h] EXCEPT !.stopped = TRUE]
  <2>1. api \in Interfaces /\ api.owner = interfaces[h].owner
    BY <1>1 DEF Interfaces
  <2>2. interfaces' = [interfaces EXCEPT ![h] = api]
    BY <1>4 DEF Stops
  <2> HIDE DEF api
  <2>3. QED
    BY <1>1, <1>4, <2>1, <2>2, ThreadsKeepInv DEF Stops
<1>5. QED
  BY <1>2, <1>3, <1>4

LEMMA JoinsKeepInv ==
  ASSUME PluginInv, NEW h \in RobotHandles, Joins(h)
  PROVE  PluginInv'
<1>1. /\ interfaces' = [interfaces EXCEPT ![h] = None]
      /\ UNCHANGED <<robots, next, stage, holds, moves, spoiled>>
  BY DEF Joins
<1>2. /\ interfaces' \in [RobotHandles -> Interfaces \cup {None}]
      /\ Served' \subseteq Served /\ Robots' = Robots
      /\ \A k \in Served' : interfaces'[k] = interfaces[k]
  BY <1>1 DEF PluginInv, RobotsTypeOK, Served, Robots
<1>3. QED
  BY <1>1, <1>2
     DEF PluginInv, RobotsTypeOK, ServedRobotsExist, Agrees, OrdersReachTheirModel

(* The models carry out what their own robots were told.                   *)
LEMMA StepsKeepInv ==
  ASSUME PluginInv, Steps
  PROVE  PluginInv'
<1>1. UNCHANGED <<robots, interfaces, next, stage, holds, spoiled>>
  BY DEF Steps
<1>2. moves' \in [Models -> Models \cup {None}]
  BY DEF Steps
<1>3. RobotsTypeOK' /\ ServedRobotsExist'
  BY <1>1, <1>2 DEF PluginInv, RobotsTypeOK, ServedRobotsExist, Robots, Served
<1>4. \A m \in Models :
        \/ moves'[m] = moves[m]
        \/ \E h \in Robots : robots[h].model = m /\ moves'[m] = robots[h].by
  BY DEF Steps
<1>5. ASSUME ~spoiled PROVE Agrees'
  <2>1. OrdersReachTheirModel'
    BY <1>1, <1>4, <1>5 DEF PluginInv, Agrees, OrdersReachTheirModel
  <2>2. Robots' = Robots /\ Served' = Served
    BY <1>1 DEF Robots, Served
  <2>3. QED
    BY <1>1, <1>5, <2>1, <2>2 DEF PluginInv, Agrees
<1>6. QED
  BY <1>1, <1>3, <1>5 DEF PluginInv

LEMMA ClearsKeepInv ==
  ASSUME PluginInv, ClearsRobots
  PROVE  PluginInv'
<1> USE RobotsAssumption DEF ClearsRobots
<1>1. RobotsTypeOK'
  <2>1. 0 \in 0 .. MaxRobots /\ interfaces \in [RobotHandles -> Interfaces \cup {None}]
    BY DEF PluginInv, RobotsTypeOK
  <2>2. QED
    BY <2>1, Zenon DEF RobotsTypeOK
<1>2. /\ Robots' = {} /\ Served' = {}
      /\ \A m \in Models : holds'[m] \notin RobotHandles
  BY DEF Robots, Served, RobotHandles
<1>3. Agrees'
  BY <1>2 DEF Agrees, OrdersReachTheirModel
<1>4. QED
  BY <1>1, <1>2, <1>3 DEF PluginInv, ServedRobotsExist

(* What changes none of the tables.                                        *)
LEMMA StagesKeepInv ==
  ASSUME PluginInv, SimulationStarts \/ SimulationEnds \/ UNCHANGED robotsVars
  PROVE  PluginInv'
<1>1. /\ UNCHANGED <<robots, interfaces, next, holds, moves, spoiled>>
      /\ stage' \in {"runs", "ends", "over"}
  BY DEF SimulationStarts, SimulationEnds, robotsVars, PluginInv, RobotsTypeOK
<1>2. Robots' = Robots /\ Served' = Served
  BY <1>1 DEF Robots, Served
<1>3. QED
  BY <1>1, <1>2
     DEF PluginInv, RobotsTypeOK, ServedRobotsExist, Agrees, OrdersReachTheirModel

THEOREM PluginInvariant == RobotsSpec => []PluginInv
<1>1. ASSUME PluginInv, [RobotsNext]_robotsVars
      PROVE  PluginInv'
  <2>1. ASSUME NEW m \in Models, Create(m)
        PROVE  PluginInv'
    BY <1>1, <2>1, RefusedKeepsInv, SucceedsKeepsInv, FailsKeepsInv DEF Create
  <2>2. ASSUME TearsDown
        PROVE  PluginInv'
    BY <1>1, <2>2, ClearsKeepInv, NetworkKeepsInv, JoinsKeepInv DEF TearsDown
  <2>3. QED
    BY <1>1, <2>1, <2>2, CommandsKeepInv, NetworkKeepsInv, StepsKeepInv, StagesKeepInv
       DEF RobotsNext
<1>2. QED
  BY InitPlugin, <1>1, PTL DEF RobotsSpec

(* The tables of plugin.cpp keep their types.                              *)
THEOREM PluginTypesHold == RobotsSpec => []RobotsTypeOK
<1>1. PluginInv => RobotsTypeOK
  BY DEF PluginInv
<1>2. QED
  BY <1>1, PluginInvariant, PTL

(* Whatever robots are made, refused, commanded and torn down, a model     *)
(* moves by nobody's orders but its own script's and remote API's, unless  *)
(* a create command failed half-way (plugin.cpp, add_robot).               *)
THEOREM OrdersReachModels == RobotsSpec => []OrdersReachTheirModel
<1>1. PluginInv => OrdersReachTheirModel
  BY DEF PluginInv, Agrees, OrdersReachTheirModel
<1>2. QED
  BY <1>1, PluginInvariant, PTL

(* A network thread always has its robot (plugin.cpp,                      *)
(* onSimulationAboutToEnd).                                                *)
THEOREM ThreadsHaveTheirRobots == RobotsSpec => []ServedRobotsExist
<1>1. PluginInv => ServedRobotsExist
  BY DEF PluginInv
<1>2. QED
  BY <1>1, PluginInvariant, PTL
=============================================================================
