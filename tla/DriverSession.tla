----------------------------- MODULE DriverSession -----------------------------
(***************************************************************************)
(* robomaster_driver.py and client.py: the driver's main thread, the node  *)
(* it makes for every connection, the heartbeat timer, and Ctrl-C.         *)
(*                                                                         *)
(* The main thread spins a node until the heartbeats stop, aborts its      *)
(* actions, stops it and makes the next one.  The handler of SIGINT runs   *)
(* on the same thread between any two of its steps, and does the same to   *)
(* the node it finds.  Both are frames of one stack: while the handler is  *)
(* on, the main loop stands still.  One interrupt is modelled.             *)
(***************************************************************************)
EXTENDS DriverActions

CONSTANTS
  Reconnect,   (* the node's parameter                                     *)
  Loads        (* bound: what one behaviour has of enabled modules (their  *)
               (* parameters), goals and nodes, and whether heartbeats may *)
               (* fail and Ctrl-C be pressed                               *)

ASSUME SessionAssumption ==
  /\ Reconnect \in BOOLEAN
  /\ Loads \subseteq [enabled : SUBSET Kinds, goals : SUBSET Goals,
                      nodes : 0 .. MaxNodes, loss : BOOLEAN, interrupt : BOOLEAN]

VARIABLES
  load,         (* the load of this behaviour                              *)
  main,         (* the main loop: where it is, and the modules its abort() *)
                (* has still to see; the one it waits for                  *)
  handler,      (* the same of shutdown(), "off" before and after          *)
  node,         (* number of the last node                                 *)
  held,         (* the variable `node` of main() is not None               *)
  reconnect,    (* should_reconnect                                        *)
  ok,           (* rclpy.ok()                                              *)
  initialized,  (* node.initialized                                        *)
  lost,         (* node.disconnection is done, node.connected is cleared   *)
  timer,        (* heartbeat_check_timer                                   *)
  servers,      (* modules whose action server is not destroyed            *)
  alive,        (* the robot answers on the node's connection              *)
  interrupted,  (* SIGINT was received                                     *)
  owed          (* history: goals an abort() waits for                     *)

nodeVars == <<initialized, lost, timer, servers, alive>>
loopVars == <<load, main, handler, node, held, reconnect, ok, interrupted, owed>>
sessionVars == <<nodeVars, loopVars>>
vars == <<jobVars, sessionVars>>

Frames == [at : {"off", "new", "made", "spin", "abort", "turn", "stop", "close",
                 "down", "destroy", "pause", "out"},
           todo : SUBSET Kinds, waits : Modules \cup {None}]

DriverTypeOK ==
  /\ JobTypeOK
  /\ load \in Loads
  /\ main \in Frames /\ handler \in Frames
  /\ node \in 0 .. MaxNodes
  /\ {held, reconnect, ok, initialized, lost, alive, interrupted}
       \subseteq BOOLEAN
  /\ timer \in {"off", "armed", "taken"}
  /\ servers \subseteq Modules
  /\ owed \subseteq Goals

Frame(place) == [at |-> place, todo |-> load.enabled, waits |-> None]

Init ==
  /\ JobInit
  /\ load \in Loads
  /\ main = Frame("new")
  /\ handler = Frame("off")
  /\ node = 0
  /\ held = FALSE
  /\ reconnect = TRUE
  /\ ok = TRUE
  /\ initialized = FALSE
  /\ lost = FALSE
  /\ timer = "off"
  /\ servers = {}
  /\ alive = FALSE
  /\ interrupted = FALSE
  /\ owed = {}

(* The frame that runs. *)
Top == IF handler.at = "off" THEN main ELSE handler
TopBecomes(f) ==
  IF handler.at = "off" THEN main' = f /\ UNCHANGED handler
                        ELSE handler' = f /\ UNCHANGED main
Moves(place) == TopBecomes(Frame(place))

(* Callbacks are dispatched while the main thread spins. *)
Spinning == Top.at \in {"spin", "turn"} /\ ok

----------------------------------------------------------------------------
(* The main loop. *)

(* RoboMasterROS(): a robot was found, and the connection came up or not.  *)
NewNode ==
  /\ handler.at = "off" /\ main.at = "new"
  /\ node < load.nodes
  /\ node' = node + 1
  /\ held' = TRUE
  /\ \E up \in BOOLEAN :
       /\ initialized' = up /\ lost' = ~up /\ alive' = up
       /\ timer' = IF up THEN "armed" ELSE "off"
       /\ servers' = IF up THEN {<<node', k>> : k \in load.enabled} ELSE {}
  /\ Moves("made")
  /\ UNCHANGED <<jobVars, load, reconnect, ok, interrupted, owed>>

(* should_reconnect = node.reconnect, also after an interrupt. *)
Made ==
  /\ handler.at = "off" /\ main.at = "made"
  /\ reconnect' = Reconnect
  /\ Moves("spin")
  /\ UNCHANGED <<jobVars, nodeVars, load, node, held, ok, interrupted, owed>>

(* The spinning ends, or an exception of the shut down context ends it.    *)
SpinEnds ==
  /\ handler.at = "off" /\ main.at = "spin"
  /\ \/ lost /\ Moves(IF ok THEN "abort" ELSE "destroy")
     \/ ~ok /\ ~lost /\ (Moves("destroy") \/ Moves("out"))
  /\ UNCHANGED <<jobVars, nodeVars, load, node, held, reconnect, ok, interrupted, owed>>

(* node.abort(): module after module, those of a connected node.           *)
AbortNext ==
  /\ Top.at = "abort" /\ Top.waits = None
  /\ IF initialized /\ Top.todo # {}
       THEN \E k \in Top.todo :
              /\ AbortModule(<<node, k>>)
              /\ TopBecomes([Top EXCEPT !.todo = @ \ {k},
                               !.waits = IF Free(<<node, k>>) THEN None
                                                              ELSE <<node, k>>])
              /\ owed' = owed \cup ({tracked[<<node, k>>]} \ (crowd \cup {None}))
       ELSE Moves("turn") /\ UNCHANGED <<jobVars, owed>>
  /\ UNCHANGED <<nodeVars, load, node, held, reconnect, ok, interrupted>>

(* Mutant of AbortWaits: abort() does not wait for the action. *)
AbortWaitsNever ==
  /\ Top.at = "abort" /\ Top.waits # None
  /\ TopBecomes([Top EXCEPT !.waits = None])
  /\ UNCHANGED <<jobVars, nodeVars, load, node, held, reconnect, ok, interrupted, owed>>

(* ... until the module has no action. *)
AbortWaits ==
  /\ Top.at = "abort" /\ Top.waits # None
  /\ Free(Top.waits)
  /\ TopBecomes([Top EXCEPT !.waits = None])
  /\ UNCHANGED <<jobVars, nodeVars, load, node, held, reconnect, ok, interrupted, owed>>

(* After stop() another spin_once() finds nothing left to dispatch.        *)
Stopped == IF handler.at = "off" THEN "destroy" ELSE "down"

(* spin_once() after abort(), then node.stop() if the context is up.       *)
Turned ==
  /\ Top.at = "turn"
  /\ Moves(IF ok THEN "stop" ELSE Stopped)
  /\ UNCHANGED <<jobVars, nodeVars, load, node, held, reconnect, ok, interrupted, owed>>

(* stop(): the timer is cancelled and the servers are destroyed.           *)
Stop ==
  /\ Top.at = "stop"
  /\ IF initialized
       THEN /\ timer' = IF timer = "taken" THEN timer ELSE "off"
            /\ servers' = {}
            /\ Moves("close")
       ELSE UNCHANGED <<timer, servers>> /\ Moves(Stopped)
  /\ UNCHANGED <<jobVars, initialized, lost, alive, load, node, held,
                 reconnect, ok, interrupted, owed>>

(* ... and half a second later the connection is closed.                   *)
Close ==
  /\ Top.at = "close"
  /\ initialized' = FALSE /\ alive' = FALSE
  /\ owed' = {}
  /\ Moves(Stopped)
  /\ UNCHANGED <<jobVars, lost, timer, servers, load, node, held, reconnect, ok,
                 interrupted>>

(* spin_once() after the handler has shut the context down.                *)
Dies ==
  /\ handler.at = "off" /\ main.at \in {"turn", "destroy"} /\ ~ok
  /\ Moves("out")
  /\ UNCHANGED <<jobVars, nodeVars, load, node, held, reconnect, ok, interrupted, owed>>

(* destroy_node(), node = None *)
Destroy ==
  /\ handler.at = "off" /\ main.at = "destroy"
  /\ held' = FALSE
  /\ timer' = IF timer = "taken" THEN timer ELSE "off"
  /\ servers' = {}
  /\ Moves("pause")
  /\ UNCHANGED <<jobVars, initialized, lost, alive, load, node, reconnect,
                 ok, interrupted, owed>>

(* Mutant of Again: the context is not looked at. *)
AgainAnyway ==
  /\ handler.at = "off" /\ main.at = "pause"
  /\ Moves(IF reconnect THEN "new" ELSE "out")
  /\ UNCHANGED <<jobVars, nodeVars, load, node, held, reconnect, ok, interrupted, owed>>

Again ==
  /\ handler.at = "off" /\ main.at = "pause"
  /\ Moves(IF reconnect /\ ok THEN "new" ELSE "out")
  /\ UNCHANGED <<jobVars, nodeVars, load, node, held, reconnect, ok, interrupted, owed>>

MainThread ==
  \/ NewNode \/ Made \/ SpinEnds \/ AbortNext \/ AbortWaits \/ Turned
  \/ Stop \/ Close \/ Dies \/ Destroy \/ Again

----------------------------------------------------------------------------
(* SIGINT *)

(* shutdown(): without a node it raises KeyboardInterrupt, which ends      *)
(* main().                                                                 *)
Interrupt ==
  /\ load.interrupt /\ ~interrupted /\ main.at # "out"
  /\ interrupted' = TRUE
  /\ reconnect' = FALSE
  /\ IF held THEN handler' = Frame("abort") /\ UNCHANGED <<main, ok>>
             ELSE main' = Frame("out") /\ ok' = FALSE /\ UNCHANGED handler
  /\ UNCHANGED <<jobVars, nodeVars, load, node, held, owed>>

(* try_shutdown(), and back to the main loop. *)
Down ==
  /\ handler.at = "down"
  /\ ok' = FALSE
  /\ handler' = Frame("off")
  /\ UNCHANGED <<jobVars, nodeVars, load, main, node, held, reconnect, interrupted, owed>>

----------------------------------------------------------------------------
(* Heartbeats: the robot's are received on a thread of the SDK; the check  *)
(* is a timer of the node that every heartbeat resets.                     *)

(* Five seconds passed without one, and the executor hands the callback to *)
(* a thread; a heartbeat that comes now cannot take it back any more.      *)
TimerTaken ==
  /\ load.loss /\ Spinning /\ timer = "armed"
  /\ timer' = "taken"
  /\ UNCHANGED <<jobVars, loopVars, initialized, lost, servers, alive>>

(* Mutant of HeartbeatCheck: the future is not resolved. *)
HeartbeatCheckMarks ==
  /\ timer = "taken"
  /\ timer' = IF held /\ initialized THEN "armed" ELSE "off"
  /\ UNCHANGED <<jobVars, loopVars, lost, initialized, servers, alive>>

(* heartbeat_check() *)
HeartbeatCheck ==
  /\ timer = "taken"
  /\ lost' = TRUE
  /\ timer' = IF held /\ initialized THEN "armed" ELSE "off"
  /\ UNCHANGED <<jobVars, loopVars, initialized, servers, alive>>

LinkBreaks ==
  /\ load.loss /\ alive
  /\ alive' = FALSE
  /\ UNCHANGED <<jobVars, loopVars, initialized, lost, timer, servers>>

----------------------------------------------------------------------------
Goal ==
  /\ Spinning
  /\ \/ \E g \in load.goals, m \in servers : NewGoal(g, m)
     \/ \E g \in Goals : job[g].module \in servers /\ Cancel(g)
  /\ UNCHANGED sessionVars

(* The executor hands out the tasks of accepted goals, also of a node that *)
(* is stopped by now.                                                      *)
Begins(g) == Spinning /\ Dispatch(g) /\ UNCHANGED sessionVars

(* A thread that has a task goes on with it, whoever spins.                *)
Works(g) == Execute(g, ok) /\ UNCHANGED sessionVars

(* Tasks run while the main thread spins. *)
Task == Spinning /\ (\E m \in Modules : StopAction(m)) /\ UNCHANGED sessionVars

Reaches(g) == alive /\ job[g].module # None /\ job[g].module[1] = node

Robot(g) ==
  /\ \/ Reaches(g) /\ \E s \in {"running", "succeeded", "failed"} : Push(g, s)
     \/ Silence(g)
  /\ UNCHANGED sessionVars

Next ==
  \/ MainThread \/ Interrupt \/ Down
  \/ TimerTaken \/ HeartbeatCheck \/ LinkBreaks
  \/ Goal \/ Task
  \/ \E g \in Goals : Begins(g) \/ Works(g) \/ Robot(g)

Spec == Init /\ [][Next]_vars

(* No action of the robot goes on for ever: it ends, or its pushes stop.   *)
Finishes(g) ==
  /\ Silence(g) \/ (Reaches(g) /\ \E s \in {"succeeded", "failed"} : Push(g, s))
  /\ UNCHANGED sessionVars

(* Threads run and time passes, and the executor that is spun gets to each *)
(* task; of a robot that is gone no heartbeat keeps the timer from         *)
(* expiring.                                                               *)
FairSpec ==
  /\ Spec
  /\ WF_vars(MainThread) /\ WF_vars(Down)
  /\ WF_vars(~alive /\ TimerTaken) /\ WF_vars(HeartbeatCheck)
  /\ \A g \in Goals :
       WF_vars(Begins(g)) /\ WF_vars(Works(g)) /\ WF_vars(Finishes(g))

----------------------------------------------------------------------------
(* After Ctrl-C the driver makes no new connection, wherever the main loop *)
(* was: also between making a node and overwriting should_reconnect, which *)
(* the handler had cleared (robomaster_driver.py:20-43).                   *)
NoNodeAfterInterrupt ==
  [][interrupted => node' = node]_vars

(* A connection is closed only when every action that abort() found has    *)
(* ended and its goal is answered, whether the main loop, the handler or   *)
(* one inside the other closes it (client.py:153-174, arm.py:170-175).     *)
ClosedAfterAborted ==
  [][initialized /\ ~initialized' => \A g \in owed : ~Active(g)]_vars

(* Ctrl-C ends the driver, though abort() waits for other threads; not so  *)
(* when it interrupts an abort(): the handler's spin_once() may start      *)
(* another action, whose execution fails at the shutdown and leaves        *)
(* self.action set, for which the interrupted abort() waits                *)
(* (robomaster_driver.py:20-34, client.py:153-157, arm.py:170-175).        *)
InterruptEnds ==
  interrupted /\ main.at # "abort" ~> main.at = "out"

(* A robot that is gone is noticed and its connection is closed, although  *)
(* executions, abort() and the timer all use the same executor             *)
(* (client.py:159-190, robomaster_driver.py:44-63).                        *)
LossIsNoticed ==
  initialized /\ ~alive ~> ~initialized \/ main.at = "out"

(* Nobody is left to answer a goal: its node was stopped, or the context   *)
(* shut down, before the executor got to its execution; or it is blocked   *)
(* for the gripper's lock, which an execution that raised after the        *)
(* shutdown has kept.                                                      *)
Forgotten(g) ==
  \/ job[g].at = "task" /\ (~ok \/ job[g].module \notin servers)
  \/ /\ job[g].at = "lock" /\ ~ok
     /\ \E o \in Goals : tracked[job[g].module] = o /\ job[o].at = "over"

(* Every accepted goal is answered, whatever the robot and the connection  *)
(* do, also by two executions that both found the gripper's lock free and  *)
(* take it one after the other (action.py:47-66, gripper.py:150-160,       *)
(* gripper.py:215).  Not so when the driver goes away before.              *)
GoalsAreAnswered ==
  \A g \in Goals : Active(g) ~> ~Active(g) \/ Forgotten(g)

=============================================================================
