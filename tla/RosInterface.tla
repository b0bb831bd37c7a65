---------------------------- MODULE RosInterface ----------------------------
(***************************************************************************)
(* simExtROS2: the CoppeliaSim plugin that gives the scripts of a scene    *)
(* publishers, subscriptions, services and actions of one ROS 2 node.      *)
(*                                                                         *)
(* Everything runs on the simulator's one thread, as a stack of at most    *)
(* three frames: a function of a script (or the plugin's instance pass), a *)
(* command it called that spins the node, and the callback of a script     *)
(* that the spinning dispatched.  rclcpp refuses to spin a node that is    *)
(* being spun, so a command that spins raises an error when a callback     *)
(* calls it; what it had sent before is on its way all the same.           *)
(*                                                                         *)
(* A proxy is freed by its shutdown command, whoever calls it and from     *)
(* wherever, and with the script that made it.  CoppeliaSim does not       *)
(* destroy a script that has a function on the stack.  Using a proxy that  *)
(* was freed meanwhile is undefined: the simulator crashes, or goes on     *)
(* with what is left in the memory.                                        *)
(*                                                                         *)
(* Left out, for they change nothing the properties see: message contents, *)
(* quality of service, transforms, the options of proxies, publishing,     *)
(* waiting for a service and asking for the state of a goal.               *)
(***************************************************************************)
EXTENDS Naturals, FiniteSets

CONSTANTS
  Scripts,     (* the scripts of the scene                                 *)
  Goals,       (* goal identifiers, never used again                       *)
  None,        (* nobody, nothing; a peer outside the simulator            *)
  MaxHandles,  (* bound: proxies made in a behaviour                       *)
  MayBe        (* bound: the kinds of the n-th proxy                       *)

Handles == 1 .. MaxHandles

Kinds == {"subscription", "imageSubscription", "publisher", "imagePublisher",
          "client", "service", "actionClient", "actionServer"}

ASSUME RosAssumption ==
  /\ MaxHandles \in Nat
  /\ None \notin Scripts \cup Goals \cup Handles
  /\ "null" \notin Goals
  /\ MayBe \in [Handles -> SUBSET Kinds]

VARIABLES
  alive,        (* scripts that live                                       *)
  table,        (* the proxies in the handle tables: kind and owner        *)
  issued,       (* handles given out                                       *)
  running,      (* the script whose function the simulator called          *)
  spin,         (* who spins the node                                      *)
  callback,     (* the callback being dispatched, of what and to whom      *)
  ok,           (* rclcpp::ok()                                            *)
  process,      (* the simulator                                           *)
  goals,        (* every goal: who sent it to whom, how far it has come,   *)
                (* what its sender heard, whether its cancel was asked     *)
  last,         (* last_goal_handle of every action client                 *)
  goalHandles,  (* goalHandles of every action server                      *)
  told,         (* history: goals a handle_accepted callback was called for*)
  cutShort      (* history: proxies shut down while on the stack           *)

tableVars == <<alive, table, issued, cutShort>>
threadVars == <<running, spin, callback>>
goalVars == <<goals, last, goalHandles, told>>
rosVars == <<tableVars, threadVars, ok, process, goalVars>>

Ends == {"succeeded", "aborted", "canceled"}
Active == {"accepted", "executing"}
Phases == {"unsent", "requested", "rejected", "canceling"} \cup Active \cup Ends

Peers == Handles \cup {None}
Proxies == [kind : Kinds, owner : Scripts]
Spins == [op : {"pass", "call", "goal", "cancel", "has", "get", "set"},
          proxy : Peers, owner : Scripts \cup {None}, peer : Peers,
          goal : Goals \cup {None}, done : BOOLEAN]
Callbacks == [proxy : Handles, script : Scripts, goal : Goals \cup {None},
              what : {"message", "request", "goal", "accepted", "cancel",
                      "response", "feedback", "result"}]
GoalRecords == [phase : Phases, client : Peers, server : Peers,
                heard : {"nothing", "response", "result"}, asked : BOOLEAN]

ASSUME NothingAssumption == None \notin Proxies \cup Spins \cup Callbacks

(* The types of the state. *)
RosTypeOK ==
  /\ alive \subseteq Scripts
  /\ table \in [Handles -> Proxies \cup {None}]
  /\ issued \in 0 .. MaxHandles
  /\ running \in Scripts \cup {None}
  /\ spin \in Spins \cup {None}
  /\ callback \in Callbacks \cup {None}
  /\ ok \in BOOLEAN
  /\ process \in {"up", "hung", "crashed", "closed"}
  /\ goals \in [Goals -> GoalRecords]
  /\ last \in [Handles -> Goals \cup {None, "null"}]
  /\ goalHandles \in [Handles -> SUBSET Goals]
  /\ told \subseteq Goals
  /\ cutShort \subseteq Handles

Unsent == [phase |-> "unsent", client |-> None, server |-> None,
           heard |-> "nothing", asked |-> FALSE]

RosInit ==
  /\ alive = {}
  /\ table = [h \in Handles |-> None]
  /\ issued = 0
  /\ running = None
  /\ spin = None
  /\ callback = None
  /\ ok = TRUE
  /\ process = "up"
  /\ goals = [g \in Goals |-> Unsent]
  /\ last = [h \in Handles |-> None]
  /\ goalHandles = [h \in Handles |-> {}]
  /\ told = {}
  /\ cutShort = {}

-----------------------------------------------------------------------------
(* The stack.                                                              *)

Live == {h \in Handles : table[h] # None}
Of(kind) == {h \in Live : table[h].kind = kind}

(* The proxies that a frame of the stack still points to. *)
OnStack ==
  (IF spin = None THEN {} ELSE {spin.proxy} \ {None})
    \cup (IF callback = None THEN {} ELSE {callback.proxy})

(* Scripts with a function on the stack. *)
Busy ==
  ({running} \ {None}) \cup (IF callback = None THEN {} ELSE {callback.script})

(* The script that can call a command now. *)
Current ==
  IF callback # None THEN callback.script
  ELSE IF spin = None THEN running
  ELSE None

CanCommand == process = "up" /\ Current # None

(* A proxy is used: if it was freed, anything may come of it. *)
Uses(h) ==
  IF h \in Live THEN process' = process ELSE process' \in {process, "crashed"}

-----------------------------------------------------------------------------
(* Scripts and the simulator's thread.                                     *)

ScriptStarts(s) ==
  /\ process = "up"
  /\ s \notin alive
  /\ alive' = alive \cup {s}
  /\ UNCHANGED <<table, issued, cutShort, threadVars, ok, process, goalVars>>

(* The simulator calls a function of a script; it returns. *)
CallsScript(s) ==
  /\ process = "up"
  /\ running = None /\ spin = None
  /\ s \in alive
  /\ running' = s
  /\ UNCHANGED <<tableVars, spin, callback, ok, process, goalVars>>

ScriptReturns ==
  /\ process = "up"
  /\ running # None /\ spin = None
  /\ running' = None
  /\ UNCHANGED <<tableVars, spin, callback, ok, process, goalVars>>

(* The proxies H leave their tables: they and the ROS entities they own    *)
(* are destroyed.                                                          *)
Free(H) ==
  /\ table' = [h \in Handles |-> IF h \in H THEN None ELSE table[h]]
  /\ last' = [h \in Handles |-> IF h \in H THEN None ELSE last[h]]
  /\ goalHandles' = [h \in Handles |-> IF h \in H THEN {} ELSE goalHandles[h]]
  /\ UNCHANGED <<goals, told>>

(* Mutant of ScriptEnds: the action servers of the script are forgotten. *)
ScriptEndsKeepingServers(s) ==
  /\ process = "up"
  /\ s \in alive \ Busy
  /\ alive' = alive \ {s}
  /\ Free({h \in Live \ Of("actionServer") : table[h].owner = s})
  /\ UNCHANGED <<issued, cutShort, threadVars, ok, process>>

(* Mutant of ScriptEnds: it does not look whose the proxies are. *)
ScriptEndsForAll(s) ==
  /\ process = "up"
  /\ s \in alive \ Busy
  /\ alive' = alive \ {s}
  /\ Free(Live)
  /\ UNCHANGED <<issued, cutShort, threadVars, ok, process>>

(* onScriptStateDestroyed: the proxies that the script made are shut down, *)
(* kind by kind.  For a subscription or a publisher that is not of         *)
(* image_transport the code then reads a member of the proxy it just       *)
(* deleted, which was never set: no allocation came between, so it reads   *)
(* false still.                                                            *)
ScriptEnds(s) ==
  /\ process = "up"
  /\ s \in alive \ Busy
  /\ alive' = alive \ {s}
  /\ Free({h \in Live : table[h].owner = s})
  /\ UNCHANGED <<issued, cutShort, threadVars, ok, process>>

Spinning(op, proxy, owner, peer, goal) ==
  [op |-> op, proxy |-> proxy, owner |-> owner, peer |-> peer, goal |-> goal,
   done |-> FALSE]

(* onInstancePass: the node is spun once. *)
PassBegins ==
  /\ process = "up" /\ ok
  /\ running = None /\ spin = None
  /\ spin' = Spinning("pass", None, None, None, None)
  /\ UNCHANGED <<tableVars, running, callback, ok, process, goalVars>>

PassEnds ==
  /\ process = "up"
  /\ spin # None /\ callback = None
  /\ spin.op = "pass"
  /\ spin' = None
  /\ UNCHANGED <<tableVars, running, callback, ok, process, goalVars>>

(* rclcpp::init() handles SIGINT and SIGTERM: they shut the context down,  *)
(* the simulator goes on.                                                  *)
Interrupted ==
  /\ process = "up" /\ ok
  /\ ok' = FALSE
  /\ UNCHANGED <<tableVars, threadVars, process, goalVars>>

(* onCleanup, when the simulator quits: the tables are left as they are. *)
Closes ==
  /\ process = "up"
  /\ running = None /\ spin = None
  /\ ok' = FALSE
  /\ process' = "closed"
  /\ UNCHANGED <<tableVars, threadVars, goalVars>>

-----------------------------------------------------------------------------
(* Commands that make and free proxies.                                    *)

(* A type that was not compiled in raises an error before the table        *)
(* changes.                                                                *)
Create(kind) ==
  /\ CanCommand
  /\ issued < MaxHandles
  /\ kind \in MayBe[issued + 1]
  /\ issued' = issued + 1
  /\ table' = [table EXCEPT ![issued + 1] = [kind |-> kind, owner |-> Current]]
  /\ UNCHANGED <<alive, cutShort, threadVars, ok, process, goalVars>>

CreateSubscription == Create("subscription")
CreatePublisher == Create("publisher")
CreateClient == Create("client")
CreateService == Create("service")
CreateActionClient == Create("actionClient")
CreateActionServer == Create("actionServer")
CreateImageSubscription == Create("imageSubscription")
CreateImagePublisher == Create("imagePublisher")

(* The handle may be another script's. *)
Shutdown(kinds) ==
  \E h \in Live :
    /\ CanCommand
    /\ table[h].kind \in kinds
    /\ Free({h})
    /\ cutShort' = cutShort \cup ({h} \cap OnStack)
    /\ UNCHANGED <<alive, issued, threadVars, ok, process>>

(* The command for plain topics refuses those of image_transport, whose    *)
(* type it does not know; that of image_transport asks for no type.        *)
ShutdownSubscription == Shutdown({"subscription"})
ShutdownPublisher == Shutdown({"publisher"})
ShutdownClient == Shutdown({"client"})
ShutdownService == Shutdown({"service"})
ShutdownActionClient == Shutdown({"actionClient"})
ShutdownActionServer == Shutdown({"actionServer"})
ShutdownImageSubscription == Shutdown({"subscription", "imageSubscription"})
ShutdownImagePublisher == Shutdown({"publisher", "imagePublisher"})

-----------------------------------------------------------------------------
(* Commands that spin the node until they have their answer.               *)

(* The command's spinning, refused with an error when the node is spun. *)
SpinsFor(op, proxy, peer, goal) ==
  spin' = IF callback # None THEN spin
          ELSE Spinning(op, proxy,
                        IF proxy = None THEN None ELSE table[proxy].owner,
                        peer, goal)

(* From inside a callback the request goes out to no effect: nobody waits  *)
(* for its answer, and a service of this node sees one request more.       *)
CallService ==
  \E c \in Of("client"), peer \in {None} \cup Of("service") :
    /\ CanCommand /\ ok
    /\ callback = None
    /\ SpinsFor("call", c, peer, None)
    /\ UNCHANGED <<tableVars, running, callback, ok, process, goalVars>>

(* The server was there within 5 s; if not, an error is raised. *)
SendGoal(g) ==
  \E c \in Of("actionClient"), peer \in {None} \cup Of("actionServer") :
    /\ CanCommand /\ ok
    /\ goals[g].phase = "unsent"
    /\ goals' = [goals EXCEPT ![g] = [Unsent EXCEPT !.phase = "requested",
                                        !.client = c, !.server = peer]]
    /\ SpinsFor("goal", c, peer, g)
    /\ UNCHANGED <<tableVars, running, callback, ok, process, last,
                   goalHandles, told>>

(* Before the first goal an error is raised.  The handle of a goal that    *)
(* was rejected is null, and is used.                                      *)
CancelLastGoal ==
  \E c \in Of("actionClient") :
    /\ CanCommand /\ ok
    /\ \/ /\ last[c] = "null"
          /\ process' = "crashed"
          /\ UNCHANGED <<goals, spin>>
       \/ /\ last[c] \in Goals
          /\ goals' = [goals EXCEPT ![last[c]].asked = TRUE]
          /\ SpinsFor("cancel", c, goals[last[c]].server, last[c])
          /\ process' = process
    /\ UNCHANGED <<tableVars, running, callback, ok, last, goalHandles, told>>

(* getParam, setParam, hasParam, deleteParam: all but setParam ask first   *)
(* whether the parameter exists.                                           *)
UseParameter ==
  /\ CanCommand /\ ok
  /\ callback = None
  /\ \E op \in {"has", "set"} : SpinsFor(op, None, None, None)
  /\ UNCHANGED <<tableVars, running, callback, ok, process, goalVars>>

(* The future is done, or the spinning was interrupted. *)
Spun(op) ==
  /\ process = "up"
  /\ spin # None /\ callback = None
  /\ spin.op = op
  /\ spin.done \/ ~ok

CallReturns ==
  /\ Spun("call")
  /\ spin' = None
  /\ UNCHANGED <<tableVars, running, callback, ok, process, goalVars>>

(* An interrupted command asks a future for its value that nobody will     *)
(* ever set.                                                               *)
GoalReturns ==
  /\ Spun("goal")
  /\ \/ /\ spin.done
        /\ Uses(spin.proxy)
        /\ last' = IF spin.proxy \notin Live THEN last
                   ELSE [last EXCEPT ![spin.proxy] =
                           IF goals[spin.goal].phase = "rejected" THEN "null"
                           ELSE spin.goal]
        /\ spin' = None
     \/ /\ ~spin.done
        /\ process' = "hung"
        /\ UNCHANGED <<last, spin>>
  /\ UNCHANGED <<tableVars, running, callback, ok, goals, goalHandles, told>>

CancelReturns ==
  /\ Spun("cancel")
  /\ spin' = None
  /\ UNCHANGED <<tableVars, running, callback, ok, process, goalVars>>

(* Interrupted, has_parameter() answers no and get_parameters() nothing:   *)
(* its front() does not exist.                                             *)
ParameterReturns ==
  \/ /\ Spun("has")
     /\ \/ spin' = None
        \/ /\ spin.done /\ ok
           /\ \E op \in {"get", "set"} :
                spin' = Spinning(op, None, None, None, None)
     /\ UNCHANGED <<tableVars, running, callback, ok, process, goalVars>>
  \/ /\ \E op \in {"get", "set"} :
          /\ Spun(op)
          /\ process' \in IF op = "get" /\ ~spin.done THEN {"up", "crashed"}
                          ELSE {"up"}
     /\ spin' = None
     /\ UNCHANGED <<tableVars, running, callback, ok, goalVars>>

-----------------------------------------------------------------------------
(* What the spinning dispatches.                                           *)

Dispatching ==
  /\ process = "up" /\ ok
  /\ spin # None /\ callback = None
  /\ ~spin.done

(* A callback of the proxy h, or of what is left of it, is called. *)
Serves(h, what, g) ==
  LET script == IF h \in Live THEN table[h].owner ELSE spin.owner
  IN  /\ Uses(h)
      /\ callback' = IF script \notin alive THEN None
                     ELSE [proxy |-> h, script |-> script, what |-> what,
                           goal |-> g]

(* Whether this is what the command on the stack waits for. *)
Completes(op, x) ==
  spin' = IF spin.op = op /\ x THEN [spin EXCEPT !.done = TRUE] ELSE spin

Message(h) ==
  /\ Dispatching
  /\ h \in Of("subscription") \cup Of("imageSubscription")
  /\ Serves(h, "message", None)
  /\ UNCHANGED <<tableVars, running, spin, ok, goalVars>>

(* A request of somebody outside, or the one of the command on the stack:  *)
(* its answer is read once the callback is over.                           *)
Request(h) ==
  /\ Dispatching
  /\ h \in Of("service")
  /\ Serves(h, "request", None)
  /\ spin' = spin
  /\ UNCHANGED <<tableVars, running, ok, goalVars>>

AwaitedRequest(h) ==
  /\ Dispatching
  /\ h \in Of("service")
  /\ spin.op = "call" /\ spin.peer = h
  /\ Serves(h, "request", None)
  /\ Completes("call", TRUE)
  /\ UNCHANGED <<tableVars, running, ok, goalVars>>

GoalRequest(h, g) ==
  /\ Dispatching
  /\ h \in Of("actionServer")
  /\ \/ /\ goals[g].phase = "requested" /\ goals[g].server = h
        /\ goals' = goals
     \/ /\ goals[g].phase = "unsent"
        /\ goals' = [goals EXCEPT ![g].phase = "requested", ![g].server = h]
  /\ Serves(h, "goal", g)
  /\ UNCHANGED <<tableVars, running, spin, ok, last, goalHandles, told>>

(* A cancel asked for by cancelLastGoal, or by a client outside. *)
CancelRequest(h, g) ==
  /\ Dispatching
  /\ h \in Of("actionServer")
  /\ goals[g].server = h
  /\ goals[g].phase \in Active
  /\ goals[g].asked \/ goals[g].client = None
  /\ goals' = [goals EXCEPT ![g].asked = FALSE]
  /\ Serves(h, "cancel", g)
  /\ Completes("cancel", spin.goal = g)
  /\ UNCHANGED <<tableVars, running, ok, last, goalHandles, told>>

(* The client is there as long as its proxy or a command that uses it. *)
Reaches(c) == c \in Live \/ (c # None /\ c = spin.proxy)

(* Mutant of Response: the future of a rejected goal is not set. *)
ResponseOnlyAccepted(g) ==
  /\ Dispatching
  /\ Reaches(goals[g].client)
  /\ goals[g].heard = "nothing"
  /\ \E phase \in IF goals[g].phase # "requested" THEN {goals[g].phase}
                  ELSE IF goals[g].server = None THEN {"rejected", "executing"}
                  ELSE {} :
       /\ goals' = [goals EXCEPT ![g].phase = phase, ![g].heard = "response"]
       /\ Completes("goal", spin.goal = g /\ phase # "rejected")
  /\ Serves(goals[g].client, "response", g)
  /\ UNCHANGED <<tableVars, running, ok, last, goalHandles, told>>

(* A server outside decides on the goal, one of this node has done so. *)
Response(g) ==
  /\ Dispatching
  /\ Reaches(goals[g].client)
  /\ goals[g].heard = "nothing"
  /\ \E phase \in IF goals[g].phase # "requested" THEN {goals[g].phase}
                  ELSE IF goals[g].server = None THEN {"rejected", "executing"}
                  ELSE {} :
       goals' = [goals EXCEPT ![g].phase = phase, ![g].heard = "response"]
  /\ Serves(goals[g].client, "response", g)
  /\ Completes("goal", spin.goal = g)
  /\ UNCHANGED <<tableVars, running, ok, last, goalHandles, told>>

Feedback(g) ==
  /\ Dispatching
  /\ Reaches(goals[g].client)
  /\ goals[g].heard = "response"
  /\ goals[g].phase \in Active \cup {"canceling"}
  /\ Serves(goals[g].client, "feedback", g)
  /\ UNCHANGED <<tableVars, running, spin, ok, goalVars>>

Result(g) ==
  /\ Dispatching
  /\ Reaches(goals[g].client)
  /\ goals[g].heard = "response"
  /\ \E phase \in IF goals[g].phase \in Ends THEN {goals[g].phase}
                  ELSE IF goals[g].server = None /\ goals[g].phase \in Active
                  THEN Ends
                  ELSE {} :
       goals' = [goals EXCEPT ![g].phase = phase, ![g].heard = "result"]
  /\ Serves(goals[g].client, "result", g)
  /\ UNCHANGED <<tableVars, running, spin, ok, last, goalHandles, told>>

(* Answers that call no script: of a service outside, of the node's own    *)
(* parameter services, and to the cancel of a goal that is not this node's *)
(* or is past cancelling.                                                  *)
Answered ==
  /\ Dispatching
  /\ \/ spin.op \in {"has", "get", "set"}
     \/ spin.op = "call" /\ spin.peer = None
     \/ /\ spin.op = "cancel"
        /\ \/ spin.peer = None
           \/ spin.peer \in Live /\ goals[spin.goal].phase \notin Active
  /\ spin' = [spin EXCEPT !.done = TRUE]
  /\ UNCHANGED <<tableVars, running, callback, ok, process, goalVars>>

-----------------------------------------------------------------------------
(* The end of a script's callback.  What follows it uses the proxy.        *)

Answers(what) ==
  /\ process = "up"
  /\ callback # None
  /\ callback.what = what
  /\ Uses(callback.proxy)

Over(what) ==
  /\ Answers(what)
  /\ callback' = None
  /\ UNCHANGED <<tableVars, running, spin, ok, goalVars>>

MessageOver == Over("message")
RequestOver == Over("request")
ResponseOver == Over("response")
FeedbackOver == Over("feedback")
ResultOver == Over("result")
AcceptedOver == Over("accepted")

(* An invalid answer, or a failing script, rejects the goal. *)
GoalRejected ==
  /\ Answers("goal")
  /\ goals' = [goals EXCEPT ![callback.goal].phase = "rejected"]
  /\ callback' = None
  /\ UNCHANGED <<tableVars, running, spin, ok, last, goalHandles, told>>

(* Mutant of GoalAccepted: the handle is stored once the goal executes. *)
GoalAcceptedUnstored ==
  /\ Answers("goal")
  /\ \E phase \in Active :
       /\ goals' = [goals EXCEPT ![callback.goal].phase = phase]
       /\ goalHandles' = [h \in Handles |->
            IF h = callback.proxy /\ h \in Live /\ phase = "executing"
            THEN goalHandles[h] \cup {callback.goal}
            ELSE goalHandles[h]]
  /\ told' = told \cup {callback.goal}
  /\ callback' = [callback EXCEPT !.what = "accepted"]
  /\ UNCHANGED <<tableVars, running, spin, ok, last>>

(* The response goes out, and the same dispatch stores the handle and      *)
(* calls handle_accepted.  "executing" is accept and execute, "accepted"   *)
(* is accept and defer.                                                    *)
GoalAccepted ==
  /\ Answers("goal")
  /\ \E phase \in Active :
       goals' = [goals EXCEPT ![callback.goal].phase = phase]
  /\ goalHandles' = [h \in Handles |->
       IF h = callback.proxy /\ h \in Live THEN goalHandles[h] \cup {callback.goal}
       ELSE goalHandles[h]]
  /\ told' = told \cup {callback.goal}
  /\ callback' = [callback EXCEPT !.what = "accepted"]
  /\ UNCHANGED <<tableVars, running, spin, ok, last>>

(* An invalid answer, or a failing script, rejects the cancel. *)
CancelAnswered ==
  /\ Answers("cancel")
  /\ goals' = [goals EXCEPT ![callback.goal].phase =
                 IF goals[callback.goal].phase \in Active THEN "canceling"
                 ELSE goals[callback.goal].phase]
       \/ goals' = goals
  /\ callback' = None
  /\ UNCHANGED <<tableVars, running, spin, ok, last, goalHandles, told>>

-----------------------------------------------------------------------------
(* Commands of a script about a goal of an action server.                  *)

(* getGoalHandle: an error is raised for a goal it does not find. *)
Finds(h, g) == g \in goalHandles[h]

(* cleanupTerminalGoalHandles returns at once: the handles of finished     *)
(* goals stay until the server is shut down.                               *)
KeptHandles(h) == goalHandles[h]

(* rclcpp refuses the transitions that its goals do not have. *)
Moves(g, from, to) ==
  \E h \in Of("actionServer") :
    /\ CanCommand
    /\ Finds(h, g)
    /\ goals[g].phase \in from
    /\ goals' = [goals EXCEPT ![g].phase = to]
    /\ goalHandles' = [goalHandles EXCEPT ![h] = KeptHandles(h)]
    /\ UNCHANGED <<tableVars, threadVars, ok, process, last, told>>

ActionExecute(g) == Moves(g, {"accepted"}, "executing")
ActionSucceed(g) == Moves(g, {"executing", "canceling"}, "succeeded")
ActionAbort(g) == Moves(g, {"executing", "canceling"}, "aborted")
ActionCanceled(g) == Moves(g, {"canceling"}, "canceled")

-----------------------------------------------------------------------------
Creates ==
  \/ CreateSubscription \/ CreatePublisher \/ CreateClient \/ CreateService
  \/ CreateActionClient \/ CreateActionServer
  \/ CreateImageSubscription \/ CreateImagePublisher

Shutdowns ==
  \/ ShutdownSubscription \/ ShutdownPublisher \/ ShutdownClient
  \/ ShutdownService \/ ShutdownActionClient \/ ShutdownActionServer
  \/ ShutdownImageSubscription \/ ShutdownImagePublisher

Asks ==
  \/ CallService \/ CancelLastGoal \/ UseParameter
  \/ \E g \in Goals : SendGoal(g)

Returns == CallReturns \/ GoalReturns \/ CancelReturns \/ ParameterReturns

Dispatches ==
  \/ \E h \in Handles :
       \/ Message(h) \/ Request(h) \/ AwaitedRequest(h)
       \/ \E g \in Goals : GoalRequest(h, g) \/ CancelRequest(h, g)
  \/ \E g \in Goals : Response(g) \/ Feedback(g) \/ Result(g)
  \/ Answered

CallbackEnds ==
  \/ MessageOver \/ RequestOver \/ ResponseOver \/ FeedbackOver \/ ResultOver
  \/ AcceptedOver \/ GoalRejected \/ GoalAccepted \/ CancelAnswered

ServesGoals ==
  \E g \in Goals :
    ActionExecute(g) \/ ActionSucceed(g) \/ ActionAbort(g) \/ ActionCanceled(g)

RosNext ==
  \/ \E s \in Scripts : ScriptStarts(s) \/ CallsScript(s) \/ ScriptEnds(s)
  \/ ScriptReturns \/ PassBegins \/ PassEnds \/ Interrupted \/ Closes
  \/ Creates \/ Shutdowns \/ Asks \/ Returns
  \/ Dispatches \/ CallbackEnds \/ ServesGoals

RosSpec == RosInit /\ [][RosNext]_rosVars

(* What the command on the stack waits for comes forward. *)
Awaited ==
  /\ Dispatching
  /\ \/ Answered
     \/ \E h \in Handles : AwaitedRequest(h)
     \/ \E g \in Goals :
          /\ g = spin.goal
          /\ \/ Response(g)
             \/ \E h \in Handles :
                  \/ goals[g].phase = "requested" /\ GoalRequest(h, g)
                  \/ goals[g].asked /\ CancelRequest(h, g)

(* Callbacks of scripts return, and so does the command that has its       *)
(* answer.  What a command waits for and is ready is dispatched: the       *)
(* executor hands out all that is ready before it waits again, but other   *)
(* callbacks may come first.                                               *)
RosFairness ==
  /\ WF_rosVars(CallbackEnds \/ Returns)
  /\ SF_rosVars(Awaited)

FairRosSpec == RosSpec /\ RosFairness

-----------------------------------------------------------------------------
(* The handle tables are a HandleTable, whatever the scripts and the       *)
(* callbacks do to each other (onScriptStateDestroyed, create, shutdown).  *)
Tables == INSTANCE HandleTable WITH
  holder <- [h \in Handles |-> IF table[h] = None THEN None ELSE table[h].owner]

TablesAreSound == Tables!TableSpec

(* A goal that a script was told of (handle_accepted) is found by every    *)
(* later command about it, for as long as the action server is there: the  *)
(* first may come from inside that callback, the last after the goal ended.*)
ToldGoalsAreFound ==
  \A g \in told : goals[g].server \in Live => g \in goalHandles[goals[g].server]

(* A command or a callback on the stack still has its proxy, unless a      *)
(* script shut the proxy down, or the command was called with another      *)
(* script's handle: the end of a script never pulls a proxy from under     *)
(* the functions of that script.                                           *)
StackKeepsItsProxies ==
  \A h \in OnStack :
    \/ h \in Live \cup cutShort
    \/ h = spin.proxy /\ spin.owner # running

(* A command that waits for this node's own service or action server ends: *)
(* its answer comes through the node it is spinning, while the callbacks   *)
(* it waits for may themselves try to spin, send goals and shut proxies    *)
(* down.  It does not if the one it waits for is shut down, or Ctrl-C      *)
(* comes.                                                                  *)
WaitsForOwn ==
  /\ spin # None
  /\ spin.op \in {"call", "goal", "cancel"}
  /\ spin.peer \in Live
  /\ ok /\ process = "up"

OwnAnswersCome == []<>~WaitsForOwn
=============================================================================
