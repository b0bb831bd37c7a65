# Formal model of robotics-escape-room

The repository makes a simulated RoboMaster EP explore a room, find a cube (the
"key") and carry it to a pressure plate that opens a door. This directory holds
TLA+ models of its control logic, TLC runs on small instances and TLAPS proofs
for every instance.

    tlc  -config NavClient.cfg MCNavClient.tla       # one run
    tlapm ExplorerMissionProofs.tla                  # one proof module

## 1. The system

Four processes matter. Paths are below `src/src/`.

| Part | Where | State it keeps | Operations | Talks to |
|---|---|---|---|---|
| Mission state machine | `escape_room/.../nodes/explorer_node.py`, `explorer/state.py` | `mode`, `targets`, `_cube_live`, lunge and backup start, gripper timer | a 10 Hz tick with one handler per state, three subscriptions, start-up, end | Navigation client (calls), Gripper I/O (calls), `/cmd_vel` (publishes) |
| Navigation client | `explorer/nav_client.py` | `_active`, `_succeeded`, `_handle` | `send`, `cancel`, `_on_goal_accepted`, `_on_nav_result` | Nav2's NavigateToPose server (action messages) |
| Gripper I/O | `explorer/gripper.py`, `scripts/gripper_helpers.lua` | target and reported state of the jaws, the cube's `detectable` flag | `open`, `close`, `is_open`, `is_closed`, `set_cube_visible` | stock gripper script, through ZMQ to the simulator |
| Frontier extraction | `explorer/frontier.py` | none | `compute_frontiers` | mission (call) |
| Colour detector | `nodes/color_detector_node.py` | per colour: last published target | one image callback | mission (topics `/targets/*`) |
| Door controller | `nodes/door_controller.py` | `is_open`, `latch` | a polling tick | the simulator (ZMQ) |
| Simulated command port | `robomaster_sim/src/command.cpp`, `topic.cpp`, `include/event.hpp` | sessions, publishers, events, heartbeat time | one handler per message, `do_step` | simulated robot, streamer, driver (UDP) |
| Simulated robot | `robomaster_sim/src/robot/robot.cpp`, `robot/action.cpp`, `include/action.hpp` | the running action of each kind, actuator states | `submit_action`, `do_step` | command port (pushes), simulator |
| Video streamer | `robomaster_sim/src/streamer.cpp` | `active`, encoder, sockets | `start`, `stop`, `do_step`, the accept callback | a video client (TCP, UDP) |
| Simulated subsystems | `robot/chassis.cpp`, `arm.cpp`, `gimbal.cpp`, `led.cpp` | wheel, arm, gimbal and LED state | setters, `do_step` | robot |
| Wire protocol | `protocol.cpp`, `server.cpp`, `command_messages.hpp` | the receive buffer, a handler per key | encode, decode, checksum, answer | every port |
| Discovery and connection ports | `discovery.cpp`, `connection.cpp` | `active`, `deadline` | a periodic announcement, one stateless answer | applications on the network |
| ROS driver session | `robomaster_ros/.../client.py`, `robomaster_driver.py` | `connected`, `initialized`, the heartbeat timer | connect, `stop`, `abort`, heartbeat callbacks, reconnect loop | driver modules, SDK |
| ROS driver actions | `action.py`, `modules/{arm,gripper,servo,gimbal,chassis,speaker}.py` | the running action, locks | action server callbacks, `wait_action`, `abort_action` | SDK (threads), executor |
| ROS driver streams | `modules/{camera,vision,tof}.py` | publishers | conversions | SDK |
| CoppeliaSim plugin | `coppeliaSim_plugin/plugin.cpp`, `robomaster.cpp` | `_robots`, `_interfaces`, `next_robot_handle`, a network thread per interface | `create*`, the script commands, a step, the end of the simulation | scripts of the scene (commands), robots and command ports (calls, threads) |
| simExtROS2 | `simExtROS2/src/sim_ros2_interface.cpp`, `templates/` | six handle tables, one ROS node, goal handles per proxy | create and shutdown commands per kind, commands that spin the node, callbacks, `onScriptStateDestroyed` | scripts of the scene (commands, callbacks), ROS 2 |

### What is hard in it

* **Answers without a name.** `NavClient`'s callbacks do not know which goal
  they answer. The mission cancels a goal and sends the next within one tick, so
  responses, cancels and results of different goals cross.
* **Two masters of the wheels.** The mission and Nav2's controller publish on
  the same `/cmd_vel`; nothing arbitrates.
* **Stale reports.** The gripper script's state belongs to the previous command
  until the jaws have moved; a cube detection may be older than the velocity it
  caused; a timeout counts as success.
* **Half-done steps.** A ZMQ call that raises ends the node between a transition
  and the command that belongs to it.
* **Threads without locks.** In the simulator, the physics thread steps what the
  network thread inserts and erases; in the driver, SDK threads and executor
  threads share actions, events and futures.
* **One thread for all scripts.** A script that calls a service spins the ROS node
  on the simulator's only thread; the callbacks of other scripts run inside its
  call, and may free what it uses.
* **Half-made robots.** Creating a robot fills three tables and may fail between
  them; the end of the simulation empties them under running network threads.
* **Watchdogs.** The simulator drops a client 3 s after its last heartbeat, the
  driver a robot; either may fire on a peer that is merely slow.

### What makes each component correct

* Navigation client: `active` means that an answer is owed; a handle belongs to
  a goal still in play; `succeeded` means that the last goal was reached and
  nothing drives.
* Mission: the documented stages in their order; the wheels belong to the
  mission outside navigation states; jaws move under a standing robot; the cube
  is hidden from the lidar exactly while carried, and carried in closed jaws;
  no wait on the gripper lasts for ever.
* Door: open when the cube lies on the plate, never closed again when latched.
* Command port: nothing is pushed to a client that is gone; what a client
  subscribed to runs until it unsubscribes, resets or vanishes.
* Robot: one action of a kind at a time; each accepted action ends with exactly
  one final push.
* Streamer: active only with an encoder; `stop` means no further frame.
* Actuators: what the simulator is told follows from what was last asked, in the
  frame it was asked in; disengaged wheels stay still; a LED command changes the
  bulbs it names.
* Driver: every goal is answered, and with success only on the robot's word; no
  connection is closed under a running action; a robot that is gone is noticed;
  after Ctrl-C the driver ends and does not connect again.
* Frontiers: one centroid per connected cluster that is large enough. Colour
  detector: the pose kept for late subscribers is one of a whole object.
* Plugin: the orders given by a handle reach the model that the handle was made
  for; a network thread has its robot for as long as it runs; the simulation ends.
* simExtROS2: a handle is given out once, and goes with its script; the end of a
  script takes nothing from under a running command; a goal that a script was told
  of can be found; a script that asks its own node is answered.
* Frames: a reader finds what the writer put in; an answer goes to its asker.

`PROJECT.json` lists the hazards of this kind line by line, with the properties
that cover them.

## 2. The modules

### `NavClient` - the Nav2 client and its server

One action per method and callback of `nav_client.py`; the Nav2 server is
external and reduced to the four things it may do to a goal.

| Code | Model |
|---|---|
| `_active`, `_handle`, `_succeeded` | `active`, `handle`, `succeeded` |
| `send()` | `Send` (its request half is `Request`); if the server is missing, `send()` changes nothing: a stuttering step |
| `cancel()` | `Cancel` (its request half is `Revoke`) |
| `cancel()` then `send()` in one tick | `CancelThenSend` |
| `_on_goal_accepted()` | `OnGoalAccepted`: both branches |
| `_on_nav_result()` | `OnNavResult(g)`, for any goal that has ended |
| goal requests and responses | `inFlight`, in the order of sending |
| results asked for | `waiting` |
| cancel requests on their way | `cancels` |
| Nav2's status of a goal | `server`; a newly accepted goal aborts the one that runs |

`latest` and `overlapped` are history variables. `overlapped` says that some
`send()` found an earlier goal unanswered; the properties that the code only
keeps while this does not happen say so in their premise, and the findings below
show that it can happen. Goal identifiers are recycled when nothing of the
previous goal is in flight, so behaviours are unbounded in length.

`Caller` is what a well-behaved user may do: send when not active, send right
after cancelling, cancel at any time.

### `ExplorerMission` - the node, composed with all it drives

EXTENDS `NavClient`, so the client's variables and actions are the mission's.
There is one action per outcome of each state's handler (`Explore`,
`GoToKeyRetries`, `GoToKeyArrives`, `PickupOpen`, ...), one per subscription, the
start-up, the end, and the world: time, jaws, wheels, Nav2's velocities.

The node runs on a single-threaded executor, so each tick and each callback is
one atomic step, and they interleave in every order. A tick that returns without
effect (no pose, no frontier, still driving) is a stuttering step.

| Code | Model |
|---|---|
| `mode`, `targets`, `_started`, `_lunge_active` | variables of the same name (`targets`: the set of its keys) |
| `clock_s() - action_t` against `gripper_timeout_s` | `actionAge`, saturating at `GripperTimeout` |
| `_cube_live` and its age | `cubeLive` (`off`, `far`, `near`, or `none` when stale) and `cubeAge` |
| odometry distances against `_lunge_dist`, `drop_backup_m` | `advanced`, in steps; never negative, as in the code |
| last Twist on `/cmd_vel` | `cmd`; Nav2's own is `nav` |
| `_ext_target_state`, `_ext_current_state` | `jawTarget`, `jawState` |
| a ZMQ call that raises | `Raises`: the node ends, the rest of the handler is lost, the last velocity is zero |
| `_transition()` | `Transition`, with the `cancel()` it makes; with the goal of the next state, `TransitionAndGo` |

Geometry is reduced to what handlers branch on. Positions of landmarks are left
out because only their presence decides anything.

### `MissionOrder` - the abstract specification

The stages of `state.py` in the order of the documented state machine; entering a
stage gives the jaws the command of that stage and hides or shows the cube; the
mission may end at any time, and a command may be lost if it does.
`ExplorerMission` implements it with `running <- alive, stage <- mode, jaws <-
jawTarget, hidden <- ~cubeVisible` (`KeepsOrder`).

### `RobotActions` - the simulated robot's long-running actions

A component of the simulator, not composed with the mission: the mission drives
the wheels by `/cmd_vel` and the jaws by the gripper script.

| Code | Model |
|---|---|
| `actions` (a map by kind) | `running`: per kind the action in its slot, or `None` |
| `previous_action_state` | `previous` |
| `submit_action()` for each kind, called by `command_messages.hpp` or by the plugin's `move_to` and the like | `Submit`, either `Accept` or `Reject`; the plugin's actions have the id `None` |
| a request with `action_ctrl` other than start | `RequestStop`: nothing happens, and the answer's `accept` is whatever the memory held |
| the loop over the actions in `Robot::do_step()` | `Step` |
| `do_step()` of each action | `Moved` (base, arm, gimbal), `Turned` (servo), `Played` (sound) |
| `ActionSDK::publish()` | `Due`, `Rescheduled`, and `pushed` |
| `remaining_duration` of a sound, `time_left` of a servo move | `left` |
| `get_action_state()` | `ActionState` |

Time is counted in units of which a step takes `StepLen`; the code's floats are
replaced by integers, so that rounding is left out. Whether an actuator has
arrived is free in every step. `owed` and `quiet` are history variables: the
final pushes owed to clients, and the time since the last push.

Requests and steps are atomic: the stand-alone server runs both on one thread
(`test.cpp`). Actions with the id `None` come from scripts, which exist only in
the plugin. There, scripts and steps share the simulator's thread, but network
requests run on another without a lock; for the plugin the atomicity is
therefore an assumption, and its races are listed as a hazard.

### `VideoStreamer` and `CommandSession` - the command port and its client

`VideoStreamer` holds the state that video needs: the robot's camera, the
streamer with its encoder, and the accepts that a TCP streamer cannot take back.
`CommandSession` EXTENDS it: its messages start and stop the video, its watchdog
ends it, and its step is the robot's, in the order of the code: the camera
captures, the topics are pushed, the watchdog looks, the streamer sends.

| Code | Model |
|---|---|
| `camera.streaming`, `width`/`height`, `image` | `streaming`, `size`, `image` (a frame is its size, or `None` when the simulator has none) |
| `encoder`, `active`, pending `async_accept` | `encoder` (the size it is for), `active`, `accepts` |
| `last_time_step`, not initialised | `stepped`; before the first step `StartCamera` may go either way |
| a null encoder is dereferenced | `alive` becomes `FALSE` and the server stops |
| `connected`, `_time - last_heartbeat` | `connected`, `silence` |
| `publishers`, by node and message id | `publishers`, by key: subject, period, deadline |
| `armor_hit_event` and `ir_hit_event`; `vision_event` | `events`; `visionEvent` (its mask) |
| `vision.enabled` | `detector`; it gets the low byte of the mask |
| `unconnect()` | `Dropped`, with `StopStream` (`reset_subscriber_node`) or in the step (`Loses`) |
| `create_publisher()` for a list of uids | `AddSubMsg`: the first known uid makes the topic, later ones find it there |
| `Topic::do_step()`'s loop | `Pushes` (how often it turns) and `Advanced` |

SetSdkMode with 1 changes nothing but a flag that nobody reads, and is a stuttering
step, as is a subscription without a known uid. Times are integers. `gone` says that the client
has vanished without a word; it (or another) may come back. `lag` is a history
variable: the time a topic was subscribed for, less a period for each push.
Messages and steps are atomic, as they are in the stand-alone server.

### `RobotLeds` and `RobotBody` - the actuators that messages and actions share

`RobotLeds` EXTENDS `RobotActions`, and `RobotBody` EXTENDS `RobotLeds`: one step
of the robot reads the sensors, steps the actions, and forwards what changed to
wheels, servos, gripper and lights, as `Robot::do_step()` does.

| Code | Model |
|---|---|
| `CompositeLED`, `ActiveLED`, `blaster_led` | `led`, `shown` (what was forwarded last), `blaster` |
| `set_led_effect()` with its mask; `BlasterSetLed` | `SetLedEffect`; `SetBlasterLed` |
| `chassis.wheel_speeds` and `wheel_motors_engaged` | `wheels` (desired and target), `engaged` |
| `ControllableValue`s of a `Servo` | `joint`: desired, target and current value of each |
| `Gimbal` | `gimbal`: mode, whether it follows, performs, its target and the target's frame |
| `MoveGimbalAction`, `MoveArmAction`, `MoveServoAction` | `wish` (until its first step resolves it), `armGoal`, `servoGoal` |
| `gripper.state`, `gripper.power` | `grip`, desired and target |
| each handler of `command_messages.hpp` that commands an actuator | the action of its name, under `Message` |
| `control_chassis`, `control_leds`, `control_servos`, `Gimbal::update_control` | `WheelsStep`, `LedStep`, `Told`, `Wanted` and `Limited` |

Each joint has one axis in whole units; the physics (how far a joint gets in a
step, where the chassis turns) is free within its limits. `standby`, `aim`,
`gripAge` and `touched` are history variables. `BodySpec` implements
`RobotActions` (proved), so everything about actions holds of the whole body.

Actions are stepped before `Gimbal::update_control()`, which takes over the chassis'
attitude (`robot.cpp:173-187`, `gimbal.cpp:6`). A gimbal action therefore measures,
resolves its goal and holds still with the heading of the step before: the variable
`heading` in `Resolved`, `Distance` and `HoldStill`. Only `Wanted` and `Limited` know
this step's. `GimbalMoveReaches` says how far off that leaves a gimbal whose action
succeeds: by the chassis' turn in that one step.

The model shows some habits of the code that its properties have to respect.
`GripperCtrl` with a new state and a new power tells the old power first and the
new one a step later (`robot.cpp:196`). A speed command or a change of the robot's
mode during a gimbal action lets it end elsewhere (`aim.lost`). `fixed_angles()`
tests the yaw's frame for the pitch too (the model has the yaw alone). The gripper's
values are forwarded once in the first step, changed or not, which the model leaves
out. A servo action does not switch its servo
to angle mode; in speed mode it ends by its time limit.

### `DriverActions` and `DriverSession` - the ROS driver

`DriverActions` is `action.py` and the action servers; `DriverSession` EXTENDS it
with the main loop, the node's life, the heartbeat timer and Ctrl-C.

| Code | Model |
|---|---|
| a goal's execution: `execute_*_callback`, `wait_action()` | `job[g].at`: `task`, `check`, `create`, `lock`, `track`, `wait`, `quit`, `report`; one action per step that others may interleave with |
| the executor hands out a goal's execution (rclpy) | `Dispatch`, in a session `Begins`: only while some frame spins |
| the gripper's `locked()`, its test of the state, `acquire()` | `Check`, `SucceedAtOnce` or `Queue`, `Acquire`: three steps |
| `feedback_msg.current_state == target_state` of the gripper | `job[g].sdk = "succeeded"`: from the start if the target is PAUSE (0, the default), later as the last message says |
| the goal handle's state; the SDK action's state; its event | `job[g].goal`, `.sdk`, `.woke`; `heard`: a push came since the wait began |
| `ActionDispatcher._in_progress` (SDK) | `pending` |
| `self.action` of a module; the gripper's lock | `tracked` |
| `should_abort`; `_stop_action` tasks | `flag`, `stopping` |
| the robot's pushes and its silence | `Push`, `Silence` (external) |
| the loop of `main()` | `main`: `NewNode`, `Made`, `SpinEnds`, `AbortNext`, `AbortWaits`, `Turned`, `Stop`, `Close`, `Dies`, `Destroy`, `Again` |
| `shutdown()`, the handler of SIGINT | `handler`: a second frame over `main` with the same steps, then `Down` |
| `heartbeat_check_timer`, `heartbeat_check()` | `timer`, `TimerTaken`, `HeartbeatCheck` |

Executions are tasks of the executor: a goal's waits at `task` until the main thread or
the handler spins, perhaps after its node was stopped, and once it has its thread it
runs whoever spins. This is rclpy's part and external; it is taken that the pool has
threads to spare and that answers on a destroyed server are ignored. A task that is not
handed out before the node stops or the context shuts down is not answered in time
(`Forgotten`). The callback group of a server keeps its goal and cancel callbacks apart,
but not the executions: two goals accepted in a row run side by side, although
`gimbal.py` says of this "should never be, as mutually excluive". Two executions of the
gripper may both find its lock free; the second blocks in `acquire()`, and goes on when
the first releases. If the first raises after the shutdown, it keeps the lock: the
second is blocked for ever (`Forgotten` again), and its thread keeps Python from ending,
though `main()` has returned. `crowd` remembers goals that met another one, and `owed`
and `SuccessIsTheRobots` leave them out. Failure states of the SDK are one state,
because the code only asks `has_succeeded`. Time limits may run out whenever they are
waited for.

A TODO in `arm.py:209-211` and `gimbal.py:166-168` says that actions "block other
callbacks so the hearbeat deadman trigger and the node exit". It predates the
`MultiThreadedExecutor` of `robomaster_driver.py`: executions have threads of their
own, and `LossIsNoticed` and `InterruptEnds` show that the trigger and the exit come.
What is left of it is a delay: `abort()` waits until the executions have ended.

Left out: a second interrupt; one in the 0.1 s pause, which nothing catches; one in
`stop()`, which closes twice. Three habits of the code shape the model: an entry
that stays in `_in_progress` after a connection ends blocks the next goals of its
kind; a push after `self.action = None` raises in the callback and is lost; the
gripper's goal for PAUSE succeeds at its deadline without a message, for
`feedback_msg.current_state` is 0 before any (`gripper.py:162-208`). `mute` remembers
such goals, and `SuccessIsTheRobots` names them as its exception.

### `PluginRobots` - the robots of a scene and their threads

| Code | Model |
|---|---|
| `_robots`, with what each was told last | `robots`: the model a robot controls, and by whose order it moves |
| `_interfaces` | `interfaces`: whose remote API it is, its thread (waits or handles a request), its `io_context` (stopped or not) |
| `next_robot_handle` | `next` |
| `add_robot()` that returns -1; that returns a handle; that throws | `CreateRefused`, `CreateSucceeds`, `CreateFails` |
| the script commands, `if (_robots.count(in->handle)) ...` | `Commands`, with `Takes` |
| a request on the network thread | `NetworkBegins`, `NetworkEnds`: steps of the simulator fall between the two |
| `onSimulationBeforeActuation()` | `Steps`, in the order of the handles: of two robots on one model the last wins |
| `onSimulationAboutToEnd()` | `Stops` and `Joins` for each interface in turn (`~RoboMaster`), then `ClearsRobots` |

`holds` is what a script has for a handle (`-1` when refused, nothing when the
command raised), `moves` whose orders the model in the scene follows. A script
commands by the handle it got. `spoiled` is a history variable: some `add_robot()` of
this simulation threw after `_robots.emplace`. `CreateFails` shows what follows: the robot
stays, the handle is not counted, the next create command gets that handle,
`emplace` leaves the old robot in place, and two scripts drive one model
(`plugin.cpp:203`, `:216`). `OrdersReachTheirModel` has this in its premise.

### `RosInterface` - scripts, proxies and one thread

The simulator's thread is a stack of at most three frames: a function of a script
or the instance pass (`running`), a command that spins the node (`spin`), and the
callback that the spinning dispatched (`callback`). rclcpp refuses to spin a node
that is being spun, so the stack grows no further.

| Code | Model |
|---|---|
| the six `sim::Handles` | `table`: kind and owner of each handle; `issued` counts them |
| `create*`, `shutdown*`, their image_transport forms | an action of the same name each, over `Create` and `Shutdown` |
| `onScriptStateDestroyed()` | `ScriptEnds`, not for a script with a function on the stack |
| `call`, `sendGoal`, `cancelLastGoal`, `getParam*` ... | `CallService`, `SendGoal`, `CancelLastGoal`, `UseParameter`, and the `...Returns` of each |
| `onInstancePass()`'s `spin_some()` | `PassBegins`, `PassEnds` |
| callbacks in `callbacks.cpp` and in the templates | one action where it is dispatched (`Message`, `Request`, `GoalRequest`, `CancelRequest`, `Response`, `Feedback`, `Result`), one where it is over |
| `last_goal_handle`, `goalHandles` | `last` (`"null"` after a rejected goal), `goalHandles` |
| `actionServerAction*` with `getGoalHandle()` and `cleanupTerminalGoalHandles()` | `ActionExecute`, `ActionSucceed`, `ActionAbort`, `ActionCanceled` over `Moves`, `Finds`, `KeptHandles` |
| `onCleanup()`; SIGINT in rclcpp | `Closes`; `Interrupted` |

Callbacks hold a plain pointer to their proxy. `Uses` is such a use: if the proxy was
freed meanwhile, the simulator may crash or go on (`process`). So is a null goal handle
in `cancelLastGoal()`, and `get()` on a future that an interrupt left without a value,
which hangs. A goal request is only dispatched to a live server: that the executor may
still hold one that was shut down in the same round is left out. `told` and `cutShort`
are history variables: the goals that a `handle_accepted` callback was called for, and
the proxies that a script shut down while a frame used them.

### `HandleTable` - the abstract specification of the handle tables

A handle is given out once, to a script that lives; it is released alone or with all
of its script's. `RosInterface` implements it with `holder <-` the owner of the
proxy in the table (`TablesAreSound`).

### `Protocol` and `Checksum` - the frames of every port

Operators over sequences of bytes: `EncodeMsg`, `Decodes`, `DecodeRequest` and
`AnswerRequest` for the function of the same name, `Received` for the buffer that
a datagram fills from its start, `SetSdkConnection` for the connection port,
`DiscoveryMessage` and `Announced` for `discovery.cpp`. `Protocol` has the two
checksums as parameters, because its theorems need nothing of them; `Checksum`
defines them by the polynomials behind the two tables of `protocol.cpp`.
`WireChecks` puts both together and states, as named assumptions that
the runs of `MCCommandSession` evaluate:

| Assumption | Says |
|---|---|
| `TablesAreTheListedOnes`, `SumsStartWhereTheyShould` | the polynomials give the table's entries; the initial values are the code's |
| `HeaderErrorsAreNoticed` | no header with one or two wrong bits is accepted |
| `FramesAreRead` | round trip at the lengths where a byte carries and at the longest |
| `AnswersFindTheirWay`, `ConnectionIsAnswered` | addresses swapped, number kept, acknowledgement only if asked for; no answer without a handler |
| `PayloadErrorsAreNot` | the frame's own checksum is sent and never looked at: any bit behind the header may be wrong |
| `ShortFramesTakeOldBytes` | a datagram of four bytes is accepted, and read with the bytes of the one before |
| `DiscoveryIsRead`, `AnnouncementsKeepTheirRate` | layout and cipher of the announcement; as many as periods have passed |

### `Frontier`, `ColorDetector`, `DoorController` - what the other nodes compute

`Cells` has the neighbours of a raster and its connected components, the
reference that both image and grid are compared with.

| Code | Model |
|---|---|
| `compute_frontiers()`: the two scans, the stack, the centroid | `FrontierCells`, `Clusters` and `Flood`, `Centroid`; the order in which Python's set yields seeds is a parameter |
| `_detect()`, `_clipped()`, `_mono()`, `_floor()` | `Detections` (a mask is a set of pixels), `Clipped`, `Mono`, `Floor`, in exact fractions |
| `_on_image()`, `_publish_*()`, `_poses` and the latched topics | `OnImage`, `PublishCube`, `PublishLandmark`, `PublishMap`; what TF answers is an input |
| `DoorController` | `Started`, `tick`, `open_door`, `close_door` on the door and the node; a simulator call may raise before or after it moved the door, and the node ends |

The functions keep their state in their argument. `SceneChecks` states about
them, as assumptions that the runs of `MCNavClient` evaluate:

| Assumption | Says |
|---|---|
| `ClustersAreComponents` | on every grid of two by four inner cells, each connected cluster is found once and whole, from any seed |
| `CentroidsAreInTheirClusters`, `CentroidMayBeUnknown` | one centroid per large cluster, inside its box; but it may be an unknown cell, which `explore` then sends to Nav2 |
| `CutRectanglesAreClipped`, `ThinTouchPasses` | an upright rectangle that the image's edge may have cut is skipped. The test measures from the centroid: a blob that touches the edge with a thin part passes, though the comment (`color_detector_node.py:165`) speaks of blobs that touch the edge |
| `CutLooksFarther` | why that matters for the monocular depth |
| `DetectionsAreTheLargest`, `FloorIsFound` | a largest blob or none; a pixel of the floor is located where it is |
| `MarkersFollowWholeSightings` | over every history of three frames: the latched pose is that of the last whole sighting, the marker is never farther from it than the redraw distance, and the live stream goes on while the cube is cut off |
| `LatchedDoorsStayOpen` | over every history of four ticks, failures and new starts, a latched door never rises |
| `DoorFollowsThePlate` | over five ticks without failures, `is_open` is where the door stands and what the last answer (or, latched, any answer) says |
| `OpenDoorIsRelearnt`, `OpenDoorOutlivesItsNode` | a node that starts on an open door takes it for closed: the door never comes back, and the next press pushes it down again; so does a node that dies half-way |

### The proof modules

`NavClientProofs`, `ExplorerMissionProofs`, `RobotBodyProofs` (with those of
`RobotActions`), `CommandSessionProofs`, `DriverSessionProofs` (with those of
`DriverActions`), `RosInterfaceProofs`, `PluginRobotsProofs` and `ProtocolProofs`
hold the theorems of section 4. The
`MC` modules give the constants their small values, and two of them bring in
the checks of pure functions.

## 3. The runs

| Run | Configuration | States | Shows |
|---|---|---|---|
| `nav_client` | `NavClient.cfg` | 23 500 | With three goals that overlap in every way: an active client is owed an answer (`NoLostAnswer`), a goal whose handle it holds or that Nav2 drives to is one whose end it will hear (`GoalsInPlayAreHeard`), success is truthful while goals did not overlap (`SuccessIsTruthful`), a waiting caller is answered (`EventuallyAnswered`). |
| `mission_safety` | `MissionSafety.cfg` | 310 000 | The mission uses its client by the rules (`UsesNavClientProperly`), implements `MissionOrder` (`KeepsOrder`), and keeps `ServoingIsAlone`, `StandsWhileJawsMove`, `HiddenWhileCarried`, `CarriesInClosedJaws`. |
| `mission_liveness` | `MissionLive.cfg` | 306 000 | A gripper script that never reports does not stop the mission (`PickupNeverStalls`, `DropCompletes`); a lunge ends (`LungeEnds`). |
| `robot_actions` | `RobotActions.cfg` | 10 800 | An accepted request is owed exactly one final push, for as long as its action has the slot (`OneFinalPush`); a watched action is never silent for its period (`NeverSilent`); polls see an action start, run and end (`ObservedLifecycle`); sounds and servo moves end whatever the physics does (`TimedActionsEnd`). |
| `command_session` | `CommandSession.cfg` | 223 000 | Nobody is connected longer than the limit without a heartbeat (`WatchdogBites`); whoever vanishes from a session is pushed to no longer (`VanishedClientIsDropped`); a topic keeps its rate to within one push (`RateIsKept`); camera and streamer are switched together, and UDP never sends without an encoder (`StreamerIsSound`); no frame reaches an encoder for another size (`FramesFitEncoder`). |
| `robot_body` | `RobotBody.cfg` | 474 000 | What was asked of disengaged wheels is never driven (`StandbyOrdersAreDropped`); the gimbal's target keeps its frame (`TargetKeepsItsFrame`), and its action succeeds where it was to aim, but for the last step's turn of the chassis (`GimbalMoveReaches`); the gripper is told all of a command (`GripperIsToldAll`); bulbs outside a mask keep their light (`OtherBulbsKeepTheirLight`). |
| `driver` | `DriverSession.cfg` | 351 000 | A goal alone on its server succeeds only on the robot's word, or as a PAUSE that nothing was heard of (`SuccessIsTheRobots`); every goal is answered that somebody is left to answer (`GoalsAreAnswered`); a connection is closed only after the actions that `abort()` found (`ClosedAfterAborted`); a robot that is gone is noticed (`LossIsNoticed`); Ctrl-C ends the driver (`InterruptEnds`) and no connection follows it (`NoNodeAfterInterrupt`). |
| `ros_interface` | `RosInterface.cfg` | 702 000 | The handle tables implement `HandleTable` (`TablesAreSound`); a frame of the stack keeps its proxy unless a script shuts it down (`StackKeepsItsProxies`); a goal that a script was told of is found by later commands (`ToldGoalsAreFound`); who waits for a server of its own node is answered (`OwnAnswersCome`). |
| `plugin_robots` | `PluginRobots.cfg` | 41 300 | Orders reach the model they are given to, as long as no create command failed half-way (`OrdersReachTheirModel`); a network thread has its robot (`ServedRobotsExist`); the simulation ends (`TeardownEnds`). |
| `stale_goal` | `StaleGoal.cfg` | violation | Finding 1 below. |
| `stale_success` | `StaleSuccess.cfg` | violation | Finding 2. |
| `leftover_detector` | `LeftoverDetector.cfg` | violation | Finding 3. |

**Bounds.** `nav_client` has three goal identifiers: one goal in flight, one that
runs and one whose cancel is still on its way can exist at once, and identifiers
are recycled. It asks for one pose, because the client never looks at it. The
mission runs have two identifiers: the goal of the state just left and that of
the state entered; a third only repeats what `nav_client` explores, and the
mission's own properties are proved for any number. `GripperTimeout = 1` separates "before" from
"after" the timeout; `CubeLiveTimeout = 0` makes a detection stale at the next
clock step (a longer life only delays the steps that follow); `MaxLunge = 1` has
lunges of no length and of some; `BackupDist = 1` has a backup that needs odometry.
`mission_liveness` sees the cube only near (`Views = {"near"}`): turning and
approaching do not lead to new stages.

`robot_actions` has one action that only its distance ends (the arm stands for
the base as well), a servo, a sound, and a kind whose hardware is missing. The
period 3 is no multiple of the step 2, so that deadlines drift; a servo's limit
of 3 and a sound of 3 both end between steps, and `MaxPlays = 1` has sounds that
are played once and not at all. One action id, because no code compares ids.

`command_session` has a time step of 4, between its periods 3 and 5: one topic is
pushed more than once in some steps, the other not in all, and neither period
divides the step. The watchdog's limit of 6 lets a client live for one step and
not for two. One key suffices, because topics do not touch each other; the lists
of uids have a known uid first, after an unknown one, and not at all. Two sizes
of frame, and two pending accepts: one that is answered after `stop()` and one of
the stream started since. The masks have two detectors, a mask that is no
detector, and one whose low byte is.

`robot_body` commands one group of parts in a behaviour (`Uses`): wheels with
the gripper, gimbal, servos, LEDs. The groups share nothing but the order of the step;
the clash of a servo's action with the arm's is within one group. Two bulbs (one in
the mask, one outside), one colour, two powers, one motor of the arm and the yaw
servo; headings and angles from 0 to 1 let the chassis turn under a gimbal that
stands at its limit. The proofs are for any number of each.

`driver` has one module at a time (`MCLoads` lists the combinations): two connections
without goals, with a loss and an interrupt; one goal on one connection, with both; and
two goals of one module, with an interrupt for the module that has a lock and for one
without. Two goals and a loss at once are left out (the gripper's alone has 278 000
states; `abort()`, which two executions can delay, is the handler's too). The chassis has
two goals and no load with one: what a loss or an interrupt does to it, it does to the arm,
which differs by its time limit and by reading its own action instead of `self.action`
(for a goal alone, the same). What `SuccessIsTheRobots`, `ClosedAfterAborted` and
`NoNodeAfterInterrupt` say of larger loads, and of several modules at once, is in the
proofs, which are for any load.
The speaker, which only differs
from the chassis by its name, is in the proofs and not in the run.

`ros_interface` has two scripts and three handles: a service, action server, publisher
or image subscription; a client, action client or image publisher; and a subscription whose
callback may come between a request and its answer (`MayBe`). Either script may make
each, so a client meets a server of its own and of the other script. One goal meets
everything that can happen to a goal; goals only meet through the thread. A stack
deeper than the code's does not exist. The proofs are for any scripts, goals and handles.

`plugin_robots` has a model with everything, one without a gimbal and one whose
gimbal LEDs are missing, and two robots: one robot of the same model and of another at
each handle, after a failure too. The proofs are for any scene.

The assumptions of `WireChecks` and `SceneChecks` name their bounds: the lengths
about a carry and the longest, all grids of eight inner cells with three kinds of
edge, all histories of three frames and of four or five ticks. A cluster that
winds or a history that is longer repeats what these contain.

**Symmetry** of the two goal identifiers is used in runs without liveness only.

**Deadlock** is checked in `nav_client`, `robot_actions`, `robot_body` and `plugin_robots`. `ros_interface`
says `CHECK_DEADLOCK FALSE` because the simulator may close, crash or hang. The mission runs say
`CHECK_DEADLOCK FALSE`: a node that was ended stops for good. So does `driver`, whose `main()` returns,
and so do the runs of `CommandSession`: over TCP a client that connects after `stop()` makes the
streamer send without an encoder, and the process ends. `StreamerIsSound` is
therefore about both transports but for its last part, which is about UDP.

**Fairness.** `FairNavSpec`: the executor runs the client's callbacks, and Nav2
answers each request and ends each goal (its behaviour tree bounds its
recoveries). The caller owes nothing. `FairSpec`: the timer of the node keeps
firing (weakly fair ticks where a handler can make progress), time passes, wheels
that are told to turn turn, Nav2 ends its goals. `DropReleases` needs an odometry
pose, so its fairness says that odometry is there again and again. The simulation of `robot_actions` keeps stepping
(`WF_vars(Step)`), and so does that of `command_session` as long as it runs
(`WF_vars(alive /\ Step)`): the server's loop never stops. In `driver` the main thread
and the executor's threads run (`MainThread`, `Down`, `HeartbeatCheck`, `Works`), the executor
gets to each task for as long as it is spun and no longer (`Begins`), and
an action of the robot does not go on for ever: it ends, or its pushes stop
(`Finishes`). The timer expires only for a robot that is gone. `InterruptEnds` leaves
out an interrupt that lands in the main loop's own `abort()`: the handler's
`spin_once()` may start an action whose execution fails at the shutdown and leaves
`self.action` set, for which the interrupted `abort()` then waits.
`RosFairness`: the scripts' callbacks return, and so does a command that has its answer; what
a command waits for, and is ready again and again, is dispatched, because rclcpp's
executor hands out all that is ready before it waits again (`SF`: other callbacks may come
first). No answer from outside the node is promised. `RobotsFairness`: the simulator's thread goes on with
the teardown, and a request that a network thread has begun ends. Nothing is
assumed of the gripper script, the camera, the map or the order of Nav2's
answers. Therefore nothing says that the mission as a whole completes: exploring
may stay without frontiers or landmarks, and the camera may never see the cube.

### Findings

1. *A goal can outlive its state* (`LeftGoalsAreCancelled`). `_transition()` wants
   to "cancel any running Nav2 goal so it can't fire after we've moved on"
   (`explorer_node.py:420`). `cancel()` needs the goal's handle
   (`nav_client.py:55`); a goal whose response has not come yet has none. Nav2
   accepts it later and drives in the wrong state.
2. *Somebody else's success* (`ActsOnceItSucceeds`). `_on_nav_result()` does not
   know its goal (`nav_client.py:71`). A frontier goal that succeeds while the
   mission changes to `go_to_key` counts as arrival at the key.
   The same late result clears `_active` of the new goal (`nav_client.py:73`): the
   next tick sends another over the one that runs.
3. *A detector left on* (`DetectsWhatIsAsked`). The mask of a vision request is
   documented as "set to 0 to disable vision, to 2 (1<<1) to detect people, or to
   128 (1 << 7) to detect robots" (`lua_api.md:704`). `set_enable()` returns when
   a detector is on (`vision.hpp:98`), and neither `unconnect()` nor
   `set_enable_sdk(false)` turns it off. The request of the next client for
   another detector is answered with success and ignored.

Seen while modelling, and not a run of its own: "no recent detection: wait, don't
guess" (`explorer_node.py:347`) returns without `stop()`, so the last velocity stands
and the robot turns blindly; and after a create command that threw, two scripts
drive one model (see `PluginRobots`).

## 4. The proofs

For all sets of goals and places, all timeouts and all distances:

* `NavClientProofs` proves that `NavInv` is an inductive invariant of `NavSpec`.
  It is the conjunction of the type invariant, `NoLostAnswer`, `HandleIsLive`,
  `ExecutingIsOutstanding` (together `GoalsInPlayAreHeard`), `SuccessIsTruthful` and
  two strengthenings. The
  invariants alone are not inductive: `NoGoalTwice` says that an outstanding goal
  is outstanding once (in flight or awaited, at one place), without which handling
  one response could forget another; `OnlyLatest` says that as long as no send
  overlapped, only the latest goal can be outstanding, without which an older
  goal's result would be taken for the latest's. Theorems `NavTypesHold`,
  `NoAnswerIsLost`, `NobodyDrivesUnheard`, `SuccessMeansArrival` follow.
* `ExplorerMissionProofs` first proves that the mission is a proper caller
  (`MissionIsNavCaller`: every step of the mission is a step of `NavSpec` or
  leaves the client alone). By that, `NavInv` holds of the mission too and need
  not be proved again. `MissionInv` then adds the mission's own facts:
  `ServoingIsAlone`, `StandsWhileJawsMove`, `HiddenWhileCarried`,
  `CarriesInClosedJaws` and the strengthening `ClosingIsCommanded` (while the
  closing is waited for, the jaws were told to close), which makes the last one
  inductive. Theorems `MissionTypesHold`, `ServoingHasTheWheels`,
  `JawsMoveStanding`, `CarriedCubeIsHidden`, `CubeIsHeld`.
* `MissionKeepsOrder`: the mission implements `MissionOrder`, every step mapping
  to a step of it or to a stutter.

* `RobotBodyProofs` first proves, of `RobotActions`, that `RobotInv` is an inductive invariant of every
  robot: the type invariant, `OneFinalPush`, and two strengthenings. `Quietness`
  says that the time since the last push and the time until the next add up to
  a period at most; `NeverSilent` alone says nothing about the deadline, so a
  step could break it. `StartsDue` says that an action that has not been stepped
  is due, which starts `Quietness`. `Quietness` needs no relation between step
  and period. Theorems `RobotTypesHold`, `FinalPushesAreOnce`,
  `WatchedActionsSpeak`, and the action property `PollsSeeLifecycle`.

* `CommandSessionProofs` proves `SessionInv` for every set of topics, every
  frequency, limit and time step. `RateIsKept` is not inductive: `LagIsDeadline`
  says that a topic's deadline is exactly what its history says it owes, so that
  a step keeps both; `LoopCatchesUp` is the arithmetic of `Topic::do_step()`'s
  loop (it ends with the deadline between zero and a period ahead).
  `StreamerIsSound` needs `UdpAcceptsNobody`: no accept is pending over UDP, or a
  late client would set `active`. Theorems `SessionTypesHold`,
  `WatchdogAlwaysBites`, `RatesAreKept`, `StreamersAreSound`, and the action
  property `FramesAlwaysFit`.

* It then shows that every step of the body is a step of `RobotActions`
  or leaves the actions alone (`BodyImplementsActions`), which carries `RobotInv`
  over (`BodyIsNeverSilent`). Four invariants follow, one per part. `GripInv` adds
  to `GripperIsToldAll` what one step after a command has told: the state, and the
  power a step later. `WheelInv` says that wheels in standby are disengaged.
  `LedInv` ties what the simulator shows to the LED: outside the touched bulbs a
  static effect shows the LED's own colours, a dynamic effect touches every bulb, an
  inactive static one touches none. `MotionInv` is the gimbal's: its types
  (`GimbalType`, `JointType`), the frame of the target (`FrameInv`), and that the
  target of a running action is its aim unless that was lost (`AimInv`); without
  the last, a step could reach a target that is not the aim. The heading of the step
  before is a variable, so that the aim and the distance are measured alike. Theorems
  `BodyTypes`, `GripperHearsAll`, `StandbyIsDropped`, `OtherBulbsKeep`,
  `TargetsKeepTheirFrame`, `GimbalMovesReach`, for all angles, rates, headings,
  bulbs and motors.
* `DriverSessionProofs` starts with the facts about goals that need no session, and uses
  them for every set of goals, modules and connections in the inductive invariant
  `SessionInv`. `NoFalseSuccess` rests on `Told`: what reads as a success was said by
  the robot, or is the PAUSE that nobody filled in; and on `Own`: a lone goal reads its
  own action. `NothingLeftBehind` rests on `Awaited`: an action that `abort()` found and
  that has not ended is one that the main loop or the handler has still to wait for.
  `NoNewNode` needs `Control`: after an interrupt either `should_reconnect` is still
  cleared or the context will be shut down before the loop looks. With `TypesHold` these
  are the four theorems.
* `RosInterfaceProofs` proves `RosInv` for any scripts, goals and handles (TLC checked it
  on the run first). Nearly all of the forty-odd actions leave the handle tables alone; each of
  these is shown to be a step of `Proceeds`, which says what the stack and the goals may do
  then (`CallStep`, `SpinStep`, `DispatchStep`, `CallbackStep`, `GoalsStep`, `HandlesStep`), and one
  lemma takes the invariant through `Proceeds`. The four that change the tables
  (`ScriptStarts`, `ScriptEnds`, `Create`, `Shutdown`) have a lemma each. The
  strengthenings: `ScriptsInv`, owners and the running script live, so the end of a script
  cannot take a proxy of a script on the stack; `StackInv`, frames know the owner of
  their proxy, which ties `StackKeepsItsProxies` to `ScriptEnds`; `IssuedInv`, nothing
  names a handle that is still to be given out, or a new proxy could take an old one's
  place; `AboutInv` and `ToldInv`, a callback's goal is the server's own, without which
  `GoalAccepted` could store the handle at the wrong server. Theorems `RosTypesHold`,
  `FramesKeepTheirProxies`, `ToldGoalsStay`. `TablesAreAHandleTable` is the refinement:
  every step maps to one of `HandleTable` or to a stutter.
* `PluginRobotsProofs` proves `PluginInv` for every scene and any number of robots:
  types, `ServedRobotsExist`, and, as long as nothing is `spoiled`, `Agrees`. The latter says what
  the tables owe each other: robot, remote API and the script's handle are of one model, a
  robot was told by nobody but that model, and all handles are below the next.
  `OrdersReachTheirModel` alone is not inductive: nothing in it says whose orders a robot
  holds. Theorems `PluginTypesHold`, `OrdersReachModels`, `ThreadsHaveTheirRobots`.
* `ProtocolProofs`: `FrameLayout` says where each byte of a frame stands, from which
  `FramesAreRead` and `AnswersFindTheAsker` follow for every payload of up to 1010
  bytes, every older content of the buffer and every handler. They assume of the
  checksums only that they are a byte and a word (`ChecksumsAreBytes`).

Assumptions: `NoneAssumption` (`None` is not a goal or a place) and
`MissionAssumption` (the three places, the three views, and natural bounds), `RobotAssumption` (the
five kinds, positive periods and time step, natural durations) and
`SlotAssumption` (`None` is not an action), `VideoAssumption` (`None` is not a size
of a frame) and `SessionAssumption` (positive periods and time step, a natural
limit, masks that are numbers), `LedAssumption` (`None` is no colour, positive phases),
`BodyAssumption` (the yaw servo is not a motor of the arm, rates of at most one
unit, zero among velocities and headings, `None` is no goal of a servo),
`DriverAssumption` and the session's (known kinds of modules, `None` is neither goal
nor module, loads within the bounds), `RosAssumption` and `NothingAssumption` (`None` is no
script, goal, handle, proxy or frame, `"null"` is no goal, `MayBe` allows known kinds), and
`RobotsAssumption` and `NobodyAssumption` (`None` is no model, number, robot or remote API,
models have known parts).

Only model-checked: the liveness properties (`EventuallyAnswered`,
`PickupNeverStalls`, `DropCompletes`, `LungeEnds`, `TimedActionsEnd`,
`VanishedClientIsDropped`, `InterruptEnds`, `LossIsNoticed`, `GoalsAreAnswered`,
`OwnAnswersCome`, `TeardownEnds`), since arguments from fairness
are out of the prover's reach, the violations, and the assumptions of
`WireChecks` and `SceneChecks`: the flood fill and the checksums are recursions
over data.

## 5. Not modelled, and the plan

Not modelled, and why:

* the threshold in HSV space, the lidar script, the scene builder and the launch
  files: sensor geometry and configuration without a state of their own;
* kinematics of chassis, arm and gimbal, odometry and the IMU: continuous, and no
  control depends on more than the models' free physics;
* the byte layout of each payload, and the answers and topics that only report
  constants or values: data without a decision;
* FFmpeg, the driver's sensor streams, and glue to the simulator's C API;
* of simExtROS2: publishing, transforms, feedback, questions about a goal's state,
  options of proxies and the conversion of messages, which change none of its tables;
* data races between the simulator's thread and the network thread in the plugin:
  a race inside a `std::map` has no finite list of outcomes, so handlers and steps
  are atomic and only their orders are explored.

What would come next:

1. `DriverSession` over `CommandSession`: two watchdogs on one link, and two clients
   on one port, where pushes go to the last sender.
2. The door beside the cube of `ExplorerMission`: the cube that passes over the
   plate while it is carried.
3. A second interrupt, and one during `stop()` or the pause of the reconnect loop.
4. `PluginRobots` over `RobotBody`, so that the commands of scripts and network are
   those of one body.
5. The colour detector's history as a module with a run, and a proof that its latched
   pose is that of a whole sighting.
6. The microphones, blaster and sensor topics of the command port.
