--------------------------- MODULE CommandSession ---------------------------
(***************************************************************************)
(* command.cpp and topic.cpp: the command port of the simulated robot, and *)
(* the session of the client that uses it.                                 *)
(*                                                                         *)
(* A client subscribes to topics and events, asks for detections and for   *)
(* video, and sends heartbeats; the port pushes to it in every step.  A    *)
(* client that was silent for too long is disconnected, which is meant to  *)
(* end everything it asked for.                                            *)
(*                                                                         *)
(* Messages and steps are atomic: in the stand-alone server (test.cpp)     *)
(* both run on one thread.  One client speaks at a time; it may vanish     *)
(* without a word, and another may come.  What is pushed is left out, but  *)
(* for when.                                                               *)
(***************************************************************************)
EXTENDS VideoStreamer, Sequences

CONSTANTS
  Keys,          (* node and message id of a subscription                  *)
  Subjects,      (* uids of registered subjects                            *)
  UidLists,      (* sub_uid_list of a request                              *)
  Periods,       (* 1 / sub_freq, in time units                            *)
  StepLen,       (* the simulation's time step                             *)
  MaxDelay,      (* MAX_HEARTBEAT_DELAY                                    *)
  EnabledEvents, (* the hit events the port was created with               *)
  Masks          (* masks of a request for detections                      *)

ASSUME SessionAssumption ==
  /\ Periods \subseteq Nat \ {0}
  /\ StepLen \in Nat \ {0}
  /\ MaxDelay \in Nat
  /\ EnabledEvents \subseteq {"armor", "ir"}
  /\ Masks \subseteq Nat

VARIABLES
  connected,     (* connected                                              *)
  silence,       (* _time - last_heartbeat, while connected                *)
  publishers,    (* per key the subject it publishes, its period and       *)
                 (* deadline, or None                                      *)
  events,        (* the hit events that exist                              *)
  visionEvent,   (* the mask of vision_event, or None                      *)
  detector,      (* vision.enabled                                         *)
  gone,          (* the client has vanished                                *)
  lag            (* history: per key the time it was subscribed for, less  *)
                 (* a period for each push                                 *)

sessionVars ==
  <<connected, silence, publishers, events, visionEvent, detector, gone, lag>>

vars == <<sessionVars, videoVars>>

(* What Vision::set_enable() accepts, but for zero.                        *)
Detectors == {2, 4, 8, 16, 32, 128}

NoTopic == [subject |-> None, period |-> 0, deadline |-> 0]

Subscribed(k) == publishers[k] # NoTopic

(* The deadline of a topic is at most a period ahead.                      *)
SessionTypeOK ==
  /\ VideoTypeOK
  /\ connected \in BOOLEAN
  /\ silence \in Nat
  /\ publishers \in
       [Keys -> [subject : Subjects \cup {None}, period : Nat, deadline : Nat]]
  /\ \A k \in Keys :
       Subscribed(k) =>
         /\ publishers[k].subject \in Subjects
         /\ publishers[k].period \in Periods
         /\ publishers[k].deadline <= publishers[k].period
  /\ events \subseteq EnabledEvents
  /\ visionEvent \in Masks \cup {0, None}
  /\ detector \in Detectors \cup {0}
  /\ gone \in BOOLEAN
  /\ lag \in [Keys -> Int]

Init ==
  /\ VideoInit
  /\ connected = FALSE
  /\ silence = 0
  /\ publishers = [k \in Keys |-> NoTopic]
  /\ events = {}
  /\ visionEvent = None
  /\ detector = 0
  /\ gone = FALSE
  /\ lag = [k \in Keys |-> 0]

----------------------------------------------------------------------------
(* The end of a session. *)

(* Mutant of Dropped: the publishers stay.                                 *)
DroppedKeepsTopics ==
  /\ connected' = FALSE
  /\ silence' = 0
  /\ events' = {}
  /\ visionEvent' = None
  /\ UNCHANGED <<publishers, lag>>

(* What unconnect() does to the session; the robot's detector stays on.    *)
Dropped ==
  /\ connected' = FALSE
  /\ silence' = 0
  /\ events' = {}
  /\ visionEvent' = None
  /\ publishers' = [k \in Keys |-> NoTopic]
  /\ lag' = [k \in Keys |-> 0]

----------------------------------------------------------------------------
(* Messages of the client. *)

(* SubscribeAddNode: add_subscriber_node() *)
AddSubscriberNode ==
  /\ connected' = TRUE
  /\ silence' = 0
  /\ events' = EnabledEvents
  /\ UNCHANGED <<publishers, visionEvent, detector, lag>>
  /\ UNCHANGED videoVars

(* SdkHeartBeat: got_heartbeat(), which connects nobody.                   *)
GotHeartbeat ==
  /\ silence' = 0
  /\ UNCHANGED <<connected, publishers, events, visionEvent, detector, lag>>
  /\ UNCHANGED videoVars

(* SubNodeReset: reset_subscriber_node() and unconnect()                   *)
ResetSubscriberNode ==
  /\ Dropped
  /\ StopStream
  /\ UNCHANGED detector

(* SetSdkMode with 0: the session stays connected and the video on.        *)
DisableSdk ==
  /\ events' = {}
  /\ visionEvent' = None
  /\ publishers' = [k \in Keys |-> NoTopic]
  /\ lag' = [k \in Keys |-> 0]
  /\ UNCHANGED <<connected, silence, detector>>
  /\ UNCHANGED videoVars

(* create_publisher() for the first uid it knows: a topic that exists is   *)
(* not replaced, only started again.                                       *)
Started(k, uid, p) ==
  IF Subscribed(k) THEN [publishers[k] EXCEPT !.deadline = 0]
                   ELSE [subject |-> uid, period |-> p, deadline |-> 0]

(* AddSubMsg: later uids of the list find the topic of the first one;      *)
(* without a uid it knows, create_publisher() only warns.                  *)
AddSubMsg(k, uids, p) ==
  /\ \E i \in DOMAIN uids :
       /\ uids[i] \in Subjects
       /\ \A j \in 1 .. i - 1 : uids[j] \notin Subjects
       /\ publishers' = [publishers EXCEPT ![k] = Started(k, uids[i], p)]
  /\ lag' = [lag EXCEPT ![k] = 0]
  /\ UNCHANGED <<connected, silence, events, visionEvent, detector>>
  /\ UNCHANGED videoVars

(* DelMsg: stop_publisher() *)
DelMsg(k) ==
  /\ publishers' = [publishers EXCEPT ![k] = NoTopic]
  /\ lag' = [lag EXCEPT ![k] = 0]
  /\ UNCHANGED <<connected, silence, events, visionEvent, detector>>
  /\ UNCHANGED videoVars

(* Vision::set_enable() of the low byte: one detector at a time, and the   *)
(* one that is on stays on until all are turned off.                       *)
SetEnable(value) ==
  IF (value # 0 /\ detector # 0) \/ value \notin Detectors \cup {0}
    THEN detector ELSE value

(* VisionDetectEnable: Vision::set_enable() and set_vision_request()       *)
VisionDetectEnable(mask) ==
  /\ detector' = SetEnable(mask % 256)
  /\ visionEvent' = mask
  /\ UNCHANGED <<connected, silence, publishers, events, lag>>
  /\ UNCHANGED videoVars

(* StreamCtrl, and a client that connects to the TCP streamer.             *)
StreamCtrl ==
  /\ \/ \E r \in Resolutions : StartStream(r)
     \/ StopStream
     \/ OnAccept
  /\ UNCHANGED <<connected, silence, publishers, events, visionEvent,
                 detector, lag>>

Message ==
  \/ AddSubscriberNode
  \/ GotHeartbeat
  \/ ResetSubscriberNode
  \/ DisableSdk
  \/ \E k \in Keys, uids \in UidLists, p \in Periods : AddSubMsg(k, uids, p)
  \/ \E k \in Keys : DelMsg(k)
  \/ \E mask \in Masks \cup {0} : VisionDetectEnable(mask)
  \/ StreamCtrl

Speaks == ~gone /\ Message /\ UNCHANGED gone

(* The client vanishes, or one is there again.                             *)
ComesOrGoes ==
  /\ gone' = ~gone
  /\ UNCHANGED <<connected, silence, publishers, events, visionEvent,
                 detector, lag>>
  /\ UNCHANGED videoVars

----------------------------------------------------------------------------
(* Steps. *)

(* Topic::do_step() publishes until the deadline is ahead again.           *)
Pushes(t) ==
  IF t.deadline - StepLen > 0 THEN 0
                              ELSE 1 + (StepLen - t.deadline) \div t.period

(* Mutant of Advanced: the deadline is set anew by a push, not moved on.   *)
AdvancedAnew(t) ==
  [t EXCEPT !.deadline = IF Pushes(t) > 0 THEN t.period ELSE @ - StepLen]

Advanced(t) ==
  [t EXCEPT !.deadline = @ - StepLen + Pushes(t) * t.period]

(* Mutant of Loses: the delay is looked at before the step is counted.     *)
LosesLate == connected /\ silence > MaxDelay

(* The watchdog at the end of do_step().                                   *)
Loses == connected /\ silence + StepLen > MaxDelay

(* Robot::do_step() and its callbacks: the camera, the commands, the video.*)
Step ==
  /\ VideoStep(Loses)
  /\ \/ Loses /\ Dropped
     \/ /\ ~Loses
        /\ silence' = IF connected THEN silence + StepLen ELSE 0
        /\ publishers' = [k \in Keys |->
             IF Subscribed(k) THEN Advanced(publishers[k]) ELSE NoTopic]
        /\ lag' = [k \in Keys |->
             IF Subscribed(k)
               THEN lag[k] + StepLen
                      - Pushes(publishers[k]) * publishers[k].period
               ELSE 0]
        /\ UNCHANGED <<connected, events, visionEvent>>
  /\ UNCHANGED <<detector, gone>>

Next == alive /\ (Speaks \/ ComesOrGoes \/ Step)

Spec == Init /\ [][Next]_vars

(* The server keeps stepping as long as it runs. *)
FairSpec == Spec /\ WF_vars(alive /\ Step)

----------------------------------------------------------------------------
(* Nobody stays connected for longer than MAX_HEARTBEAT_DELAY after its    *)
(* last heartbeat, whatever else it sends (command.cpp:182).               *)
WatchdogBites == connected => silence <= MaxDelay

(* A topic that was subscribed for some time has been pushed as often as   *)
(* its frequency promises, to within one push: nothing is lost when a step *)
(* is longer than a period, and the deadline does not drift                *)
(* (topic.cpp:6-17).                                                       *)
RateIsKept ==
  \A k \in Keys :
    Subscribed(k) => lag[k] <= 0 /\ -publishers[k].period <= lag[k]

(* The camera and the streamer are switched together, on every way a       *)
(* session starts, fails to start, changes or ends its video; by UDP the   *)
(* server never sends without an encoder (streamer.cpp:58-86,              *)
(* robot.cpp:244-264, command_messages.hpp:926-951).                       *)
StreamerIsSound ==
  /\ streaming <=> encoder # None
  /\ encoder # None => encoder = size
  /\ transport = "udp" => alive /\ (active <=> streaming)

(* The encoder never reads a frame of another size than it was made for:   *)
(* the resolution may change while an older frame is still there           *)
(* (streamer.cpp:58, encoder.cpp:91).                                      *)
FramesFitEncoder ==
  [][Step /\ active' /\ encoder' # None => image' \in {encoder, None}]_vars

(* Nothing of a session is left to be pushed.                              *)
Silent ==
  /\ \A k \in Keys : ~Subscribed(k)
  /\ events = {} /\ visionEvent = None
  /\ transport = "udp" => ~active

(* A client that vanishes from its session is pushed to no longer: the     *)
(* watchdog ends all it asked for, unless it comes back                    *)
(* (command.cpp:181-201).                                                  *)
VanishedClientIsDropped ==
  (connected /\ gone) ~> (Silent \/ ~gone \/ ~alive)

(* Whoever asks for detections while nobody else receives any gets the     *)
(* detections asked for (lua_api.md:704, vision.hpp:95).                   *)
DetectsWhatIsAsked ==
  [][\A mask \in Masks \cap Detectors :
       visionEvent = None /\ visionEvent' = mask => detector' = mask]_vars

=============================================================================
