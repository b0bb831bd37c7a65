---------------------------- MODULE RobotActions ----------------------------
(***************************************************************************)
(* robot.cpp, robot/action.cpp and action.hpp: the long-running actions of *)
(* the simulated robot, from the request that starts one to the last push  *)
(* message about it.                                                       *)
(*                                                                         *)
(* There is a slot per kind of action.  A request that finds its slot      *)
(* taken, or its hardware missing, is rejected.  Every simulation step     *)
(* advances the actions, lets those a network client asked for publish     *)
(* their state, and clears the slots of the finished ones.                 *)
(*                                                                         *)
(* Requests and steps are atomic: in the stand-alone server (test.cpp)     *)
(* both run on one thread.  Where the arm, the servo, the gimbal and the   *)
(* base get to is physics: an action that waits for a distance to vanish   *)
(* may find it vanished in any step, or never.  No code assigns the state  *)
(* "failed".                                                               *)
(***************************************************************************)
EXTENDS Integers

CONSTANTS
  Kinds,       (* keys of Robot::actions                                   *)
  Available,   (* the kinds this robot has the hardware for                *)
  Ids,         (* action_id of a request                                   *)
  Periods,     (* 1 / push_freq(freq), in time units                       *)
  StepLen,     (* the simulation's time step                               *)
  SoundLen,    (* PlaySoundAction::duration                                *)
  MaxPlays,    (* the largest play_times                                   *)
  ServoLimit,  (* MoveServoAction::MAX_DURATION                            *)
  None         (* an empty slot; the id of an action nobody asked for over *)
               (* the network                                              *)

ASSUME RobotAssumption ==
  /\ Kinds \subseteq {"move", "move_arm", "move_gimbal", "move_servo",
                      "play_sound"}
  /\ Available \subseteq Kinds
  /\ None \notin Ids
  /\ Periods \subseteq Nat \ {0}
  /\ StepLen \in Nat \ {0}
  /\ SoundLen \in Nat
  /\ MaxPlays \in Nat
  /\ ServoLimit \in Nat

Actions == [id : Ids \cup {None}, state : {"started", "running"},
            deadline : Int, period : Periods,
            left : Int, plays : 0 .. MaxPlays]

ASSUME SlotAssumption == None \notin Actions

VARIABLES
  running,   (* actions: per kind the action in its slot, or None          *)
  previous,  (* previous_action_state                                      *)
  answer,    (* the last answer to a request                               *)
  pushed,    (* the push messages the last step sent                       *)
  quiet,     (* history: time since the last push about a watched action   *)
  owed       (* history: final pushes owed to clients                      *)

vars == <<running, previous, answer, pushed, quiet, owed>>

Empty(k) == running[k] = None

(* An action somebody receives pushes about. *)
Watched(k) == ~Empty(k) /\ running[k].id # None

RobotTypeOK ==
  /\ running \in [Kinds -> Actions \cup {None}]
  /\ previous \in [Kinds -> {"undefined", "succeed"}]
  /\ answer \in {"none", "accepted", "rejected"}
  /\ pushed \subseteq [kind : Kinds, id : Ids, state : {"running", "succeed"}]
  /\ quiet \in [Kinds -> Nat]
  /\ owed \in [Kinds -> Int]

Init ==
  /\ running = [k \in Kinds |-> None]
  /\ previous = [k \in Kinds |-> "undefined"]
  /\ answer = "none"
  /\ pushed = {}
  /\ quiet = [k \in Kinds |-> 0]
  /\ owed = [k \in Kinds |-> 0]

----------------------------------------------------------------------------
(* Requests. *)

(* How much longer the action runs by itself: a sound starts its first     *)
(* play at once, a servo gives up after its limit.                         *)
FirstLeft(k) == IF k = "move_servo" THEN ServoLimit ELSE 0

(* Only the request for a sound has a number of plays. *)
Plays(k) == IF k = "play_sound" THEN 0 .. MaxPlays ELSE {0}

NewAction(k, id, p, n) ==
  [id |-> id, state |-> "started", deadline |-> 0, period |-> p,
   left |-> FirstLeft(k), plays |-> n]

(* Mutant of Accepts: the slot is not looked at. *)
AcceptsOver(k) == k \in Available

Accepts(k) == k \in Available /\ Empty(k)

Accept(k, id, p, n) ==
  /\ Accepts(k)
  /\ running' = [running EXCEPT ![k] = NewAction(k, id, p, n)]
  /\ quiet' = [quiet EXCEPT ![k] = 0]
  /\ owed' = [owed EXCEPT ![k] = IF id = None THEN @ ELSE @ + 1]
  /\ answer' = "accepted"

(* A servo may also be missing although the robot has others.              *)
Reject(k) ==
  /\ ~Accepts(k) \/ k = "move_servo"
  /\ answer' = "rejected"
  /\ UNCHANGED <<running, quiet, owed>>

(* submit_action(), called for a network client or, without an id, for a   *)
(* script of the simulator.                                                *)
Submit(k, id, p, n) ==
  /\ Accept(k, id, p, n) \/ Reject(k)
  /\ pushed' = {}
  /\ UNCHANGED previous

(* A request to stop the action is answered and otherwise ignored; the     *)
(* answer's `accept` is never assigned, so it is whatever the memory held. *)
RequestStop ==
  /\ answer' \in {"accepted", "rejected"}
  /\ pushed' = {}
  /\ UNCHANGED <<running, previous, quiet, owed>>

----------------------------------------------------------------------------
(* Steps. *)

Done(a) == a.state = "succeed"

(* Move, MoveArm and MoveGimbal end when their distance has vanished. *)
Moved(a, arrives) ==
  [a EXCEPT !.state = IF arrives THEN "succeed" ELSE "running"]

(* Mutant of Turned: time_left is not counted down. *)
TurnedForever(a, arrives) ==
  [a EXCEPT !.state = IF arrives \/ a.left < 0 THEN "succeed" ELSE "running"]

(* MoveServo also ends when its time is up: time_left is looked at before  *)
(* it is counted down.                                                     *)
Turned(a, arrives) ==
  [a EXCEPT !.state = IF arrives \/ a.left < 0 THEN "succeed" ELSE "running",
            !.left = @ - StepLen]

(* PlaySound plays the sound play_times over. *)
Played(a) ==
  LET rest == a.left - StepLen
  IN  IF rest < 0 /\ a.plays > 0
        THEN [a EXCEPT !.state = "running", !.left = SoundLen, !.plays = @ - 1]
        ELSE [a EXCEPT !.state = IF rest < 0 THEN "succeed" ELSE "running",
                       !.left = rest]

Progress(k, a, arrives) ==
  IF k = "play_sound" THEN Played(a)
  ELSE IF k = "move_servo" THEN Turned(a, arrives)
  ELSE Moved(a, arrives)

(* Mutant of Due: the end of the action is pushed only when a push is due. *)
DueOnTime(a) == a.id # None /\ a.deadline - StepLen <= 0

(* ActionSDK::publish() sends when the action is done or its deadline is   *)
(* over.                                                                   *)
Due(a) == a.id # None /\ (Done(a) \/ a.deadline - StepLen <= 0)

(* Mutant of Rescheduled: the deadline is not moved back by the push that  *)
(* is forced at the end or due, but counted from a doubled period.         *)
RescheduledLate(a) ==
  [a EXCEPT !.deadline = @ - StepLen + IF Due(a) THEN 2 * a.period ELSE 0]

Rescheduled(a) ==
  IF a.id = None THEN a
  ELSE [a EXCEPT !.deadline = @ - StepLen + IF Due(a) THEN a.period ELSE 0]

(* Mutant of Recorded: previous_action_state is left alone. *)
RecordedNever(k, a) == previous[k]

Recorded(k, a) == IF Done(a) THEN a.state ELSE previous[k]

(* Robot::do_step(), the part about actions, when those in arriving find   *)
(* their distance vanished.                                                *)
StepWith(arriving) ==
  LET busy == {k \in Kinds : ~Empty(k)}
      after == [k \in busy |-> Progress(k, running[k], k \in arriving)]
      due == {k \in busy : Due(after[k])}
  IN  /\ running' = [k \in Kinds |->
                       IF k \in busy /\ ~Done(after[k])
                         THEN Rescheduled(after[k]) ELSE None]
      /\ previous' = [k \in Kinds |->
                        IF k \in busy THEN Recorded(k, after[k])
                                      ELSE previous[k]]
      /\ pushed' = {[kind |-> k, id |-> after[k].id,
                     state |-> after[k].state] : k \in due}
      /\ quiet' = [k \in Kinds |->
                     IF Watched(k) /\ k \notin due THEN quiet[k] + StepLen
                                                  ELSE 0]
      /\ owed' = [k \in Kinds |->
                    IF k \in due /\ Done(after[k]) THEN owed[k] - 1
                                                   ELSE owed[k]]
      /\ UNCHANGED answer

Step == \E arriving \in SUBSET {k \in Kinds : ~Empty(k)} : StepWith(arriving)

Next ==
  \/ \E k \in Kinds, id \in Ids \cup {None}, p \in Periods :
       \E n \in Plays(k) : Submit(k, id, p, n)
  \/ RequestStop
  \/ Step

Spec == Init /\ [][Next]_vars

(* The simulation keeps stepping. *)
FairSpec == Spec /\ WF_vars(Step)

----------------------------------------------------------------------------
(* Whoever got a request accepted over the network is owed one final push, *)
(* and is owed it for exactly as long as the action is in its slot:        *)
(* finished actions push once, at once, and rejected ones never            *)
(* (action.hpp:19-27, robot.cpp:165-175, 294-362).                         *)
OneFinalPush ==
  \A k \in Kinds : owed[k] = IF Watched(k) THEN 1 ELSE 0

(* The driver takes a silent action for a dead one (action.py:62), so a    *)
(* watched action that has been stepped is never silent for its period:    *)
(* the deadline drifts, but never beyond one period.                       *)
NeverSilent ==
  \A k \in Kinds :
    Watched(k) /\ running[k].state # "started" => quiet[k] < running[k].period

(* get_action_state() *)
ActionState(k) == IF Empty(k) THEN previous[k] ELSE running[k].state

(* A script that polls get_action_state() sees every action start, run and *)
(* end; between two polls it is never told that there never was one        *)
(* (robot.hpp:190-199, simRobomaster.lua:8-18).                            *)
ObservedLifecycle ==
  [][\A k \in Kinds :
       ActionState(k)' # ActionState(k) =>
         <<ActionState(k), ActionState(k)'>> \in
           {<<"undefined", "started">>, <<"succeed", "started">>,
            <<"started", "running">>, <<"started", "succeed">>,
            <<"running", "succeed">>}]_vars

(* Sounds and servo moves give their slot back whatever the physics does:  *)
(* both are bounded by a time of their own (action.cpp:73-85, 97, 107).    *)
TimedActionsEnd ==
  \A k \in Kinds \cap {"move_servo", "play_sound"} : ~Empty(k) ~> Empty(k)

=============================================================================
