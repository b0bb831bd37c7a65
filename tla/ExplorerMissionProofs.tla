----------------------- MODULE ExplorerMissionProofs -----------------------
(***************************************************************************)
(* What holds of the mission for every number of goal identifiers, every   *)
(* timeout and every distance.  The mission's client is shown to be a      *)
(* NavClient, so the theorems of NavClientProofs apply to it; the mission's *)
(* own invariant rests on them.                                            *)
(***************************************************************************)
EXTENDS ExplorerMission, NavClientProofs

(* In the state that waits for closed jaws, the jaws were told to close,   *)
(* unless the call that should have told them ended the node.              *)
ClosingIsCommanded == alive /\ mode = "pickup_close" => jawTarget = "closed"

(* The inductive invariant, on top of TypeOK and NavInv. *)
MissionInv ==
  /\ ServoingIsAlone
  /\ StandsWhileJawsMove
  /\ HiddenWhileCarried
  /\ ClosingIsCommanded
  /\ CarriesInClosedJaws

----------------------------------------------------------------------------
(* The mission's client is a NavClient. *)

LEMMA GoingIsCalling ==
  ASSUME NEW s, NEW p \in Places, TransitionAndGo(s, p)
  PROVE  NavNext
BY DEF TransitionAndGo, NavNext, Caller

LEMMA MissionStepIsNavStep == [Next]_vars => [NavNext]_navVars
<1> SUFFICES ASSUME [Next]_vars PROVE NavNext \/ UNCHANGED navVars
  OBVIOUS
<1>0. {"frontier", "key", "plate"} \subseteq Places
  BY MissionAssumption
<1>1. CASE Explore
  BY <1>0, <1>1, GoingIsCalling DEF Explore, NavNext, Caller
<1>2. CASE GoToKeyRetries \/ GoToPlateRetries
  BY <1>0, <1>2 DEF GoToKeyRetries, GoToPlateRetries, NavNext, Caller
<1>3. CASE GoToKeyArrives \/ GoToPlateArrives
  BY <1>3 DEF GoToKeyArrives, GoToPlateArrives, Transition, NavNext, Caller
<1>4. CASE PickupOpen \/ PickupEngages
  BY <1>4 DEF PickupOpen, PickupEngages, Transition, NavNext, Caller
<1>5. CASE PickupClose
  BY <1>0, <1>5, GoingIsCalling DEF PickupClose
<1>6. CASE DropAlign \/ DropReleases \/ DropBacksUp
  BY <1>6 DEF DropAlign, DropReleases, DropBacksUp, Transition, NavNext, Caller
<1>7. CASE Starts \/ PickupAlign \/ PickupLunges \/ DropWaits \/ Shutdown
  BY <1>7 DEF Starts, PickupAlign, PickupLunges, DropWaits, Shutdown
<1>8. CASE Message
  BY <1>8 DEF Message, OnMap, OnTarget, OnCubeLive, NavCallback, NavNext
<1>9. CASE World
  BY <1>9 DEF World, ClockAdvances, JawsMove, RobotMoves, NavDrives,
              NavServes, NavNext
<1>10. CASE UNCHANGED vars
  BY <1>10 DEF vars
<1>11. QED
  BY <1>1, <1>2, <1>3, <1>4, <1>5, <1>6, <1>7, <1>8, <1>9, <1>10
  DEF Next, Tick

(* The mission checks `active`, or cancels, before every send, so it is a  *)
(* caller NavClient was verified for (explorer_node.py:208-257, 419-446).  *)
THEOREM MissionIsNavCaller == Spec => UsesNavClientProperly
<1>1. Init => NavInit
  BY DEF Init
<1>2. QED
  BY <1>1, MissionStepIsNavStep, PTL DEF Spec, NavSpec, UsesNavClientProperly

LEMMA MissionKeepsNavInv == Spec => []NavInv
BY MissionIsNavCaller, NavInvHolds, PTL DEF UsesNavClientProperly

----------------------------------------------------------------------------
(* Types. *)

LEMMA TypeOKInit == Init => TypeOK
<1> SUFFICES ASSUME Init PROVE TypeOK
  OBVIOUS
<1>1. NavTypeOK
  BY NavInvInit DEF Init, NavInv
<1>2. /\ 0 \in 0 .. GripperTimeout
      /\ 0 \in 0 .. CubeLiveTimeout
      /\ 0 \in 0 .. MaxLunge
      /\ 0 \in 0 .. MaxLeg
  BY MissionAssumption DEF MaxLeg
<1>3. QED
  BY <1>1, <1>2 DEF Init, TypeOK, State

(* TypeOK without the fields that guards test as propositions: the provers *)
(* take those apart from the rest.                                         *)
PlainTypes ==
  /\ started \in BOOLEAN
  /\ mapSeen \in BOOLEAN
  /\ targets \subseteq Landmarks
  /\ mode \in State
  /\ actionAge \in 0 .. GripperTimeout
  /\ cubeLive \in Views \cup {"none"}
  /\ cubeAge \in 0 .. CubeLiveTimeout
  /\ lungeDist \in 0 .. MaxLunge
  /\ advanced \in 0 .. MaxLeg
  /\ cmd \in {"zero", "turn", "forward", "back", "nav"}
  /\ jawTarget \in {"none", "open", "closed"}
  /\ jawState \in {"none", "open", "closed"}
  /\ cubeVisible \in BOOLEAN
  /\ gaveUp \in BOOLEAN

(* Every step leaves `alive` alone or clears it. *)
LEMMA AliveStep ==
  ASSUME alive \in BOOLEAN, [Next]_vars
  PROVE  alive' \in BOOLEAN
<1>1. ASSUME \/ GoToKeyArrives \/ PickupOpen \/ PickupEngages
             \/ PickupClose \/ DropAlign \/ DropWaits \/ Shutdown
      PROVE  alive' = alive \/ alive' = FALSE
  BY <1>1, Zenon
  DEF GoToKeyArrives, PickupOpen, PickupEngages, PickupClose, DropAlign,
      DropWaits, Shutdown, Command, Raises
<1>2. ASSUME \/ Starts \/ Explore \/ GoToKeyRetries \/ PickupAlign
             \/ PickupLunges \/ GoToPlateRetries \/ GoToPlateArrives
             \/ DropReleases \/ DropBacksUp \/ Message \/ World
             \/ UNCHANGED vars
      PROVE  alive' = alive
  BY <1>2
  DEF Starts, Explore, GoToKeyRetries, PickupAlign, PickupLunges,
      GoToPlateRetries, GoToPlateArrives, DropReleases, DropBacksUp, Message,
      OnMap, OnTarget, OnCubeLive, NavCallback, World, ClockAdvances,
      JawsMove, RobotMoves, NavDrives, NavServes, vars
<1>3. alive' = alive \/ alive' = FALSE
  BY <1>1, <1>2, Zenon DEF Next, Tick
<1>4. QED
  BY <1>3, Zenon

LEMMA TypeOKStep ==
  ASSUME TypeOK, NavTypeOK', [Next]_vars
  PROVE  TypeOK'
<1>0. /\ GripperTimeout \in Nat
      /\ CubeLiveTimeout \in Nat
      /\ MaxLunge \in Nat
      /\ BackupDist \in Nat
      /\ MaxLeg \in Nat
      /\ alive' \in BOOLEAN
  BY MissionAssumption, AliveStep DEF MaxLeg, TypeOK
<1>00. ASSUME GoToKeyArrives \/ PickupAlign \/ PickupEngages
       PROVE  lungeActive' \in BOOLEAN
  <2>1. lungeActive \in BOOLEAN
    BY DEF TypeOK
  <2>2. \/ lungeActive' = TRUE
        \/ lungeActive' = FALSE
        \/ UNCHANGED lungeVars
    BY <1>00, Zenon DEF GoToKeyArrives, PickupAlign, PickupEngages
  <2>3. UNCHANGED lungeVars => lungeActive' = lungeActive
    BY DEF lungeVars
  <2>4. QED
    BY <2>1, <2>2, <2>3, Zenon
<1>1. CASE Explore
  BY <1>0, <1>1 DEF Explore, TransitionAndGo, TypeOK, State, startVars,
     cubeVars, lungeVars, jawVars, carryVars
<1>2. CASE GoToKeyRetries
  BY <1>0, <1>2 DEF GoToKeyRetries, TypeOK, State, startVars, cubeVars,
     lungeVars, jawVars, carryVars
<1>3. CASE GoToKeyArrives
  <2>1. PlainTypes'
    BY <1>0, <1>3
    DEF PlainTypes, GoToKeyArrives, Transition, Command, TypeOK, State,
        startVars, cubeVars, jawVars, carryVars
  <2>2. QED
    BY <1>0, <1>00, <1>3, <2>1 DEF TypeOK, PlainTypes
<1>4. CASE PickupOpen
  BY <1>0, <1>4 DEF PickupOpen, Transition, Raises, TypeOK, State,
     startVars, cubeVars, lungeVars, jawVars, carryVars
<1>5. CASE PickupAlign
  <2>1. PlainTypes'
    BY <1>0, <1>5
    DEF PlainTypes, PickupAlign, TypeOK, State, lungeVars,
        startVars, cubeVars, jawVars, carryVars
  <2>2. QED
    BY <1>0, <1>00, <1>5, <2>1 DEF TypeOK, PlainTypes
<1>6. CASE PickupLunges
  BY <1>0, <1>6 DEF PickupLunges, TypeOK, State, startVars, cubeVars,
     lungeVars, jawVars, carryVars
<1>7. CASE PickupEngages
  <2>1. PlainTypes'
    BY <1>0, <1>7
    DEF PlainTypes, PickupEngages, Transition, Command, TypeOK, State,
        startVars, cubeVars, jawVars, carryVars
  <2>2. QED
    BY <1>0, <1>00, <1>7, <2>1 DEF TypeOK, PlainTypes
<1>8. CASE PickupClose
  BY <1>0, <1>8 DEF PickupClose, TransitionAndGo, Raises, TypeOK, State,
     startVars, cubeVars, lungeVars, jawVars, carryVars
<1>9. CASE GoToPlateRetries
  BY <1>0, <1>9 DEF GoToPlateRetries, TypeOK, State, startVars, cubeVars,
     lungeVars, jawVars, carryVars
<1>10. CASE GoToPlateArrives
  BY <1>0, <1>10 DEF GoToPlateArrives, Transition, TypeOK, State, startVars,
     cubeVars, lungeVars, jawVars, carryVars
<1>11. CASE DropAlign
  BY <1>0, <1>11 DEF DropAlign, Transition, Command, Raises, TypeOK, State,
     startVars, cubeVars, lungeVars, jawVars, carryVars
<1>12. CASE DropWaits
  BY <1>0, <1>12 DEF DropWaits, Raises, TypeOK, State, startVars, cubeVars,
     lungeVars, jawVars, carryVars
<1>13. CASE DropReleases
  BY <1>0, <1>13 DEF DropReleases, Transition, TypeOK, State, startVars,
     cubeVars, lungeVars, jawVars, carryVars
<1>14. CASE DropBacksUp
  BY <1>0, <1>14 DEF DropBacksUp, Transition, TypeOK, State, startVars,
     cubeVars, lungeVars, jawVars, carryVars
<1>15. CASE Starts
  BY <1>0, <1>15 DEF Starts, TypeOK, State, startVars, cubeVars, lungeVars,
     jawVars, carryVars
<1>16. CASE OnMap
  BY <1>0, <1>16 DEF OnMap, TypeOK, State, startVars, cubeVars, lungeVars,
     jawVars, carryVars
<1>17. CASE \E n \in Landmarks : OnTarget(n)
  BY <1>0, <1>17 DEF OnTarget, TypeOK, State, startVars, cubeVars,
     lungeVars, jawVars, carryVars
<1>18. CASE \E v \in Views : OnCubeLive(v)
  BY <1>0, <1>18 DEF OnCubeLive, TypeOK, State, startVars, cubeVars,
     lungeVars, jawVars, carryVars
<1>19. CASE NavCallback
  BY <1>0, <1>19 DEF NavCallback, TypeOK, State, startVars, cubeVars,
     lungeVars, jawVars, carryVars
<1>20. CASE ClockAdvances
  BY <1>0, <1>20 DEF ClockAdvances, TimedOut, TypeOK, State, startVars,
     cubeVars, lungeVars, jawVars, carryVars
<1>21. CASE JawsMove
  BY <1>0, <1>21 DEF JawsMove, TypeOK, State, startVars, cubeVars,
     lungeVars, jawVars, carryVars
<1>22. CASE RobotMoves
  BY <1>0, <1>22 DEF RobotMoves, TypeOK, State, startVars, cubeVars,
     lungeVars, jawVars, carryVars
<1>23. CASE NavDrives
  BY <1>0, <1>23 DEF NavDrives, TypeOK, State, startVars, cubeVars,
     lungeVars, jawVars, carryVars
<1>24. CASE NavServes
  BY <1>0, <1>24 DEF NavServes, TypeOK, State, startVars, cubeVars,
     lungeVars, jawVars, carryVars
<1>25. CASE Shutdown
  BY <1>0, <1>25 DEF Shutdown, TypeOK, State, startVars, cubeVars,
     lungeVars, jawVars, carryVars
<1>26. CASE UNCHANGED vars
  BY <1>26 DEF TypeOK, vars, startVars, cubeVars, lungeVars, jawVars,
     carryVars
<1>27. QED
  BY <1>1, <1>2, <1>3, <1>4, <1>5, <1>6, <1>7, <1>8, <1>9, <1>10, <1>11,
     <1>12, <1>13, <1>14, <1>15, <1>16, <1>17, <1>18, <1>19, <1>20, <1>21,
     <1>22, <1>23, <1>24, <1>25, <1>26 DEF Next, Tick, Message, World

(* The node's fields keep their types: in particular the elapsed time, the *)
(* lunge and the backup stay within their limits.                          *)
THEOREM MissionTypesHold == Spec => []TypeOK
<1>1. NavInv => NavTypeOK
  BY DEF NavInv
<1>2. QED
  BY <1>1, TypeOKInit, TypeOKStep, MissionKeepsNavInv, PTL DEF Spec

----------------------------------------------------------------------------
(* What the client's steps do to the goals in play. *)

LEMMA CancelKeepsGoals ==
  ASSUME Cancel
  PROVE  Outstanding' = Outstanding /\ overlapped' = overlapped
BY DEF Cancel, Outstanding

LEMMA IdleKeepsGoals ==
  ASSUME UNCHANGED navVars
  PROVE  Outstanding' = Outstanding /\ overlapped' = overlapped
BY DEF navVars, Outstanding

LEMMA CallbackTakesGoals ==
  ASSUME NavInv, Callback
  PROVE  Outstanding' \subseteq Outstanding /\ overlapped' = overlapped
<1>1. CASE OnGoalAccepted
  <2>1. /\ Range(inFlight) = Range(inFlight') \cup {Head(inFlight)}
        /\ waiting' \subseteq waiting \cup {Head(inFlight)}
    BY <1>1, RangeTail DEF NavInv, NavTypeOK, NoGoalTwice, OnGoalAccepted
  <2>2. QED
    BY <1>1, <2>1 DEF Outstanding, OnGoalAccepted
<1>2. ASSUME NEW g \in Goals, OnNavResult(g)
      PROVE  Outstanding' \subseteq Outstanding /\ overlapped' = overlapped
  BY <1>2 DEF Outstanding, OnNavResult
<1>3. QED
  BY <1>1, <1>2 DEF Callback

LEMMA ServerKeepsGoals ==
  ASSUME Server
  PROVE  Outstanding' = Outstanding /\ overlapped' = overlapped
BY DEF Server, ServerAccepts, ServerRejects, ServerCancels, ServerFinishes,
       Outstanding

(* Outside the navigation states, without overlap, nobody drives. *)
LEMMA NobodyDrives ==
  ASSUME NavInv, ServoingIsAlone, ~overlapped, mode \notin NavStates
  PROVE  Executing = {}
BY DEF NavInv, ServoingIsAlone, ExecutingIsOutstanding

----------------------------------------------------------------------------
(* The mission's invariant. *)

LEMMA MissionInvInit == Init => MissionInv
<1> SUFFICES ASSUME Init PROVE MissionInv
  OBVIOUS
<1>1. mode = "explore" /\ cubeVisible = TRUE
  BY DEF Init
<1>2. QED
  BY <1>1, Zenon
  DEF MissionInv, ServoingIsAlone, StandsWhileJawsMove, HiddenWhileCarried,
      ClosingIsCommanded, CarriesInClosedJaws, NavStates, JawWaits

LEMMA MissionInvStep ==
  ASSUME TypeOK, NavInv, MissionInv, [Next]_vars
  PROVE  MissionInv'
<1> USE DEF MissionInv, ServoingIsAlone, StandsWhileJawsMove,
            HiddenWhileCarried, ClosingIsCommanded, CarriesInClosedJaws,
            NavStates, JawWaits, In, jawVars, carryVars
<1>1. CASE Explore
  BY <1>1, CancelKeepsGoals DEF Explore, TransitionAndGo
<1>2. CASE GoToKeyRetries
  BY <1>2 DEF GoToKeyRetries
<1>3. CASE GoToKeyArrives
  <2>1. ~overlapped => Outstanding = {}
    BY <1>3 DEF GoToKeyArrives, NavInv, SuccessIsTruthful
  <2>2. Outstanding' = Outstanding /\ overlapped' = overlapped
    BY <1>3, CancelKeepsGoals DEF GoToKeyArrives, Transition
  <2>3. QED
    BY <1>3, <2>1, <2>2 DEF GoToKeyArrives, Transition, Command, Raises
<1>4. CASE PickupOpen
  BY <1>4, CancelKeepsGoals, IdleKeepsGoals DEF PickupOpen, Transition,
     Raises
<1>5. CASE PickupAlign
  BY <1>5, IdleKeepsGoals DEF PickupAlign
<1>6. CASE PickupLunges
  BY <1>6, IdleKeepsGoals DEF PickupLunges
<1>7. CASE PickupEngages
  BY <1>7, CancelKeepsGoals DEF PickupEngages, Transition, Command, Raises
<1>8. CASE PickupClose
  <2>1. ASSUME mode' = "go_to_plate", TransitionAndGo("go_to_plate", "plate"),
               cmd' = "zero", cubeVisible' = FALSE, alive' = alive,
               Reached("closed"),
               gaveUp' = (TimedOut /\ jawState # "closed"), UNCHANGED jawVars
        PROVE  MissionInv'
    <3>1. ~gaveUp' => jawState = "closed"
      BY <2>1, Zenon DEF Reached
    <3>2. alive /\ mode = "pickup_close"
      BY <1>8 DEF PickupClose
    <3>3. ~cubeVisible'
      BY <2>1, Zenon
    <3>4. QED
      BY <2>1, <3>1, <3>2, <3>3
  <2>2. ASSUME UNCHANGED <<navVars, mode, jawVars, carryVars>>, cmd' = "zero",
               mode = "pickup_close", alive' => alive
        PROVE  MissionInv'
    BY <2>2, IdleKeepsGoals
  <2>3. QED
    BY <1>8, <2>1, <2>2 DEF PickupClose, TransitionAndGo, Raises
<1>9. CASE GoToPlateRetries
  BY <1>9 DEF GoToPlateRetries
<1>10. CASE GoToPlateArrives
  <2>1. ~overlapped => Outstanding = {}
    BY <1>10 DEF GoToPlateArrives, NavInv, SuccessIsTruthful
  <2>2. Outstanding' = Outstanding /\ overlapped' = overlapped
    BY <1>10, CancelKeepsGoals DEF GoToPlateArrives, Transition
  <2>3. QED
    BY <1>10, <2>1, <2>2 DEF GoToPlateArrives, Transition
<1>11. CASE DropAlign
  BY <1>11, CancelKeepsGoals, IdleKeepsGoals DEF DropAlign, Transition,
     Command, Raises
<1>12. CASE DropWaits
  BY <1>12, IdleKeepsGoals DEF DropWaits, Raises
<1>13. CASE DropReleases
  BY <1>13, CancelKeepsGoals DEF DropReleases, Transition
<1>14. CASE DropBacksUp
  BY <1>14, CancelKeepsGoals, IdleKeepsGoals DEF DropBacksUp, Transition
<1>15. CASE Starts
  BY <1>15, IdleKeepsGoals DEF Starts
<1>16. CASE OnMap
  BY <1>16, IdleKeepsGoals DEF OnMap
<1>17. CASE \E n \in Landmarks : OnTarget(n)
  BY <1>17, IdleKeepsGoals DEF OnTarget
<1>18. CASE \E v \in Views : OnCubeLive(v)
  BY <1>18, IdleKeepsGoals DEF OnCubeLive
<1>19. CASE NavCallback
  <2>1. Outstanding' \subseteq Outstanding /\ overlapped' = overlapped
    BY <1>19, CallbackTakesGoals DEF NavCallback
  <2>2. QED
    BY <1>19, <2>1 DEF NavCallback
<1>20. CASE ClockAdvances
  BY <1>20, IdleKeepsGoals DEF ClockAdvances
<1>21. CASE JawsMove
  BY <1>21, IdleKeepsGoals DEF JawsMove
<1>22. CASE RobotMoves
  BY <1>22, IdleKeepsGoals DEF RobotMoves
<1>23. CASE NavDrives
  BY <1>23, IdleKeepsGoals, NobodyDrives DEF NavDrives
<1>24. CASE NavServes
  <2>1. Outstanding' = Outstanding /\ overlapped' = overlapped
    BY <1>24, ServerKeepsGoals DEF NavServes
  <2>2. cmd' = "zero" \/ cmd' = cmd
    BY <1>24 DEF NavServes
  <2>3. UNCHANGED <<alive, mode, jawVars, carryVars>>
    BY <1>24 DEF NavServes
  <2>4. QED
    BY <2>1, <2>2, <2>3
<1>25. CASE Shutdown
  BY <1>25, IdleKeepsGoals DEF Shutdown
<1>26. CASE UNCHANGED vars
  BY <1>26, IdleKeepsGoals DEF vars
<1>27. QED
  BY <1>1, <1>2, <1>3, <1>4, <1>5, <1>6, <1>7, <1>8, <1>9, <1>10, <1>11,
     <1>12, <1>13, <1>14, <1>15, <1>16, <1>17, <1>18, <1>19, <1>20, <1>21,
     <1>22, <1>23, <1>24, <1>25, <1>26 DEF Next, Tick, Message, World

LEMMA MissionInvHolds == Spec => []MissionInv
BY MissionInvInit, MissionInvStep, MissionTypesHold, MissionKeepsNavInv, PTL
DEF Spec

(* Once the mission has left a navigation state without overlapping goals, *)
(* no goal is left in play: the alignment, the lunge and the backup have   *)
(* the wheels to themselves (explorer_node.py:239-247, 419-423).           *)
THEOREM ServoingHasTheWheels == Spec => []ServoingIsAlone
<1>1. MissionInv => ServoingIsAlone
  BY DEF MissionInv
<1>2. QED
  BY <1>1, MissionInvHolds, PTL

(* The wheels stand while the mission waits for the jaws, and when it is   *)
(* done (explorer_node.py:242, 266, 273, 303, 311, 331, 388).              *)
THEOREM JawsMoveStanding == Spec => []StandsWhileJawsMove
<1>1. MissionInv => StandsWhileJawsMove
  BY DEF MissionInv
<1>2. QED
  BY <1>1, MissionInvHolds, PTL

(* The cube is hidden from the lidar exactly while it is carried           *)
(* (explorer_node.py:277, 318).                                            *)
THEOREM CarriedCubeIsHidden == Spec => []HiddenWhileCarried
<1>1. MissionInv => HiddenWhileCarried
  BY DEF MissionInv
<1>2. QED
  BY <1>1, MissionInvHolds, PTL

(* Unless the wait for the jaws ran into its timeout, the cube travels     *)
(* between closed jaws (explorer_node.py:271-279, gripper.py:48-55).       *)
THEOREM CubeIsHeld == Spec => []CarriesInClosedJaws
<1>1. MissionInv => CarriesInClosedJaws
  BY DEF MissionInv
<1>2. QED
  BY <1>1, MissionInvHolds, PTL

----------------------------------------------------------------------------
(* The mission implements MissionOrder. *)

(* The transitions of the state machine. *)
Transitions ==
  {<<"explore", "go_to_key">>,         <<"go_to_key", "pickup_open">>,
   <<"pickup_open", "pickup_align">>,  <<"pickup_align", "pickup_close">>,
   <<"pickup_close", "go_to_plate">>,  <<"go_to_plate", "drop_align">>,
   <<"drop_align", "drop_open">>,      <<"drop_open", "drop_backup">>,
   <<"drop_backup", "done">>}

(* They join the consecutive stages of MissionOrder. *)
LEMMA TransitionsAreConsecutive ==
  \A s, t : <<s, t>> \in Transitions =>
    /\ \E i \in 1 .. Len(Order!Stages) - 1 :
         s = Order!Stages[i] /\ t = Order!Stages[i + 1]
    /\ t \in {Order!Stages[i] : i \in 1 .. Len(Order!Stages)}
BY DEF Transitions, Order!Stages

(* What a transition has to show to be a step of MissionOrder. *)
LEMMA EntersNext ==
  ASSUME alive,
         <<mode, mode'>> \in Transitions,
         \/ mode' = "go_to_plate" /\ ~cubeVisible'
         \/ mode' = "drop_backup" /\ cubeVisible' = TRUE
         \/ /\ mode' \notin {"go_to_plate", "drop_backup"}
            /\ UNCHANGED cubeVisible,
         \/ /\ alive' = TRUE
            /\ IF Order!JawCommand(mode') = {}
                 THEN jawTarget' = jawTarget
                 ELSE jawTarget' \in Order!JawCommand(mode')
         \/ /\ alive' = FALSE
            /\ Order!JawCommand(mode') # {}
            /\ jawTarget' = jawTarget
  PROVE  Order!OrderNext
<1>1. Order!Enter(mode')
  <2>1. \E i \in 1 .. Len(Order!Stages) - 1 :
          mode = Order!Stages[i] /\ mode' = Order!Stages[i + 1]
    BY TransitionsAreConsecutive
  <2>2. CASE mode' = "go_to_plate" /\ ~cubeVisible'
    BY <2>1, <2>2, Zenon DEF Order!Enter
  <2>3. CASE mode' = "drop_backup" /\ cubeVisible' = TRUE
    <3>1. mode' # "go_to_plate"
      BY <2>3
    <3>2. QED
      BY <2>1, <2>3, <3>1, Zenon DEF Order!Enter
  <2>4. CASE /\ mode' \notin {"go_to_plate", "drop_backup"}
             /\ UNCHANGED cubeVisible
    BY <2>1, <2>4, Zenon DEF Order!Enter
  <2>5. QED
    BY <2>2, <2>3, <2>4, Zenon
<1>2. mode' \in {Order!Stages[i] : i \in 1 .. Len(Order!Stages)}
  BY TransitionsAreConsecutive, Zenon
<1>3. CASE /\ alive' = TRUE
           /\ IF Order!JawCommand(mode') = {}
                THEN jawTarget' = jawTarget
                ELSE jawTarget' \in Order!JawCommand(mode')
  BY <1>1, <1>2, <1>3, Zenon DEF Order!Advance, Order!OrderNext
<1>4. CASE /\ alive' = FALSE
           /\ Order!JawCommand(mode') # {}
           /\ jawTarget' = jawTarget
  BY <1>1, <1>2, <1>4, Zenon DEF Order!EndsCommanding, Order!OrderNext
<1>5. QED
  BY <1>3, <1>4, Zenon

(* A step that enters a stage without a jaw command. *)
LEMMA EntersQuietly ==
  ASSUME alive, alive' = alive, alive \in BOOLEAN,
         <<mode, mode'>> \in Transitions,
         mode' \notin {"pickup_open", "pickup_close", "drop_open",
                       "go_to_plate", "drop_backup"},
         UNCHANGED <<jawTarget, cubeVisible>>
  PROVE  Order!OrderNext
<1>1. alive' = TRUE
  BY Zenon
<1>2. Order!JawCommand(mode') = {}
  BY DEF Order!JawCommand
<1>3. mode' \notin {"go_to_plate", "drop_backup"}
  OBVIOUS
<1>4. QED
  BY <1>1, <1>2, <1>3, EntersNext, Zenon

(* A step that enters a stage with its jaw command, which may be lost. *)
LEMMA EntersCommanding ==
  ASSUME NEW c, alive, alive \in BOOLEAN,
         <<mode, mode'>> \in Transitions,
         Order!JawCommand(mode') = {c},
         Command(c),
         UNCHANGED cubeVisible
  PROVE  Order!OrderNext
<1>1. mode' \notin {"go_to_plate", "drop_backup"}
  BY DEF Order!JawCommand
<1>2. CASE jawTarget' = c /\ alive' = alive
  <2>1. alive' = TRUE
    BY <1>2, Zenon
  <2>2. QED
    BY <2>1, <1>1, <1>2, EntersNext, Zenon
<1>3. CASE alive' = FALSE /\ jawTarget' = jawTarget
  BY <1>1, <1>3, EntersNext, Zenon
<1>4. QED
  BY <1>2, <1>3, Zenon DEF Command, Raises

LEMMA MissionStepIsOrdered ==
  ASSUME TypeOK, [Next]_vars
  PROVE  [Order!OrderNext]_(Order!orderVars)
<1> USE DEF In, Transition, TransitionAndGo
<1>0. alive \in BOOLEAN /\ alive' \in BOOLEAN
  BY AliveStep DEF TypeOK
<1>1. ASSUME UNCHANGED <<alive, mode, jawTarget, cubeVisible>>
      PROVE  UNCHANGED Order!orderVars
  BY <1>1 DEF Order!orderVars
<1>2. ASSUME alive, alive' = FALSE, UNCHANGED <<mode, jawTarget, cubeVisible>>
      PROVE  Order!OrderNext
  <2>1. Order!Ends
    BY <1>2, Zenon DEF Order!Ends
  <2>2. QED
    BY <2>1, Zenon DEF Order!OrderNext
<1>3. CASE Explore
  <2>1. UNCHANGED <<alive, jawTarget, cubeVisible>> /\ alive
    BY <1>3 DEF Explore, jawVars, carryVars
  <2>2. (mode = "explore" /\ mode' = "go_to_key") \/ mode' = mode
    BY <1>3 DEF Explore
  <2>3. QED
    BY <1>0, <1>1, <2>1, <2>2, EntersQuietly DEF Transitions
<1>4. CASE GoToKeyArrives
  <2>1. Order!JawCommand(mode') = {"open"}
    BY <1>4 DEF GoToKeyArrives, Order!JawCommand
  <2>2. <<mode, mode'>> \in Transitions
    BY <1>4 DEF GoToKeyArrives, Transitions
  <2>3. alive /\ Command("open") /\ UNCHANGED cubeVisible
    BY <1>4 DEF GoToKeyArrives, carryVars
  <2>4. QED
    BY <1>0, <2>1, <2>2, <2>3, EntersCommanding, Zenon
<1>5. CASE PickupOpen
  <2>1. alive /\ UNCHANGED <<jawTarget, cubeVisible>>
    BY <1>5 DEF PickupOpen, jawVars, carryVars
  <2>2. \/ mode = "pickup_open" /\ mode' = "pickup_align" /\ alive' = alive
        \/ mode' = mode /\ alive' = alive
        \/ mode' = mode /\ alive' = FALSE
    BY <1>5, Zenon DEF PickupOpen, Raises
  <2>3. QED
    BY <1>0, <1>1, <1>2, <2>1, <2>2, EntersQuietly DEF Transitions
<1>6. CASE PickupEngages
  <2>1. Order!JawCommand(mode') = {"closed"}
    BY <1>6 DEF PickupEngages, Order!JawCommand
  <2>2. <<mode, mode'>> \in Transitions
    BY <1>6 DEF PickupEngages, Transitions
  <2>3. alive /\ Command("closed") /\ UNCHANGED cubeVisible
    BY <1>6 DEF PickupEngages, carryVars
  <2>4. QED
    BY <1>0, <2>1, <2>2, <2>3, EntersCommanding, Zenon
<1>7. CASE PickupClose
  <2>1. alive /\ mode = "pickup_close" /\ jawTarget' = jawTarget
    BY <1>7 DEF PickupClose, jawVars
  <2>2. CASE mode' = "go_to_plate" /\ cubeVisible' = FALSE /\ alive' = alive
    <3>1. alive' = TRUE
      BY <1>0, <2>1, <2>2, Zenon
    <3>2. Order!JawCommand(mode') = {} /\ <<mode, mode'>> \in Transitions
      BY <2>1, <2>2 DEF Order!JawCommand, Transitions
    <3>3. ~cubeVisible'
      BY <2>2, Zenon
    <3>4. QED
      BY <2>1, <2>2, <3>1, <3>2, <3>3, EntersNext, Zenon
  <2>3. CASE UNCHANGED <<mode, cubeVisible>> /\ alive' = alive
    BY <1>1, <2>1, <2>3
  <2>4. CASE UNCHANGED <<mode, cubeVisible>> /\ alive' = FALSE
    BY <1>2, <2>1, <2>4, Zenon
  <2>5. QED
    BY <1>7, <2>2, <2>3, <2>4, Zenon DEF PickupClose, Raises, carryVars
<1>8. CASE GoToPlateArrives
  <2>1. alive /\ UNCHANGED <<alive, jawTarget, cubeVisible>>
    BY <1>8 DEF GoToPlateArrives, jawVars, carryVars
  <2>2. mode = "go_to_plate" /\ mode' = "drop_align"
    BY <1>8 DEF GoToPlateArrives
  <2>3. QED
    BY <1>0, <2>1, <2>2, EntersQuietly DEF Transitions
<1>9. CASE DropAlign
  <2>1. alive /\ mode = "drop_align" /\ cubeVisible' = cubeVisible
    BY <1>9 DEF DropAlign, carryVars
  <2>2. CASE UNCHANGED <<navVars, mode, actionAge, alive, jawTarget>>
    BY <1>1, <2>1, <2>2
  <2>3. CASE mode' = "drop_open" /\ Command("open")
    <3>1. Order!JawCommand(mode') = {"open"}
      BY <2>3 DEF Order!JawCommand
    <3>2. <<mode, mode'>> \in Transitions
      BY <2>1, <2>3 DEF Transitions
    <3>3. QED
      BY <1>0, <2>1, <2>3, <3>1, <3>2, EntersCommanding, Zenon
  <2>4. QED
    BY <1>9, <2>2, <2>3, Zenon DEF DropAlign
<1>10. CASE DropWaits
  <2>1. alive /\ UNCHANGED <<mode, jawTarget, cubeVisible>>
    BY <1>10 DEF DropWaits, jawVars, carryVars
  <2>2. alive' = alive \/ alive' = FALSE
    BY <1>10, Zenon DEF DropWaits, Raises
  <2>3. QED
    BY <1>1, <1>2, <2>1, <2>2, Zenon
<1>11. CASE DropReleases
  <2>1. alive /\ mode = "drop_open" /\ mode' = "drop_backup"
    BY <1>11 DEF DropReleases
  <2>2. alive' = alive /\ jawTarget' = jawTarget
    BY <1>11 DEF DropReleases, jawVars
  <2>3. cubeVisible' = TRUE
    BY <1>11, Zenon DEF DropReleases
  <2>4. alive' = TRUE
    BY <1>0, <2>1, <2>2, Zenon
  <2>5. Order!JawCommand(mode') = {} /\ <<mode, mode'>> \in Transitions
    BY <2>1 DEF Order!JawCommand, Transitions
  <2>6. QED
    BY <2>1, <2>2, <2>3, <2>4, <2>5, EntersNext, Zenon
<1>12. CASE DropBacksUp
  <2>1. alive /\ UNCHANGED <<alive, jawTarget, cubeVisible>>
    BY <1>12 DEF DropBacksUp, jawVars, carryVars
  <2>2. (mode = "drop_backup" /\ mode' = "done") \/ mode' = mode
    BY <1>12 DEF DropBacksUp
  <2>3. QED
    BY <1>0, <1>1, <2>1, <2>2, EntersQuietly DEF Transitions
<1>13. CASE Shutdown
  <2>1. alive /\ UNCHANGED <<mode, jawTarget, cubeVisible>>
    BY <1>13 DEF Shutdown, jawVars, carryVars
  <2>2. alive' = FALSE
    BY <1>13, Zenon DEF Shutdown
  <2>3. QED
    BY <1>2, <2>1, <2>2, Zenon
<1>14. CASE \/ Starts \/ GoToKeyRetries \/ PickupAlign \/ PickupLunges
            \/ GoToPlateRetries
  BY <1>1, <1>14 DEF Starts, GoToKeyRetries, PickupAlign, PickupLunges,
                     GoToPlateRetries, jawVars, carryVars
<1>15. CASE Message
  BY <1>1, <1>15 DEF Message, OnMap, OnTarget, OnCubeLive, NavCallback,
                     jawVars, carryVars
<1>16. CASE World
  BY <1>1, <1>16 DEF World, ClockAdvances, JawsMove, RobotMoves, NavDrives,
                     NavServes, jawVars, carryVars
<1>17. CASE UNCHANGED vars
  BY <1>1, <1>17 DEF vars, jawVars, carryVars
<1>18. QED
  BY <1>3, <1>4, <1>5, <1>6, <1>7, <1>8, <1>9, <1>10, <1>11, <1>12, <1>13,
     <1>14, <1>15, <1>16, <1>17
  DEF Next, Tick

(* The mission implements MissionOrder: every tick, callback and step of   *)
(* the world is a step of the documented order or does not concern it      *)
(* (explorer_node.py:208-336, architecture.md:149-162).                    *)
THEOREM MissionKeepsOrder == Spec => KeepsOrder
<1>1. Init => Order!OrderInit
  <2>1. ASSUME Init
        PROVE  alive = TRUE /\ (~cubeVisible) = FALSE
    BY <2>1, Zenon DEF Init
  <2>2. QED
    BY <2>1, Zenon DEF Init, Order!OrderInit
<1>2. QED
  BY <1>1, MissionStepIsOrdered, MissionTypesHold, PTL
  DEF Spec, KeepsOrder, Order!OrderSpec
=============================================================================
