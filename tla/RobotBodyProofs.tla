---------------------------- MODULE RobotBodyProofs ----------------------------
(***************************************************************************)
(* Proofs about RobotActions, and about RobotBody and RobotLeds that extend *)
(* it, for every number of kinds, joints, bulbs and values.                *)
(*                                                                         *)
(* First the actions: every accepted request gets exactly one final push,  *)
(* and a watched action is never silent for its period, whatever the time  *)
(* step, the periods and the durations.  Then the body: its steps are      *)
(* steps of RobotActions, so what is proved of those holds in the body;    *)
(* and the invariants behind the properties of the gimbal, the wheels, the *)
(* gripper and the LEDs.                                                   *)
(***************************************************************************)
EXTENDS RobotBody, TLAPS

(* What keeps a watched action from being silent: the time since its last  *)
(* push and the time left until the next add up to a period at most.       *)
Quietness(k) ==
  Watched(k) /\ running[k].state # "started" =>
    /\ quiet[k] + running[k].deadline <= running[k].period
    /\ running[k].deadline > 0 \/ quiet[k] = 0

(* The first step of an action pushes: its deadline is over from the start. *)
StartsDue(k) ==
  ~Empty(k) /\ running[k].state = "started" => running[k].deadline = 0

RobotInv ==
  /\ RobotTypeOK
  /\ OneFinalPush
  /\ \A k \in Kinds : Quietness(k) /\ StartsDue(k)

----------------------------------------------------------------------------
(* A step of an action changes its state, its time and its plays only, and *)
(* leaves it running or done.                                              *)
LEMMA ProgressKeeps ==
  ASSUME NEW k \in Kinds, NEW a \in Actions, NEW arrives
  PROVE  /\ Progress(k, a, arrives) \in
              [id : Ids \cup {None}, state : {"running", "succeed"},
               deadline : Int, period : Periods,
               left : Int, plays : 0 .. MaxPlays]
         /\ Progress(k, a, arrives).id = a.id
         /\ Progress(k, a, arrives).deadline = a.deadline
         /\ Progress(k, a, arrives).period = a.period
<1>1. /\ a = [id |-> a.id, state |-> a.state, deadline |-> a.deadline,
              period |-> a.period, left |-> a.left, plays |-> a.plays]
      /\ a.id \in Ids \cup {None} /\ a.deadline \in Int
      /\ a.period \in Periods /\ a.left \in Int /\ a.plays \in 0 .. MaxPlays
  BY DEF Actions
<1> DEFINE Changed(s, l, n) ==
            [id |-> a.id, state |-> s, deadline |-> a.deadline,
             period |-> a.period, left |-> l, plays |-> n]
           later == a.left - StepLen
<1>2. \E s \in {"running", "succeed"}, l \in Int, n \in 0 .. MaxPlays :
        Progress(k, a, arrives) = Changed(s, l, n)
  <2>1. later \in Int
    BY <1>1, RobotAssumption
  <2>2. CASE k = "play_sound" /\ later < 0 /\ a.plays > 0
    <3>1. Progress(k, a, arrives) =
            [a EXCEPT !.state = "running", !.left = SoundLen,
                      !.plays = a.plays - 1]
      BY <2>2 DEF Progress, Played
    <3>2. SoundLen \in Int /\ a.plays - 1 \in 0 .. MaxPlays
      BY <1>1, <2>2, RobotAssumption
    <3>3. Progress(k, a, arrives) = Changed("running", SoundLen, a.plays - 1)
      BY <1>1, <3>1
    <3> HIDE DEF Changed
    <3>4. QED
      BY <3>2, <3>3
  <2>3. CASE k = "play_sound" /\ ~(later < 0 /\ a.plays > 0)
    <3>1. PICK s \in {"running", "succeed"} :
            Progress(k, a, arrives) = [a EXCEPT !.state = s, !.left = later]
      BY <2>3 DEF Progress, Played
    <3>2. Progress(k, a, arrives) = Changed(s, later, a.plays)
      BY <1>1, <3>1
    <3> HIDE DEF Changed, later
    <3>3. QED
      BY <1>1, <2>1, <3>2
  <2>4. CASE k = "move_servo"
    <3>1. PICK s \in {"running", "succeed"} :
            Progress(k, a, arrives) = [a EXCEPT !.state = s, !.left = later]
      BY <2>4 DEF Progress, Turned
    <3>2. Progress(k, a, arrives) = Changed(s, later, a.plays)
      BY <1>1, <3>1
    <3> HIDE DEF Changed, later
    <3>3. QED
      BY <1>1, <2>1, <3>2
  <2>5. CASE k \notin {"play_sound", "move_servo"}
    <3>1. PICK s \in {"running", "succeed"} :
            Progress(k, a, arrives) = [a EXCEPT !.state = s]
      BY <2>5 DEF Progress, Moved
    <3>2. Progress(k, a, arrives) = Changed(s, a.left, a.plays)
      BY <1>1, <3>1
    <3> HIDE DEF Changed
    <3>3. QED
      BY <1>1, <3>2
  <2>6. QED
    BY <2>2, <2>3, <2>4, <2>5
<1>3. PICK s \in {"running", "succeed"}, l \in Int, n \in 0 .. MaxPlays :
        Progress(k, a, arrives) = Changed(s, l, n)
  BY <1>2
<1>4. QED
  BY <1>1, <1>3

(* Rescheduling only moves the deadline of an action somebody watches: on  *)
(* by the time step, and back by a period if it was due.                   *)
LEMMA RescheduledDeadline ==
  ASSUME NEW b \in [id : Ids \cup {None}, state : {"running", "succeed"},
                    deadline : Int, period : Periods,
                    left : Int, plays : 0 .. MaxPlays],
         ~Done(b)
  PROVE  /\ Rescheduled(b) \in Actions
         /\ Rescheduled(b).id = b.id
         /\ Rescheduled(b).state = "running"
         /\ Rescheduled(b).period = b.period
         /\ b.id # None =>
              Rescheduled(b).deadline =
                b.deadline - StepLen + IF Due(b) THEN b.period ELSE 0
BY RobotAssumption DEF Rescheduled, Actions, Done, Due

LEMMA InitRobot == Init => RobotInv
BY RobotAssumption
   DEF Init, RobotInv, RobotTypeOK, OneFinalPush, Quietness, StartsDue,
       Watched, Empty

LEMMA SubmitPreserves ==
  ASSUME RobotInv, NEW k \in Kinds, NEW id \in Ids \cup {None},
         NEW p \in Periods, NEW n \in Plays(k), Submit(k, id, p, n)
  PROVE  RobotInv'
<1> USE RobotAssumption, SlotAssumption DEF RobotInv
<1>1. NewAction(k, id, p, n) \in Actions
  BY DEF NewAction, Actions, FirstLeft, Plays
<1>2. /\ NewAction(k, id, p, n).id = id
      /\ NewAction(k, id, p, n).state = "started"
      /\ NewAction(k, id, p, n).deadline = 0
  BY DEF NewAction
<1>3. CASE Accept(k, id, p, n)
  <2>1. /\ running' = [running EXCEPT ![k] = NewAction(k, id, p, n)]
        /\ quiet' = [quiet EXCEPT ![k] = 0]
        /\ owed' = [owed EXCEPT ![k] = IF id = None THEN @ ELSE @ + 1]
        /\ answer' = "accepted"
        /\ pushed' = {}
        /\ previous' = previous
    BY <1>3 DEF Submit, Accept
  <2>2. RobotTypeOK'
    BY <1>1, <2>1 DEF RobotTypeOK
  <2>3. running[k] = None
    BY <1>3 DEF Accept, Accepts, Empty
  <2>4. OneFinalPush'
    <3> SUFFICES ASSUME NEW j \in Kinds
                 PROVE  owed'[j] = IF Watched(j)' THEN 1 ELSE 0
      BY DEF OneFinalPush
    <3>1. CASE j = k
      <4>1. owed[k] = 0
        BY <2>3 DEF OneFinalPush, Watched, Empty
      <4>2. owed'[k] = IF id = None THEN 0 ELSE 1
        BY <2>1, <4>1 DEF RobotTypeOK
      <4>3. running'[k] = NewAction(k, id, p, n)
        BY <2>1 DEF RobotTypeOK
      <4>4. QED
        BY <1>1, <1>2, <3>1, <4>2, <4>3 DEF Watched, Empty
    <3>2. CASE j # k
      BY <2>1, <3>2 DEF OneFinalPush, Watched, Empty, RobotTypeOK
    <3>3. QED
      BY <3>1, <3>2
  <2>5. \A j \in Kinds : Quietness(j)' /\ StartsDue(j)'
    BY <1>2, <2>1 DEF Quietness, StartsDue, Watched, Empty, RobotTypeOK
  <2>6. QED
    BY <2>2, <2>4, <2>5
<1>4. CASE Reject(k)
  BY <1>4 DEF Submit, Reject, RobotTypeOK, OneFinalPush, Quietness, StartsDue,
              Watched, Empty
<1>5. QED
  BY <1>3, <1>4 DEF Submit

LEMMA StepPreserves ==
  ASSUME RobotInv, Step
  PROVE  RobotInv'
<1> USE RobotAssumption, SlotAssumption DEF RobotInv
<1> DEFINE busy == {k \in Kinds : ~Empty(k)}
<1>1. PICK arriving \in SUBSET busy :
        LET after == [k \in busy |-> Progress(k, running[k], k \in arriving)]
            due == {k \in busy : Due(after[k])}
        IN  /\ running' = [k \in Kinds |->
                             IF k \in busy /\ ~Done(after[k])
                               THEN Rescheduled(after[k]) ELSE None]
            /\ previous' = [k \in Kinds |->
                              IF k \in busy THEN Recorded(k, after[k])
                                            ELSE previous[k]]
            /\ pushed' = {[kind |-> k, id |-> after[k].id,
                           state |-> after[k].state] : k \in due}
            /\ quiet' = [k \in Kinds |->
                           IF Watched(k) /\ k \notin due
                             THEN quiet[k] + StepLen ELSE 0]
            /\ owed' = [k \in Kinds |->
                          IF k \in due /\ Done(after[k]) THEN owed[k] - 1
                                                         ELSE owed[k]]
            /\ answer' = answer
  BY DEF Step, StepWith
<1> DEFINE after == [k \in busy |-> Progress(k, running[k], k \in arriving)]
           due == {k \in busy : Due(after[k])}
<1>2. ASSUME NEW k \in busy
      PROVE  /\ running[k] \in Actions
             /\ after[k] \in
                  [id : Ids \cup {None}, state : {"running", "succeed"},
                   deadline : Int, period : Periods,
                   left : Int, plays : 0 .. MaxPlays]
             /\ after[k].id = running[k].id
             /\ after[k].deadline = running[k].deadline
             /\ after[k].period = running[k].period
  <2>1. running[k] \in Actions
    BY <1>2 DEF RobotTypeOK, Empty
  <2>2. after[k] = Progress(k, running[k], k \in arriving)
    BY <1>2
  <2> HIDE DEF after
  <2>3. QED
    BY <1>2, <2>1, <2>2, ProgressKeeps
<1> HIDE DEF after
<1>3. RobotTypeOK'
  <2>1. running' \in [Kinds -> Actions \cup {None}]
    BY <1>1, <1>2, RescheduledDeadline DEF after
  <2>2. previous' \in [Kinds -> {"undefined", "succeed"}]
    BY <1>1, <1>2 DEF after, Recorded, Done, RobotTypeOK
  <2>3. pushed' \subseteq [kind : Kinds, id : Ids, state : {"running", "succeed"}]
    <3>1. \A k \in due : after[k].id \in Ids
                          /\ after[k].state \in {"running", "succeed"}
      BY <1>2 DEF Due
    <3>2. pushed' = {[kind |-> k, id |-> after[k].id,
                      state |-> after[k].state] : k \in due}
      BY <1>1 DEF after
    <3>3. due \subseteq Kinds
      OBVIOUS
    <3> HIDE DEF due
    <3>4. QED
      BY <3>1, <3>2, <3>3
  <2>4. quiet' \in [Kinds -> Nat] /\ owed' \in [Kinds -> Int]
    BY <1>1 DEF RobotTypeOK
  <2>5. QED
    BY <1>1, <2>1, <2>2, <2>3, <2>4 DEF RobotTypeOK
<1>4. ASSUME NEW k \in Kinds
      PROVE  owed'[k] = IF Watched(k)' THEN 1 ELSE 0
  <2>1. CASE k \notin busy
    BY <1>1, <2>1 DEF OneFinalPush, Watched, Empty
  <2>2. CASE k \in busy /\ Done(after[k])
    <3>1. running'[k] = None
      BY <1>1, <2>2 DEF after
    <3>2. k \in due <=> Watched(k)
      BY <1>2, <2>2 DEF Due, Watched, Empty
    <3>3. owed'[k] = IF Watched(k) THEN owed[k] - 1 ELSE owed[k]
      BY <1>1, <2>2, <3>2 DEF after
    <3>4. QED
      <4>1. owed[k] = IF Watched(k) THEN 1 ELSE 0
        BY DEF OneFinalPush
      <4>2. ~Watched(k)'
        BY <3>1 DEF Watched, Empty
      <4>3. QED
        BY <3>3, <4>1, <4>2
  <2>3. CASE k \in busy /\ ~Done(after[k])
    <3>1. running'[k] = Rescheduled(after[k])
      BY <1>1, <2>3 DEF after
    <3>2. running'[k] \in Actions /\ running'[k].id = running[k].id
      BY <1>2, <2>3, <3>1, RescheduledDeadline
    <3>3. owed'[k] = owed[k]
      BY <1>1, <2>3 DEF after
    <3>4. QED
      BY <1>2, <2>3, <3>2, <3>3 DEF OneFinalPush, Watched, Empty
  <2>4. QED
    BY <2>1, <2>2, <2>3
<1>5. ASSUME NEW k \in Kinds
      PROVE  Quietness(k)' /\ StartsDue(k)'
  <2>1. CASE k \notin busy \/ Done(after[k])
    BY <1>1, <2>1 DEF after, Quietness, StartsDue, Watched, Empty
  <2>2. CASE k \in busy /\ ~Done(after[k])
    <3>1. running'[k] = Rescheduled(after[k])
      BY <1>1, <2>2 DEF after
    <3>2. quiet'[k] = IF Watched(k) /\ k \notin due THEN quiet[k] + StepLen
                                                    ELSE 0
      BY <1>1 DEF after
    <3>3. StartsDue(k)'
      BY <1>2, <2>2, <3>1, RescheduledDeadline DEF StartsDue
    <3>4. ASSUME Watched(k)'
          PROVE  Quietness(k)'
      <4>1. /\ running'[k].id = running[k].id
            /\ running'[k].period = running[k].period
            /\ running'[k].period \in Periods
            /\ running[k].deadline \in Int
        BY <1>2, <2>2, <3>1, RescheduledDeadline DEF Actions
      <4>2. Watched(k)
        BY <2>2, <3>4, <4>1 DEF Watched, Empty
      <4>3. running'[k].deadline =
              running[k].deadline - StepLen
                + IF k \in due THEN running[k].period ELSE 0
        <5>1. after[k].id # None
          BY <1>2, <2>2, <4>2 DEF Watched
        <5>2. QED
          BY <1>2, <2>2, <3>1, <5>1, RescheduledDeadline
      <4>4. quiet[k] \in Nat
        BY DEF RobotTypeOK
      <4>5. CASE k \in due
        <5>1. running[k].deadline - StepLen <= 0
          BY <1>2, <2>2, <4>5 DEF Due
        <5>2. quiet'[k] = 0
          BY <3>2, <4>5
        <5>3. running[k].period \in Nat
          BY <4>1, RobotAssumption
        <5>4. /\ running'[k].deadline \in Int
              /\ running'[k].deadline <= running'[k].period
          BY <4>1, <4>3, <4>5, <5>1, <5>3
        <5>5. QED
          BY <5>2, <5>4 DEF Quietness
      <4>6. CASE k \notin due
        <5>1. running[k].deadline - StepLen > 0
          BY <1>2, <2>2, <4>1, <4>2, <4>6 DEF Due, Watched
        <5>2. running[k].state # "started"
          <6>1. StartsDue(k) /\ ~Empty(k)
            BY <2>2
          <6>2. ~(running[k].deadline = 0)
            BY <4>1, <5>1
          <6>3. QED
            BY <6>1, <6>2 DEF StartsDue
        <5>3. QED
          BY <3>2, <4>1, <4>2, <4>3, <4>4, <4>6, <5>1, <5>2 DEF Quietness
      <4>7. QED
        BY <4>5, <4>6
    <3>5. QED
      BY <3>3, <3>4 DEF Quietness
  <2>3. QED
    BY <2>1, <2>2
<1>6. QED
  BY <1>3, <1>4, <1>5 DEF OneFinalPush

LEMMA RobotInvStep == RobotInv /\ [Next]_vars => RobotInv'
<1> SUFFICES ASSUME RobotInv, [Next]_vars
             PROVE  RobotInv'
  OBVIOUS
<1>1. CASE \E k \in Kinds, id \in Ids \cup {None}, p \in Periods :
             \E n \in Plays(k) : Submit(k, id, p, n)
  BY <1>1, SubmitPreserves
<1>2. CASE RequestStop
  BY <1>2 DEF RequestStop, RobotInv, RobotTypeOK, OneFinalPush, Quietness,
              StartsDue, Watched, Empty
<1>3. CASE Step
  BY <1>3, StepPreserves
<1>4. CASE UNCHANGED vars
  BY <1>4 DEF vars, RobotInv, RobotTypeOK, OneFinalPush, Quietness,
              StartsDue, Watched, Empty
<1>5. QED
  BY <1>1, <1>2, <1>3, <1>4 DEF Next

(* The three facts together, for every robot. *)
THEOREM RobotInvHolds == Spec => []RobotInv
BY InitRobot, RobotInvStep, PTL DEF Spec

(* The slots hold actions that are started or running, never a finished    *)
(* one: do_step() clears the slot in the step that ends the action.        *)
THEOREM RobotTypesHold == Spec => []RobotTypeOK
BY RobotInvHolds, PTL DEF RobotInv

(* One final push for each accepted request, none for a rejected one       *)
(* (action.hpp:19-27, robot.cpp:165-175).                                  *)
THEOREM FinalPushesAreOnce == Spec => []OneFinalPush
BY RobotInvHolds, PTL DEF RobotInv

(* A watched action pushes within its period although the deadline drifts  *)
(* against the time step (action.hpp:20-24).                               *)
THEOREM WatchedActionsSpeak == Spec => []NeverSilent
<1>1. RobotInv => NeverSilent
  <2> SUFFICES ASSUME RobotInv, NEW k \in Kinds, Watched(k),
                      running[k].state # "started"
               PROVE  quiet[k] < running[k].period
    BY DEF NeverSilent
  <2>1. running[k] \in Actions /\ quiet[k] \in Nat
    BY DEF RobotInv, RobotTypeOK, Watched, Empty
  <2>2. Quietness(k)
    BY DEF RobotInv
  <2>3. QED
    <3>1. /\ running[k].deadline \in Int
          /\ running[k].period \in Nat \ {0}
      BY <2>1, RobotAssumption DEF Actions
    <3>2. /\ quiet[k] + running[k].deadline <= running[k].period
          /\ running[k].deadline > 0 \/ quiet[k] = 0
      BY <2>2 DEF Quietness
    <3>3. QED
      BY <2>1, <3>1, <3>2
<1>2. QED
  BY <1>1, RobotInvHolds, PTL

----------------------------------------------------------------------------
(* The changes of state a poll may see.                                    *)
Lifecycle(before, after) ==
  before # after =>
    <<before, after>> \in
      {<<"undefined", "started">>, <<"succeed", "started">>,
       <<"started", "running">>, <<"started", "succeed">>,
       <<"running", "succeed">>}

LEMMA AcceptedStarts ==
  ASSUME RobotInv, NEW j \in Kinds, NEW id \in Ids \cup {None},
         NEW p \in Periods, NEW n \in Plays(j), Submit(j, id, p, n),
         NEW k \in Kinds
  PROVE  Lifecycle(ActionState(k), ActionState(k)')
<1>1. running \in [Kinds -> Actions \cup {None}]
      /\ previous[k] \in {"undefined", "succeed"} /\ previous' = previous
  BY DEF RobotInv, RobotTypeOK, Submit
<1>2. CASE Accept(j, id, p, n) /\ j = k
  <2>1. NewAction(j, id, p, n) \in Actions
    BY RobotAssumption DEF NewAction, Actions, FirstLeft, Plays
  <2>2. running'[k].state = "started" /\ running'[k] # None
    BY <1>1, <1>2, <2>1, SlotAssumption DEF Accept, NewAction
  <2>3. running[k] = None
    BY <1>2 DEF Accept, Accepts, Empty
  <2>4. QED
    BY <1>1, <2>2, <2>3 DEF ActionState, Empty, Lifecycle
<1>3. CASE ~(Accept(j, id, p, n) /\ j = k)
  <2>1. running'[k] = running[k]
    BY <1>1, <1>3 DEF Submit, Accept, Reject
  <2>2. QED
    BY <1>1, <2>1 DEF ActionState, Empty, Lifecycle
<1>4. QED
  BY <1>2, <1>3

LEMMA SteppedMovesOn ==
  ASSUME RobotInv, Step, NEW k \in Kinds
  PROVE  Lifecycle(ActionState(k), ActionState(k)')
<1>1. PICK arriving \in SUBSET {j \in Kinds : ~Empty(j)} :
        LET busy == {j \in Kinds : ~Empty(j)}
            after == [j \in busy |-> Progress(j, running[j], j \in arriving)]
        IN  /\ running' = [j \in Kinds |->
                             IF j \in busy /\ ~Done(after[j])
                               THEN Rescheduled(after[j]) ELSE None]
            /\ previous' = [j \in Kinds |->
                              IF j \in busy THEN Recorded(j, after[j])
                                            ELSE previous[j]]
  BY DEF Step, StepWith
<1> DEFINE next == Progress(k, running[k], k \in arriving)
<1>2. CASE Empty(k)
  <2>1. running'[k] = None /\ previous'[k] = previous[k]
    BY <1>1, <1>2
  <2>2. QED
    BY <1>2, <2>1 DEF ActionState, Empty, Lifecycle
<1>3. CASE ~Empty(k)
  <2>1. running'[k] = (IF ~Done(next) THEN Rescheduled(next) ELSE None)
        /\ previous'[k] = Recorded(k, next)
    BY <1>1, <1>3
  <2>2. running[k] \in Actions
    BY <1>3 DEF RobotInv, RobotTypeOK, Empty
  <2> HIDE DEF next
  <2>3. next \in [id : Ids \cup {None}, state : {"running", "succeed"},
                   deadline : Int, period : Periods,
                   left : Int, plays : 0 .. MaxPlays]
    BY <2>2, ProgressKeeps DEF next
  <2>4. ActionState(k) \in {"started", "running"}
    BY <1>3, <2>2 DEF ActionState, Actions
  <2>5. CASE Done(next)
    <3>1. ActionState(k)' = "succeed"
      BY <2>1, <2>5 DEF ActionState, Empty, Recorded, Done
    <3>2. QED
      BY <2>4, <3>1 DEF Lifecycle
  <2>6. CASE ~Done(next)
    <3>1. Rescheduled(next) \in Actions /\ Rescheduled(next).state = "running"
      BY <2>3, <2>6, RescheduledDeadline
    <3>2. ActionState(k)' = "running"
      BY <2>1, <2>6, <3>1, SlotAssumption DEF ActionState, Empty
    <3>3. QED
      BY <2>4, <3>2 DEF Lifecycle
  <2>7. QED
    BY <2>5, <2>6
<1>4. QED
  BY <1>2, <1>3

(* Whoever polls get_action_state() sees each action start, run and end,   *)
(* and never hears that there was none (robot.hpp:190-199).                *)
THEOREM PollsSeeLifecycle == Spec => ObservedLifecycle
<1> DEFINE Polled == \A k \in Kinds : Lifecycle(ActionState(k), ActionState(k)')
<1>1. ASSUME RobotInv, [Next]_vars
      PROVE  Polled
  <2>1. ASSUME NEW k \in Kinds
        PROVE  Lifecycle(ActionState(k), ActionState(k)')
    <3>1. CASE \E j \in Kinds, id \in Ids \cup {None}, p \in Periods :
                 \E n \in Plays(j) : Submit(j, id, p, n)
      BY <1>1, <3>1, AcceptedStarts
    <3>2. CASE RequestStop \/ UNCHANGED vars
      BY <3>2 DEF RequestStop, vars, ActionState, Empty, Lifecycle
    <3>3. CASE Step
      BY <1>1, <3>3, SteppedMovesOn
    <3>4. QED
      BY <1>1, <3>1, <3>2, <3>3 DEF Next
  <2>2. QED
    BY <2>1
<1>2. Polled =>
        [\A k \in Kinds :
           ActionState(k)' # ActionState(k) =>
             <<ActionState(k), ActionState(k)'>> \in
               {<<"undefined", "started">>, <<"succeed", "started">>,
                <<"started", "running">>, <<"started", "succeed">>,
                <<"running", "succeed">>}]_vars
  BY DEF Lifecycle
<1>3. QED
  BY <1>1, <1>2, RobotInvHolds, PTL DEF Spec, ObservedLifecycle

-----------------------------------------------------------------------------
(* The body.                                                               *)

(* The gimbal performs while its action is in its slot; a target in the    *)
(* wrong frame was put there under a running action.                       *)
FrameInv ==
  /\ gimbal.performing => InSlot("move_gimbal")
  /\ gimbal.mode = "attitude" =>
       \/ gimbal.frame = IF gimbal.following /\ ~gimbal.performing
                           THEN "chassis" ELSE "fixed"
       \/ aim.lost /\ gimbal.performing

(* A gimbal's action whose goal was not replaced still goes there.         *)
AimInv ==
  InSlot("move_gimbal") /\ running["move_gimbal"].state # "started" /\ ~aim.lost =>
    gimbal.performing /\ gimbal.mode = "attitude" /\ gimbal.target = aim.at

WheelInv == standby => ~engaged

(* The state is told in the first step, the power in the second.           *)
GripInv ==
  /\ gripAge >= 1 => grip.stateTarget = grip.state
  /\ gripAge = 2 => grip.powerTarget = grip.power

(* What the simulator shows is what the LED's colours are, but for bulbs   *)
(* that a command touched since.                                           *)
LedInv ==
  /\ led.effect \notin Static => touched = Bulbs /\ led.on + led.off > 0
  /\ led.effect \in Static => \A b \in Bulbs \ touched : shown[b] = led.bulb[b]
  /\ led.effect \in Static /\ ~led.active => touched = {}

----------------------------------------------------------------------------
(* RobotBody implements RobotActions. *)

LEMMA SubmitIsNext ==
  ASSUME NEW k, NEW id \in Ids \cup {None}, NEW p \in Periods, NEW n \in Plays(k),
         Submit(k, id, p, n)
  PROVE  Next
<1>1. CASE k \in Kinds
  BY <1>1 DEF Next
<1>2. CASE k \notin Kinds
  <2>1. RequestStop
    BY <1>2, RobotAssumption DEF Submit, Accept, Reject, Accepts, RequestStop
  <2>2. QED
    BY <2>1 DEF Next
<1>3. QED
  BY <1>1, <1>2

LEMMA MessageIsNext ==
  ASSUME Message
  PROVE  Next \/ UNCHANGED vars
<1> USE DEF Message
<1>1. CASE \/ \E v \in Velocities : SetTargetVelocity(v)
           \/ \E b \in BOOLEAN : EngageWheelMotors(b) \/ FollowChassis(b) \/ GimbalCtrl(b)
           \/ \E v \in Rates : GimbalCtrlSpeed(v)
           \/ \E s \in Motors, m \in {"angle", "speed"} : ServoModeSet(s, m)
           \/ \E s \in Motors, b \in BOOLEAN, v \in Rates : ServoControl(s, b, v)
           \/ \E s \in GripStates, p \in Powers : GripperCtrl(s, p)
           \/ UNCHANGED <<vars, bodyVars>>
  BY <1>1 DEF SetTargetVelocity, EngageWheelMotors, FollowChassis, GimbalCtrl,
     GimbalCtrlSpeed, ServoModeSet, ServoControl, GripperCtrl
<1>2. CASE \E id \in Ids \cup {None}, p \in Periods :
             \/ PositionMove(id, p)
             \/ \E n \in 0 .. MaxPlays : PlaySound(id, p, n)
             \/ \E a \in Angles : RoboticArmMoveCtrl(a, id, p)
             \/ \E a \in Angles, f \in Frames : GimbalRotate(a, f, id, p)
             \/ \E a \in Angles, s \in Motors : ServoCtrlSet(s, a, id, p)
  BY <1>2, SubmitIsNext
     DEF PositionMove, PlaySound, RoboticArmMoveCtrl, GimbalRotate,
         ServoCtrlSet, Plays
<1>3. QED
  BY <1>1, <1>2

LEMMA BodyStepsAreSteps ==
  ASSUME [BodyNext]_allVars
  PROVE  [Next]_vars
<1>1. CASE UNCHANGED allVars
  BY <1>1 DEF allVars
<1>2. CASE BodyStep
  <2>1. PICK h \in Headings, at \in [Joints -> Angles], moved \in SUBSET {"move"} :
          BodyStepWith(h, at, moved)
    BY <1>2 DEF BodyStep
  <2>2. StepWith({k \in Kinds : ~Empty(k) /\ Reached(k, h, at, moved)})
    BY <2>1 DEF BodyStepWith
  <2>3. QED
    BY <2>2 DEF Next, Step
<1>3. CASE Message
  BY <1>3, MessageIsNext DEF vars
<1>4. QED
  BY <1>1, <1>2, <1>3 DEF BodyNext

(* Whatever the body's hardware does, its actions behave as RobotActions   *)
(* says: every step that moves an actuator, and every message, is a step   *)
(* of the slots or leaves them alone (robot.cpp:122-205, 294-362).         *)
THEOREM BodyImplementsActions == BodySpec => Spec
<1>1. BodyInit => Init
  BY DEF BodyInit
<1>2. [BodyNext]_allVars => [Next]_vars
  BY BodyStepsAreSteps
<1>3. QED
  BY <1>1, <1>2, PTL DEF BodySpec, Spec

(* So a request over the network is owed one final push in the body too    *)
(* (robot.cpp:165-175).                                                    *)
THEOREM BodyPushesOnce == BodySpec => []OneFinalPush
BY BodyImplementsActions, FinalPushesAreOnce, PTL

(* ... and no watched action is silent for its period (action.hpp:19-27).  *)
THEOREM BodyIsNeverSilent == BodySpec => []NeverSilent
BY BodyImplementsActions, WatchedActionsSpeak, PTL

LEMMA BodyRobotInv == BodySpec => []RobotInv
BY BodyImplementsActions, RobotInvHolds, PTL

----------------------------------------------------------------------------
(* Wheels, gripper and LEDs. *)

(* The messages that leave a group of actuators alone.                     *)
LEMMA MessagesApart ==
  ASSUME Message
  PROVE  /\ \/ UNCHANGED gripVars
            \/ \E s \in GripStates, p \in Powers : GripperCtrl(s, p)
         /\ \/ UNCHANGED wheelVars
            \/ \E v \in Velocities : SetTargetVelocity(v)
            \/ \E b \in BOOLEAN : EngageWheelMotors(b)
         /\ \/ UNCHANGED ledVars
            \/ \E e \in Effects, c \in Colors, mask \in SUBSET Bulbs,
                  on, off \in Phases, loop \in BOOLEAN :
                 SetLedEffect(e, c, mask, on, off, loop)
            \/ \E b \in BOOLEAN : SetBlasterLed(b)
BY DEF Message, SetTargetVelocity, EngageWheelMotors, PositionMove, PlaySound,
       FollowChassis, GimbalCtrl, GimbalCtrlSpeed, GimbalRotate, ServoModeSet,
       ServoControl, ServoCtrlSet, RoboticArmMoveCtrl, GripperCtrl, bodyVars

GripType ==
  /\ grip \in [state : GripStates, stateTarget : GripStates,
              power : Powers, powerTarget : Powers]
  /\ gripAge \in 0 .. 2

LEMMA GripStep ==
  ASSUME GripType, GripInv, [BodyNext]_allVars
  PROVE  GripType' /\ GripInv'
<1>1. CASE UNCHANGED gripVars
  BY <1>1 DEF gripVars, GripType, GripInv
<1>2. ASSUME NEW s \in GripStates, NEW p \in Powers, GripperCtrl(s, p)
      PROVE  GripType' /\ GripInv'
  <2>1. /\ gripAge' = 0
        /\ grip' = [state |-> s, stateTarget |-> grip.stateTarget,
                    power |-> p, powerTarget |-> grip.powerTarget]
    BY <1>2 DEF GripperCtrl, GripType
  <2>2. GripType'
    BY <2>1 DEF GripType
  <2>3. GripInv'
    BY <2>1 DEF GripInv
  <2>4. QED
    BY <2>2, <2>3
<1>3. CASE BodyStep
  <2>1. /\ grip' = Gripped
        /\ gripAge' = IF gripAge < 2 THEN gripAge + 1 ELSE gripAge
    BY <1>3 DEF BodyStep, BodyStepWith
  <2>2. CASE grip.state # grip.stateTarget
    BY <2>1, <2>2 DEF Gripped, GripType, GripInv
  <2>3. CASE grip.state = grip.stateTarget
    BY <2>1, <2>3 DEF Gripped, GripType, GripInv
  <2>4. QED
    BY <2>2, <2>3
<1>4. CASE UNCHANGED allVars
  BY <1>1, <1>4 DEF allVars, bodyVars
<1>5. QED
  BY <1>1, <1>2, <1>3, <1>4, MessagesApart DEF BodyNext

(* A gripper's command is told in two steps, with its power, for every set *)
(* of powers and whatever else is commanded (robot.cpp:195-199).           *)
THEOREM GripperHearsAll == BodySpec => []GripperIsToldAll
<1>1. BodyInit => GripType /\ GripInv
  BY BodyAssumption DEF BodyInit, GripType, GripInv, GripStates
<1>2. GripType /\ GripInv /\ [BodyNext]_allVars => (GripType /\ GripInv)'
  BY GripStep
<1>3. GripType /\ GripInv => GripperIsToldAll
  BY DEF GripInv, GripperIsToldAll
<1>4. QED
  BY <1>1, <1>2, <1>3, PTL DEF BodySpec

WheelType ==
  /\ engaged \in BOOLEAN /\ standby \in BOOLEAN
  /\ wheels \in [desired : Velocities, target : Velocities]

LEMMA WheelStep ==
  ASSUME WheelType, WheelInv, [BodyNext]_allVars
  PROVE  /\ WheelType' /\ WheelInv'
         /\ wheels'.target # wheels.target => ~standby'
<1>1. CASE UNCHANGED wheelVars
  BY <1>1 DEF wheelVars, WheelType, WheelInv
<1>2. ASSUME NEW v \in Velocities, SetTargetVelocity(v)
      PROVE  /\ WheelType' /\ WheelInv'
             /\ wheels'.target = wheels.target
  BY <1>2 DEF SetTargetVelocity, WheelType, WheelInv
<1>3. ASSUME NEW b \in BOOLEAN, EngageWheelMotors(b)
      PROVE  /\ WheelType' /\ WheelInv'
             /\ wheels'.target = wheels.target
  BY <1>3, BodyAssumption DEF EngageWheelMotors, WheelType, WheelInv
<1>4. CASE BodyStep
  <2>1. PICK moved \in SUBSET {"move"} : WheelsStep("move" \in moved)
    BY <1>4 DEF BodyStep, BodyStepWith
  <2>2. /\ engaged' = engaged
        /\ standby' = IF InSlot("move") THEN ~engaged ELSE standby
    BY <2>1 DEF WheelsStep
  <2>3. PICK v \in Velocities :
          wheels' = [desired |-> v, target |-> IF engaged THEN v ELSE wheels.target]
    BY <2>1 DEF WheelsStep
  <2>4. QED
    BY <2>2, <2>3 DEF WheelType, WheelInv
<1>5. CASE UNCHANGED allVars
  BY <1>1, <1>5 DEF allVars, bodyVars
<1>6. QED
  BY <1>1, <1>2, <1>3, <1>4, <1>5, MessagesApart DEF BodyNext

(* Disengaged wheels are never driven by what was asked of them meanwhile  *)
(* (robot.hpp:73-82, robot.cpp:60-66).                                     *)
THEOREM StandbyIsDropped == BodySpec => StandbyOrdersAreDropped
<1>1. BodyInit => WheelType /\ WheelInv
  <2> SUFFICES ASSUME BodyInit PROVE WheelType /\ WheelInv
    OBVIOUS
  <2>1. wheels = [desired |-> 0, target |-> 0] /\ engaged = TRUE /\ standby = FALSE
    BY DEF BodyInit
  <2>2. QED
    BY <2>1, BodyAssumption DEF WheelType, WheelInv
<1>2. WheelType /\ WheelInv /\ [BodyNext]_allVars =>
        /\ (WheelType /\ WheelInv)'
        /\ [wheels'.target # wheels.target => ~standby']_allVars
  BY WheelStep
<1>3. QED
  BY <1>1, <1>2, PTL DEF BodySpec, StandbyOrdersAreDropped

LEMMA LedInvStep ==
  ASSUME LedTypeOK, LedInv, [BodyNext]_allVars
  PROVE  /\ LedTypeOK' /\ LedInv'
         /\ \A b \in Bulbs \ touched : shown'[b] = shown[b]
<1>1. CASE UNCHANGED ledVars
  BY <1>1 DEF ledVars, LedTypeOK, LedInv, Static, Effects, Shades
<1>2. ASSUME NEW on \in BOOLEAN, SetBlasterLed(on)
      PROVE  /\ LedTypeOK' /\ LedInv'
             /\ shown' = shown
  BY <1>2 DEF SetBlasterLed, LedTypeOK, LedInv, Static, Effects, Shades
<1>3. ASSUME NEW e \in Effects, NEW c \in Colors, NEW mask \in SUBSET Bulbs,
             NEW on \in Phases, NEW off \in Phases, NEW loop \in BOOLEAN,
             SetLedEffect(e, c, mask, on, off, loop)
      PROVE  /\ LedTypeOK' /\ LedInv'
             /\ shown' = shown
  <2> DEFINE color == IF e = "on" THEN c ELSE IF e = "off" THEN Dark ELSE led.color
  <2>1. /\ led' = [effect |-> e, asked |-> c, color |-> color,
                   bulb |-> Lit(e, c, mask), on |-> on, off |-> off,
                   time |-> 0, loop |-> loop, active |-> TRUE]
        /\ touched' = IF e \in Static THEN touched \cup mask ELSE Bulbs
        /\ shown' = shown /\ blaster' = blaster
    BY <1>3 DEF SetLedEffect
  <2>2. Lit(e, c, mask) \in [Bulbs -> Shades] /\ color \in Shades
    BY DEF Lit, LedTypeOK, Shades, Dark
  <2>3. on \in Nat /\ off \in Nat
    BY LedAssumption
  <2> HIDE DEF color
  <2>4. LedTypeOK'
    BY <2>1, <2>2, <2>3 DEF LedTypeOK, Shades, Effects, Static
  <2>5. LedInv'
    BY <2>1, <2>3, LedAssumption DEF LedInv, Lit, LedTypeOK, Effects, Static
  <2>6. QED
    BY <2>1, <2>4, <2>5
<1>4. CASE LedStep
  <2>1. PICK c \in {led.asked, Dark} : led' = Lights(c)
    BY <1>4 DEF LedStep
  <2>2. /\ shown' = IF led.active THEN [b \in Bulbs |-> Shade(b)] ELSE shown
        /\ blaster' = [blaster EXCEPT !.target = blaster.desired]
        /\ touched' = IF led.effect \in Static THEN {} ELSE Bulbs
    BY <1>4 DEF LedStep
  <2>3. /\ led' \in [effect : Effects, asked : Shades, color : Shades,
                     bulb : [Bulbs -> Shades], on : Nat, off : Nat, time : Nat,
                     loop : BOOLEAN, active : BOOLEAN]
        /\ led'.effect = led.effect /\ led'.bulb = led.bulb
        /\ led'.on = led.on /\ led'.off = led.off
        /\ led.effect \in Static => ~led'.active
    <3> DEFINE t == led.time + StepLen
    <3>1. /\ t \in Nat /\ c \in Shades
      BY RobotAssumption DEF LedTypeOK, Shades, Dark
    <3>2. CASE ~led.active
      BY <2>1, <3>2 DEF Lights, LedTypeOK
    <3>3. CASE led.active /\ led' = [led EXCEPT !.active = FALSE]
      BY <3>3 DEF LedTypeOK
    <3>4. CASE led.active /\ led' = [led EXCEPT !.active = FALSE, !.time = t]
      BY <3>1, <3>4 DEF LedTypeOK
    <3>5. CASE /\ led.effect \notin Static
               /\ led' = [led EXCEPT !.time = Wrapped(t), !.color = Color(Wrapped(t), c)]
      <4>1. led.on \in Nat /\ led.off \in Nat /\ led.on + led.off > 0
        BY <3>5 DEF LedTypeOK, LedInv
      <4>2. Wrapped(t) \in Nat
        BY <3>1, <4>1 DEF Wrapped
      <4>3. Color(Wrapped(t), c) \in Shades
        BY <3>1 DEF Color, LedTypeOK, Shades, Dark
      <4>4. QED
        BY <3>5, <4>2, <4>3 DEF LedTypeOK
    <3>6. QED
      BY <2>1, <3>2, <3>3, <3>4, <3>5 DEF Lights
  <2>4. shown' \in [Bulbs -> Shades]
    BY <2>2, <2>3 DEF LedTypeOK, Shade
  <2>5. LedTypeOK'
    BY <2>2, <2>3, <2>4 DEF LedTypeOK
  <2>6. LedInv'
    BY <2>2, <2>3 DEF LedInv, Shade
  <2>7. \A b \in Bulbs \ touched : shown'[b] = shown[b]
    BY <2>2 DEF LedInv, Shade
  <2>8. QED
    BY <2>5, <2>6, <2>7
<1>5. CASE UNCHANGED allVars
  BY <1>1, <1>5 DEF allVars
<1>6. BodyStep => LedStep
  BY DEF BodyStep, BodyStepWith
<1>7. QED
  BY <1>1, <1>2, <1>3, <1>4, <1>5, <1>6, MessagesApart DEF BodyNext

(* Bulbs outside the masks keep their light, however many there are        *)
(* (led.cpp:82-105).                                                       *)
THEOREM OtherBulbsKeep == BodySpec => OtherBulbsKeepTheirLight
<1>1. BodyInit => LedTypeOK /\ LedInv
  BY DEF BodyInit, LedInit, LedTypeOK, LedInv, Static, Effects, Shades, Dark
<1>2. LedTypeOK /\ LedInv /\ [BodyNext]_allVars =>
        /\ (LedTypeOK /\ LedInv)'
        /\ [\A b \in Bulbs \ touched : shown'[b] = shown[b]]_ledVars
  BY LedInvStep
<1>3. QED
  BY <1>1, <1>2, PTL DEF BodySpec, OtherBulbsKeepTheirLight

----------------------------------------------------------------------------
(* The gimbal. *)

GimbalRec ==
  [mode : {"attitude", "velocity"}, following : BOOLEAN,
   performing : BOOLEAN, target : Int, spin : Spins,
   frame : {"fixed", "chassis"}]

GimbalType ==
  /\ gimbal \in GimbalRec
  /\ aim \in [at : Int, lost : BOOLEAN]
  /\ wish \in [angle : Angles, frame : Frames]
  /\ heading \in Headings

JointRec ==
  [on : BOOLEAN, onTarget : BOOLEAN, mode : {"angle", "speed"},
   modeTarget : {"angle", "speed"}, speed : Spins, speedTarget : Spins,
   angle : Int, angleTarget : Int, at : Angles]

(* A servo's action knows its servo. *)
JointType ==
  /\ joint \in [Joints -> JointRec]
  /\ armGoal \in Angles
  /\ servoGoal \in [servo : Motors, angle : Angles] \cup {None}
  /\ InSlot("move_servo") => servoGoal # None

MotionInv == GimbalType /\ JointType /\ FrameInv /\ AimInv

(* A step keeps the slot of an action that has not arrived, and empties    *)
(* that of one that has.                                                   *)
LEMMA SlotAfterStep ==
  ASSUME RobotInv, NEW arriving, StepWith(arriving), NEW k \in Kinds,
         k \notin {"move_servo", "play_sound"}
  PROVE  /\ InSlot(k)' <=> InSlot(k) /\ k \notin arriving
         /\ InSlot(k)' => running'[k].state # "started"
<1> USE RobotAssumption, SlotAssumption DEF RobotInv
<1>1. CASE Empty(k)
  BY <1>1 DEF StepWith, InSlot, Empty
<1>2. CASE ~Empty(k)
  <2> DEFINE a == Progress(k, running[k], k \in arriving)
  <2>1. running[k] \in Actions
    BY <1>2 DEF RobotTypeOK, Empty
  <2>2. /\ a = [running[k] EXCEPT !.state = IF k \in arriving THEN "succeed" ELSE "running"]
        /\ a \in [id : Ids \cup {None}, state : {"running", "succeed"},
                  deadline : Int, period : Periods,
                  left : Int, plays : 0 .. MaxPlays]
    BY <2>1, ProgressKeeps DEF Progress, Moved
  <2>3. running'[k] = IF ~Done(a) THEN Rescheduled(a) ELSE None
    BY <1>2 DEF StepWith
  <2>4. Done(a) <=> k \in arriving
    BY <2>1, <2>2 DEF Done, Actions
  <2> HIDE DEF a
  <2>5. CASE ~Done(a)
    <3>1. Rescheduled(a) \in Actions /\ Rescheduled(a).state = "running"
      BY <2>2, <2>5, RescheduledDeadline
    <3>2. QED
      BY <1>2, <2>3, <2>4, <2>5, <3>1 DEF InSlot, Empty
  <2>6. CASE Done(a)
    BY <1>2, <2>3, <2>4, <2>6 DEF InSlot, Empty
  <2>7. QED
    BY <2>5, <2>6
<1>3. QED
  BY <1>1, <1>2

(* A message that is accepted for the gimbal finds its slot empty; none    *)
(* touches an action in its slot.                                          *)
LEMMA SlotAfterSubmit ==
  ASSUME RobotInv, NEW k, NEW id \in Ids \cup {None}, NEW p \in Periods,
         NEW n, Submit(k, id, p, n)
  PROVE  \A j \in Kinds :
           \/ running'[j] = running[j]
           \/ j = k /\ Empty(j) /\ running'[j].state = "started"
BY DEF Submit, Accept, Reject, Accepts, NewAction, RobotInv, RobotTypeOK

LEMMA DrivenType ==
  ASSUME NEW j \in JointRec, NEW on \in BOOLEAN, NEW v \in Spins
  PROVE  Driven(j, on, v) \in JointRec
<1> DEFINE q == [j EXCEPT !.on = on]
<1>1. q \in JointRec
  BY DEF JointRec
<1> HIDE DEF q
<1>2. [q EXCEPT !.speed = v] \in JointRec
  BY <1>1 DEF JointRec
<1>3. QED
  BY <1>2 DEF Driven, q

LEMMA JointMessage ==
  ASSUME JointType, running' = running, NEW s \in Joints, NEW r \in JointRec,
         joint' = [joint EXCEPT ![s] = r], UNCHANGED <<armGoal, servoGoal>>
  PROVE  JointType'
<1>1. joint' \in [Joints -> JointRec]
  BY DEF JointType
<1>2. InSlot("move_servo")' <=> InSlot("move_servo")
  BY DEF InSlot, Empty
<1>3. QED
  BY <1>1, <1>2 DEF JointType

(* A message keeps the invariant, and no action ends by one.               *)
LEMMA MotionMessage ==
  ASSUME RobotInv, MotionInv, Message
  PROVE  /\ MotionInv'
         /\ InSlot("move_gimbal") => InSlot("move_gimbal")'
<1> USE DEF MotionInv
<1>1. ASSUME UNCHANGED <<running, gimbalVars, jointVars>>
      PROVE  MotionInv' /\ InSlot("move_gimbal")' = InSlot("move_gimbal")
  BY <1>1 DEF GimbalType, JointType, FrameInv, AimInv, InSlot, Empty,
              gimbalVars, jointVars
<1>2. ASSUME NEW k, NEW id \in Ids \cup {None}, NEW p \in Periods, NEW n,
             Submit(k, id, p, n), UNCHANGED <<gimbal, heading, aim, joint>>,
             wish' \in [angle : Angles, frame : Frames],
             armGoal' \in Angles,
             servoGoal' \in [servo : Motors, angle : Angles] \cup {None},
             servoGoal = None => k # "move_servo" \/ servoGoal' # None \/ running' = running,
             servoGoal # None => servoGoal' # None
      PROVE  MotionInv' /\ (InSlot("move_gimbal") => InSlot("move_gimbal")')
  <2>1. \A j \in Kinds :
           \/ running'[j] = running[j]
           \/ j = k /\ Empty(j) /\ running'[j].state = "started"
    BY <1>2, SlotAfterSubmit
  <2>2. InSlot("move_gimbal") =>
          InSlot("move_gimbal")' /\ running'["move_gimbal"] = running["move_gimbal"]
    BY <2>1 DEF InSlot, Empty
  <2>3. InSlot("move_gimbal")' /\ running'["move_gimbal"].state # "started" =>
          InSlot("move_gimbal") /\ running'["move_gimbal"] = running["move_gimbal"]
    BY <2>1 DEF InSlot, Empty
  <2>4. GimbalType'
    BY <1>2 DEF GimbalType
  <2>5. InSlot("move_servo")' => servoGoal' # None
    BY <1>2, <2>1 DEF InSlot, Empty, JointType
  <2>6. JointType'
    BY <1>2, <2>5 DEF JointType
  <2>7. FrameInv'
    BY <1>2, <2>2 DEF FrameInv
  <2>8. AimInv'
    BY <1>2, <2>3 DEF AimInv
  <2>9. QED
    BY <2>2, <2>4, <2>6, <2>7, <2>8
<1>3. ASSUME NEW b \in BOOLEAN, FollowChassis(b)
      PROVE  MotionInv' /\ InSlot("move_gimbal")' = InSlot("move_gimbal")
  <2> DEFINE f == IF b THEN "chassis" ELSE "fixed"
  <2>1. /\ gimbal' = [gimbal EXCEPT !.following = b, !.frame = f,
                       !.target = Attitude(joint[Yaw].at, f)]
        /\ aim' = [at |-> aim.at, lost |-> aim.lost \/ gimbal.performing]
        /\ UNCHANGED <<running, heading, wish, jointVars>>
    BY <1>3 DEF FollowChassis, HoldStill, Replaced, GimbalType, GimbalRec, vars
  <2>2. Attitude(joint[Yaw].at, f) \in Int
    BY BodyAssumption DEF Attitude, GimbalType, JointType, JointRec, Joints, Angles
  <2> HIDE DEF f
  <2>3. GimbalType'
    BY <2>1, <2>2 DEF GimbalType, GimbalRec, f
  <2>4. JointType'
    BY <2>1 DEF JointType, InSlot, Empty, jointVars
  <2>5. FrameInv'
    BY <2>1 DEF FrameInv, InSlot, Empty, GimbalType, GimbalRec, f
  <2>6. AimInv' /\ InSlot("move_gimbal")' = InSlot("move_gimbal")
    BY <2>1 DEF AimInv, InSlot, Empty, GimbalType, GimbalRec
  <2>7. QED
    BY <2>3, <2>4, <2>5, <2>6
<1>4. ASSUME NEW v \in Rates, GimbalCtrlSpeed(v)
      PROVE  MotionInv' /\ InSlot("move_gimbal")' = InSlot("move_gimbal")
  <2>1. /\ gimbal' = [gimbal EXCEPT !.mode = "velocity", !.spin = v]
        /\ aim' = [at |-> aim.at, lost |-> aim.lost \/ gimbal.performing]
        /\ UNCHANGED <<running, heading, wish, jointVars>>
    BY <1>4 DEF GimbalCtrlSpeed, Replaced, vars
  <2>2. GimbalType'
    BY <2>1, BodyAssumption DEF GimbalType, GimbalRec, Spins
  <2>3. JointType'
    BY <2>1 DEF JointType, InSlot, Empty, jointVars
  <2>4. FrameInv'
    BY <2>1 DEF FrameInv, InSlot, Empty, GimbalType, GimbalRec
  <2>5. AimInv' /\ InSlot("move_gimbal")' = InSlot("move_gimbal")
    BY <2>1 DEF AimInv, InSlot, Empty, GimbalType, GimbalRec
  <2>6. QED
    BY <2>2, <2>3, <2>4, <2>5
<1>5. ASSUME NEW s \in Joints, NEW r \in JointRec,
             joint' = [joint EXCEPT ![s] = r],
             UNCHANGED <<running, gimbalVars, armGoal, servoGoal>>
      PROVE  MotionInv' /\ InSlot("move_gimbal")' = InSlot("move_gimbal")
  <2>1. JointType'
    BY <1>5, JointMessage
  <2>2. GimbalType' /\ FrameInv' /\ AimInv' /\ InSlot("move_gimbal")' = InSlot("move_gimbal")
    BY <1>5 DEF gimbalVars, GimbalType, FrameInv, AimInv, InSlot, Empty
  <2>3. QED
    BY <2>1, <2>2
<1>6. CASE \/ \E v \in Velocities : SetTargetVelocity(v)
           \/ \E b \in BOOLEAN : EngageWheelMotors(b)
           \/ \E s \in GripStates, p \in Powers : GripperCtrl(s, p)
           \/ UNCHANGED <<vars, bodyVars>>
  <2>1. CASE \E v \in Velocities : SetTargetVelocity(v)
    BY <1>1, <2>1 DEF SetTargetVelocity, vars
  <2>2. CASE \E b \in BOOLEAN : EngageWheelMotors(b)
    BY <1>1, <2>2 DEF EngageWheelMotors, vars
  <2>3. CASE \E s \in GripStates, p \in Powers : GripperCtrl(s, p)
    BY <1>1, <2>3 DEF GripperCtrl, vars
  <2>4. CASE UNCHANGED <<vars, bodyVars>>
    BY <1>1, <2>4 DEF vars, bodyVars
  <2>5. QED
    BY <1>6, <2>1, <2>2, <2>3, <2>4
<1>7. CASE \E id \in Ids \cup {None}, p \in Periods : PositionMove(id, p)
  <2>1. PICK id \in Ids \cup {None}, p \in Periods : PositionMove(id, p)
    BY <1>7
  <2>2. Submit("move", id, p, 0) /\ UNCHANGED <<gimbalVars, jointVars>>
    BY <2>1 DEF PositionMove, bodyVars
  <2>3. QED
    BY <1>2, <2>2 DEF gimbalVars, jointVars, GimbalType, JointType
<1>8. CASE \E id \in Ids \cup {None}, p \in Periods, n \in 0 .. MaxPlays : PlaySound(id, p, n)
  <2>1. PICK id \in Ids \cup {None}, p \in Periods, n \in 0 .. MaxPlays : PlaySound(id, p, n)
    BY <1>8
  <2>2. Submit("play_sound", id, p, n) /\ UNCHANGED <<gimbalVars, jointVars>>
    BY <2>1 DEF PlaySound, bodyVars
  <2>3. QED
    BY <1>2, <2>2 DEF gimbalVars, jointVars, GimbalType, JointType
<1>9. CASE \E a \in Angles, id \in Ids \cup {None}, p \in Periods : RoboticArmMoveCtrl(a, id, p)
  <2>1. PICK a \in Angles, id \in Ids \cup {None}, p \in Periods : RoboticArmMoveCtrl(a, id, p)
    BY <1>9
  <2>2. /\ Submit("move_arm", id, p, 0)
        /\ armGoal' = a \/ armGoal' = armGoal
        /\ UNCHANGED <<joint, servoGoal, gimbalVars>>
    BY <2>1 DEF RoboticArmMoveCtrl
  <2>3. QED
    BY <1>2, <2>2 DEF gimbalVars, GimbalType, JointType
<1>10. CASE \E a \in Angles, f \in Frames, id \in Ids \cup {None}, p \in Periods :
              GimbalRotate(a, f, id, p)
  <2>1. PICK a \in Angles, f \in Frames, id \in Ids \cup {None}, p \in Periods :
          GimbalRotate(a, f, id, p)
    BY <1>10
  <2>2. /\ Submit("move_gimbal", id, p, 0)
        /\ wish' = [angle |-> a, frame |-> f] \/ wish' = wish
        /\ UNCHANGED <<jointVars, gimbal, heading, aim>>
    BY <2>1 DEF GimbalRotate
  <2>3. wish' \in [angle : Angles, frame : Frames]
    BY <2>2 DEF GimbalType
  <2>4. QED
    BY <1>2, <2>2, <2>3 DEF jointVars, GimbalType, JointType
<1>11. CASE \E s \in Motors, a \in Angles, id \in Ids \cup {None}, p \in Periods :
              ServoCtrlSet(s, a, id, p)
  <2>1. PICK s \in Motors, a \in Angles, id \in Ids \cup {None}, p \in Periods :
          ServoCtrlSet(s, a, id, p)
    BY <1>11
  <2>2. /\ Submit("move_servo", id, p, 0)
        /\ servoGoal' = IF answer' = "accepted" THEN [servo |-> s, angle |-> a]
                                                ELSE servoGoal
        /\ UNCHANGED <<joint, armGoal, gimbalVars>>
    BY <2>1 DEF ServoCtrlSet
  <2>3. answer' = "accepted" \/ running' = running
    BY <2>2 DEF Submit, Accept, Reject
  <2>4. [servo |-> s, angle |-> a] # None
    BY <2>1, BodyAssumption DEF Angles
  <2>5. QED
    BY <1>2, <2>2, <2>3, <2>4 DEF gimbalVars, GimbalType, JointType
<1>12. CASE \/ \E b \in BOOLEAN : GimbalCtrl(b)
            \/ \E s \in Motors, m \in {"angle", "speed"} : ServoModeSet(s, m)
            \/ \E s \in Motors, b \in BOOLEAN, v \in Rates : ServoControl(s, b, v)
  <2>1. CASE \E b \in BOOLEAN : GimbalCtrl(b)
    <3>1. PICK b \in BOOLEAN : GimbalCtrl(b)
      BY <2>1
    <3> DEFINE r == [joint[Yaw] EXCEPT !.on = b]
    <3>2. r \in JointRec
      BY DEF JointType, JointRec, Joints
    <3>3. joint' = [joint EXCEPT ![Yaw] = r]
      BY <3>1 DEF GimbalCtrl
    <3>4. UNCHANGED <<running, gimbalVars, armGoal, servoGoal>>
      BY <3>1 DEF GimbalCtrl, vars
    <3> HIDE DEF r
    <3>5. QED
      BY <1>5, <3>2, <3>3, <3>4 DEF Joints
  <2>2. CASE \E s \in Motors, m \in {"angle", "speed"} : ServoModeSet(s, m)
    <3>1. PICK s \in Motors, m \in {"angle", "speed"} : ServoModeSet(s, m)
      BY <2>2
    <3> DEFINE r == [joint[s] EXCEPT !.mode = m]
    <3>2. r \in JointRec
      BY DEF JointType, JointRec, Joints
    <3>3. joint' = [joint EXCEPT ![s] = r]
      BY <3>1 DEF ServoModeSet
    <3>4. UNCHANGED <<running, gimbalVars, armGoal, servoGoal>>
      BY <3>1 DEF ServoModeSet, vars
    <3> HIDE DEF r
    <3>5. QED
      BY <1>5, <3>2, <3>3, <3>4 DEF Joints
  <2>3. CASE \E s \in Motors, b \in BOOLEAN, v \in Rates : ServoControl(s, b, v)
    <3>1. PICK s \in Motors, b \in BOOLEAN, v \in Rates : ServoControl(s, b, v)
      BY <2>3
    <3> DEFINE r == Driven(joint[s], b, v)
    <3>2. r \in JointRec
      BY DrivenType, BodyAssumption DEF JointType, Joints, Spins
    <3>3. joint' = [joint EXCEPT ![s] = r]
      BY <3>1 DEF ServoControl
    <3>4. UNCHANGED <<running, gimbalVars, armGoal, servoGoal>>
      BY <3>1 DEF ServoControl, vars
    <3> HIDE DEF r
    <3>5. QED
      BY <1>5, <3>2, <3>3, <3>4 DEF Joints
  <2>4. QED
    BY <1>12, <2>1, <2>2, <2>3
<1>13. CASE \/ \E b \in BOOLEAN : FollowChassis(b)
            \/ \E v \in Rates : GimbalCtrlSpeed(v)
  BY <1>3, <1>4, <1>13
<1>14. QED
  BY <1>6, <1>7, <1>8, <1>9, <1>10, <1>11, <1>12, <1>13 DEF Message

LEMMA ToldType ==
  ASSUME NEW j \in JointRec
  PROVE  Told(j) \in JointRec /\ Told(j).at = j.at
<1>1. CASE ~j.on
  BY <1>1 DEF Told, JointRec
<1>2. CASE j.on /\ j.mode = "speed"
  <2> DEFINE v == IF PassesLimits(j.at, j.speed) THEN 0 ELSE j.speed
  <2>1. v \in Spins
    BY DEF JointRec, Spins
  <2> HIDE DEF v
  <2>2. Told(j) = [j EXCEPT !.onTarget = TRUE, !.modeTarget = "speed", !.speedTarget = v]
    BY <1>2 DEF Told, v
  <2>3. QED
    BY <2>1, <2>2 DEF JointRec
<1>3. CASE j.on /\ j.mode # "speed"
  BY <1>3 DEF Told, JointRec
<1>4. QED
  BY <1>1, <1>2, <1>3

LEMMA DesiredType ==
  ASSUME JointType, NEW at \in [Joints -> Angles],
         NEW w \in [mode : {"angle", "speed"}, speed : Spins], NEW target \in Int
  PROVE  /\ Desired(at, w, target) \in [Joints -> JointRec]
         /\ \A j \in Joints : Desired(at, w, target)[j].at = at[j]
<1> SUFFICES ASSUME NEW j \in Joints
             PROVE  /\ Desired(at, w, target)[j] \in JointRec
                    /\ Desired(at, w, target)[j].at = at[j]
  <2> DEFINE d == Desired(at, w, target)
  <2>1. d = [j \in Joints |-> d[j]]
    BY Zenon DEF Desired
  <2> HIDE DEF d
  <2>2. (\A j \in Joints : d[j] \in JointRec) => d \in [Joints -> JointRec]
    BY <2>1
  <2>3. QED
    BY <2>2 DEF d
<1> DEFINE r == joint[j]
           m == IF j = Yaw THEN w.mode ELSE r.mode
           v == IF j = Yaw /\ w.mode = "speed" THEN w.speed ELSE r.speed
           a == IF j = Yaw THEN (IF w.mode = "angle" THEN target ELSE r.angle)
                ELSE IF Begins("move_servo") /\ servoGoal.servo = j
                  THEN servoGoal.angle
                ELSE IF InSlot("move_arm") THEN armGoal ELSE r.angle
<1>1. Desired(at, w, target)[j] = [r EXCEPT !.at = at[j], !.mode = m, !.speed = v, !.angle = a]
  BY DEF Desired
<1>2. r \in JointRec /\ at[j] \in Angles
  BY DEF JointType
<1>3. m \in {"angle", "speed"} /\ v \in Spins
  BY <1>2 DEF JointRec
<1>4. a \in Int
  <2>1. armGoal \in Int /\ r.angle \in Int
    BY <1>2, BodyAssumption DEF JointType, JointRec, Angles
  <2>2. Begins("move_servo") => servoGoal.angle \in Int
    BY BodyAssumption DEF Begins, JointType, Angles
  <2>3. QED
    BY <2>1, <2>2
<1> HIDE DEF r, m, v, a
<1>5. QED
  BY <1>1, <1>2, <1>3, <1>4 DEF JointRec

LEMMA WantedType ==
  ASSUME NEW g \in GimbalRec, NEW h, NEW s
  PROVE  Wanted(g, h, s) \in [mode : {"angle", "speed"}, speed : Spins]
<1>1. Sign(g.target - s - h) \in Spins
  BY DEF Sign, Spins
<1>2. QED
  BY <1>1 DEF Wanted, GimbalRec, Spins

(* At the end of the servo's range the gimbal gives up its speed or its    *)
(* target, and nothing else.                                               *)
LEMMA LimitedType ==
  ASSUME NEW g \in GimbalRec, NEW h \in Int, NEW s \in Int
  PROVE  /\ Limited(g, h, s) \in GimbalRec
         /\ Limited(g, h, s).mode = g.mode
         /\ Limited(g, h, s).following = g.following
         /\ Limited(g, h, s).performing = g.performing
         /\ Limited(g, h, s).frame = g.frame
<1> DEFINE w == Wanted(g, h, s)
           c == w.mode = "angle" \/ ~PassesLimits(s, w.speed)
<1>1. Limited(g, h, s) = IF c THEN g
        ELSE IF g.mode = "velocity" THEN [g EXCEPT !.spin = 0]
        ELSE [g EXCEPT !.target = s + h]
  BY DEF Limited
<1> HIDE DEF c
<1>2. s + h \in Int /\ 0 \in Spins
  BY DEF Spins
<1>3. QED
  BY <1>1, <1>2 DEF GimbalRec

(* The first step of the gimbal's action sets the goal, others keep it.    *)
LEMMA AimedType ==
  ASSUME GimbalType, NEW s \in Int
  PROVE  /\ Aimed(s) \in GimbalRec
         /\ Begins("move_gimbal") =>
              /\ Aimed(s).mode = "attitude" /\ Aimed(s).performing
              /\ Aimed(s).frame = "fixed"
         /\ ~Begins("move_gimbal") => Aimed(s) = gimbal
<1>1. Resolved(s) \in Int
  BY BodyAssumption DEF Resolved, GimbalType, Angles
<1>2. QED
  BY <1>1 DEF Aimed, GimbalType, GimbalRec, Spins

(* When the action has ended the gimbal looks where it is, in its frame.   *)
LEMMA EndedType ==
  ASSUME GimbalType, NEW g \in GimbalRec, NEW s \in Int
  PROVE  /\ Ended(g, s) \in GimbalRec
         /\ ~Ended(g, s).performing
         /\ Ended(g, s).frame = IF Ended(g, s).following THEN "chassis" ELSE "fixed"
<1> DEFINE f == IF g.following THEN "chassis" ELSE "fixed"
<1>1. Attitude(s, f) \in Int
  BY BodyAssumption DEF Attitude, GimbalType
<1>2. HoldStill(g, s) = [g EXCEPT !.target = Attitude(s, f), !.frame = f]
  BY DEF HoldStill
<1> DEFINE k == HoldStill(g, s)
<1>3. k \in GimbalRec /\ k.following = g.following /\ k.frame = f
  BY <1>1, <1>2 DEF GimbalRec
<1>4. Ended(g, s) = [k EXCEPT !.performing = FALSE]
  BY DEF Ended
<1> HIDE DEF k
<1>5. QED
  BY <1>3, <1>4 DEF GimbalRec

(* A step keeps the invariant; the gimbal's action ends where it went.     *)
LEMMA MotionStep ==
  ASSUME RobotInv, MotionInv, NEW h \in Headings, NEW at \in [Joints -> Angles],
         NEW moved, BodyStepWith(h, at, moved)
  PROVE  /\ MotionInv'
         /\ InSlot("move_gimbal") /\ ~InSlot("move_gimbal")' /\ ~aim'.lost =>
              joint'[Yaw].at + heading = aim'.at
<1> DEFINE s == at[Yaw]
           A == Aimed(s)
           g == Steered(s)
           arriving == {k \in Kinds : ~Empty(k) /\ Reached(k, h, at, moved)}
           here == InSlot("move_gimbal")
           far == Distance(A, s)
           turned == g.performing /\ gimbal'.target # g.target
<1>1. s \in Int /\ h \in Int /\ s \in Angles
  BY BodyAssumption DEF Joints, Angles
<1>2. GimbalType /\ JointType /\ FrameInv /\ AimInv
  BY DEF MotionInv
<1>3. /\ A \in GimbalRec
      /\ Begins("move_gimbal") => A.mode = "attitude" /\ A.performing /\ A.frame = "fixed"
      /\ ~Begins("move_gimbal") => A = gimbal
  BY <1>1, <1>2, AimedType
<1>4. g = IF here /\ ~far THEN Ended(A, s) ELSE A
  BY DEF Steered
<1>5. /\ g \in GimbalRec
      /\ here /\ ~far => /\ ~g.performing
                         /\ g.frame = IF g.following THEN "chassis" ELSE "fixed"
  <2>1. /\ Ended(A, s) \in GimbalRec
        /\ ~Ended(A, s).performing
        /\ Ended(A, s).frame = IF Ended(A, s).following THEN "chassis" ELSE "fixed"
    BY <1>1, <1>2, <1>3, EndedType
  <2> HIDE DEF A, g, far, here
  <2>2. QED
    BY <2>1, <1>3, <1>4
<1>6. /\ gimbal' = Limited(g, h, s) /\ heading' = h
      /\ aim' = IF ~here THEN NoAim
                ELSE IF Begins("move_gimbal")
                  THEN [at |-> A.target, lost |-> turned]
                ELSE [at |-> aim.at, lost |-> aim.lost \/ turned]
      /\ wish' = IF Begins("move_gimbal") THEN NoWish ELSE wish
  BY DEF BodyStepWith, GimbalStep
<1>7. /\ gimbal' \in GimbalRec
      /\ gimbal'.mode = g.mode /\ gimbal'.following = g.following
      /\ gimbal'.performing = g.performing /\ gimbal'.frame = g.frame
  BY <1>1, <1>5, <1>6, LimitedType
<1>8. /\ InSlot("move_gimbal")' <=> here /\ far
      /\ InSlot("move_gimbal")' => running'["move_gimbal"].state # "started"
  <2>1. StepWith(arriving)
    BY DEF BodyStepWith
  <2>2. here => ("move_gimbal" \in arriving <=> ~far)
    BY DEF InSlot, Reached
  <2>3. CASE "move_gimbal" \in Kinds
    <3> HIDE DEF arriving, far
    <3>1. QED
      BY <2>1, <2>2, <2>3, SlotAfterStep
  <2>4. CASE "move_gimbal" \notin Kinds
    BY <2>4 DEF InSlot
  <2>5. QED
    BY <2>3, <2>4
<1>9. GimbalType'
  <2>1. aim' \in [at : Int, lost : BOOLEAN]
    <3> HIDE DEF A, g, here
    <3>1. QED
      BY <1>2, <1>3, <1>6 DEF GimbalType, NoAim, GimbalRec
  <2>2. wish' \in [angle : Angles, frame : Frames]
    BY <1>2, <1>6, BodyAssumption DEF GimbalType, NoWish, Angles, Frames
  <2>3. QED
    BY <1>6, <1>7, <2>1, <2>2 DEF GimbalType
<1>10. /\ JointType'
       /\ joint'[Yaw].at = s
  <2> DEFINE W == Want(h, at)
  <2>1. Wanted(g, h, s) \in [mode : {"angle", "speed"}, speed : Spins]
    BY <1>5, WantedType
  <2>2. W = Desired(at, Wanted(g, h, s), g.target)
    BY DEF Want
  <2>3. g.target \in Int
    BY <1>5 DEF GimbalRec
  <2>4. W \in [Joints -> JointRec] /\ \A j \in Joints : W[j].at = at[j]
    <3> HIDE DEF g, W
    <3>1. QED
      BY <1>2, <2>1, <2>2, <2>3, DesiredType
  <2>5. joint' = [j \in Joints |-> Told(W[j])]
    BY DEF BodyStepWith
  <2> HIDE DEF W
  <2>6. \A j \in Joints : Told(W[j]) \in JointRec /\ Told(W[j]).at = at[j]
    BY <2>4, ToldType
  <2>7. joint' \in [Joints -> JointRec] /\ joint'[Yaw].at = s
    BY <2>5, <2>6 DEF Joints
  <2>8. UNCHANGED <<armGoal, servoGoal>>
    BY DEF BodyStepWith
  <2>9. InSlot("move_servo")' => InSlot("move_servo")
    BY DEF BodyStepWith, StepWith, InSlot, Empty
  <2>10. QED
    BY <1>2, <2>7, <2>8, <2>9 DEF JointType
<1> HIDE DEF A, g, far, here, arriving
<1>11. FrameInv'
  <2>1. here => InSlot("move_gimbal")
    BY DEF here
  <2>2. Begins("move_gimbal") => here
    BY DEF Begins, here
  <2>3. gimbal.performing => here
    BY <1>2 DEF FrameInv, here
  <2>4. gimbal'.performing => InSlot("move_gimbal")'
    BY <1>3, <1>4, <1>5, <1>7, <1>8, <2>2, <2>3
  <2>5. ASSUME gimbal'.mode = "attitude"
        PROVE  \/ gimbal'.frame = IF gimbal'.following /\ ~gimbal'.performing
                                    THEN "chassis" ELSE "fixed"
               \/ aim'.lost /\ gimbal'.performing
    <3>1. CASE here /\ ~far
      BY <1>5, <1>7, <3>1
    <3>2. CASE ~(here /\ ~far) /\ Begins("move_gimbal")
      BY <1>3, <1>4, <1>7, <3>2
    <3>3. CASE ~(here /\ ~far) /\ ~Begins("move_gimbal")
      <4>1. g = gimbal
        BY <1>3, <1>4, <3>3
      <4>2. gimbal.performing => (aim.lost => aim'.lost)
        BY <1>6, <2>3, <3>3
      <4>3. QED
        BY <1>2, <1>7, <2>5, <4>1, <4>2 DEF FrameInv
    <3>4. QED
      BY <3>1, <3>2, <3>3
  <2>6. QED
    BY <2>4, <2>5 DEF FrameInv
<1>12. AimInv'
  <2> SUFFICES ASSUME InSlot("move_gimbal")', ~aim'.lost
               PROVE  /\ gimbal'.performing /\ gimbal'.mode = "attitude"
                      /\ gimbal'.target = aim'.at
    BY DEF AimInv
  <2>1. here /\ far /\ g = A
    BY <1>4, <1>8
  <2>2. CASE Begins("move_gimbal")
    BY <1>3, <1>6, <1>7, <2>1, <2>2
  <2>3. CASE ~Begins("move_gimbal")
    <3>1. running["move_gimbal"].state # "started"
      BY <2>1, <2>3 DEF Begins, here
    <3>2. aim' = [at |-> aim.at, lost |-> aim.lost \/ turned]
      BY <1>6, <2>1, <2>3
    <3>3. gimbal.performing /\ gimbal.mode = "attitude" /\ gimbal.target = aim.at
      BY <1>2, <2>1, <3>1, <3>2 DEF AimInv, here
    <3>4. QED
      BY <1>3, <1>7, <2>1, <2>3, <3>2, <3>3
  <2>4. QED
    BY <2>2, <2>3
<1>13. here /\ ~InSlot("move_gimbal")' /\ ~aim'.lost => s + heading = aim'.at
  <2> SUFFICES ASSUME here, ~far, ~aim'.lost
               PROVE  s + heading = aim'.at
    BY <1>6, <1>8
  <2>1. A.performing /\ A.mode = "attitude" /\ A.target = aim'.at
    <3>1. CASE Begins("move_gimbal")
      BY <1>3, <1>6, <3>1
    <3>2. CASE ~Begins("move_gimbal")
      <4>1. running["move_gimbal"].state # "started"
        BY <3>2 DEF Begins, here
      <4>2. aim' = [at |-> aim.at, lost |-> aim.lost \/ turned]
        BY <1>6, <3>2
      <4>3. QED
        BY <1>2, <1>3, <3>2, <4>1, <4>2 DEF AimInv, here
    <3>3. QED
      BY <3>1, <3>2
  <2>2. A.target = Attitude(s, "fixed")
    BY <2>1 DEF far, Distance
  <2>3. QED
    BY <2>1, <2>2 DEF Attitude
<1>14. QED
  BY <1>9, <1>10, <1>11, <1>12, <1>13 DEF MotionInv, here

LEMMA MotionInit == BodyInit => MotionInv
<1> SUFFICES ASSUME BodyInit PROVE MotionInv
  OBVIOUS
<1>1. /\ gimbal = [mode |-> "attitude", following |-> FALSE, performing |-> FALSE,
                   target |-> 0, spin |-> 0, frame |-> "fixed"]
      /\ heading = 0 /\ wish = NoWish /\ aim = NoAim
      /\ joint = [j \in Joints |-> AtRest] /\ armGoal = 0 /\ servoGoal = None
      /\ \A k \in Kinds : Empty(k)
  BY DEF BodyInit, Init, Empty
<1>2. 0 \in Angles /\ 0 \in Headings
  BY BodyAssumption DEF Angles
<1>3. GimbalType
  BY <1>1, <1>2 DEF GimbalType, GimbalRec, Spins, NoWish, NoAim, Frames
<1>4. AtRest \in JointRec
  BY <1>2 DEF AtRest, JointRec, Spins
<1>5. JointType
  BY <1>1, <1>2, <1>4 DEF JointType, InSlot
<1>6. FrameInv /\ AimInv
  BY <1>1 DEF FrameInv, AimInv, InSlot
<1>7. QED
  BY <1>3, <1>5, <1>6 DEF MotionInv

LEMMA MotionNext ==
  ASSUME RobotInv, MotionInv, [BodyNext]_allVars
  PROVE  /\ MotionInv'
         /\ InSlot("move_gimbal") /\ ~InSlot("move_gimbal")' /\ ~aim'.lost =>
              joint'[Yaw].at + heading = aim'.at
<1>1. CASE Message
  BY <1>1, MotionMessage
<1>2. CASE BodyStep
  BY <1>2, MotionStep DEF BodyStep
<1>3. CASE UNCHANGED allVars
  <2>1. UNCHANGED <<running, gimbal, heading, wish, aim, joint, armGoal, servoGoal>>
    BY <1>3 DEF allVars, vars, bodyVars, gimbalVars, jointVars
  <2>2. QED
    BY <2>1 DEF MotionInv, GimbalType, JointType, FrameInv, AimInv, InSlot, Empty
<1>4. QED
  BY <1>1, <1>2, <1>3 DEF BodyNext

(* The gimbal's target stays in the frame it was meant in, for every range *)
(* of the joints and every turn of the chassis (gimbal.hpp:118-141).       *)
THEOREM TargetsKeepTheirFrame == BodySpec => []TargetKeepsItsFrame
<1>1. RobotInv /\ MotionInv /\ [BodyNext]_allVars => MotionInv'
  BY MotionNext
<1>2. MotionInv => TargetKeepsItsFrame
  BY DEF MotionInv, FrameInv, TargetKeepsItsFrame
<1>3. QED
  BY <1>1, <1>2, MotionInit, BodyRobotInv, PTL DEF BodySpec

(* A gimbal's action that succeeds looks where it was asked to, but for    *)
(* the turn of the chassis in the very step that ends it, for every range  *)
(* of the joints and whatever the chassis did before (action.cpp:110-141,  *)
(* gimbal.cpp:6).                                                          *)
THEOREM GimbalMovesReach == BodySpec => GimbalMoveReaches
<1>1. RobotInv /\ MotionInv /\ [BodyNext]_allVars =>
        /\ MotionInv'
        /\ [InSlot("move_gimbal") /\ ~InSlot("move_gimbal")' /\ ~aim'.lost =>
              joint'[Yaw].at + heading' - aim'.at = heading' - heading]_allVars
  <2> SUFFICES ASSUME RobotInv, MotionInv, [BodyNext]_allVars
               PROVE  /\ MotionInv'
                      /\ InSlot("move_gimbal") /\ ~InSlot("move_gimbal")' /\ ~aim'.lost =>
                           joint'[Yaw].at + heading' - aim'.at = heading' - heading
    OBVIOUS
  <2>1. /\ MotionInv'
        /\ InSlot("move_gimbal") /\ ~InSlot("move_gimbal")' /\ ~aim'.lost =>
             joint'[Yaw].at + heading = aim'.at
    BY MotionNext
  <2>2. joint'[Yaw].at \in Int /\ heading \in Int /\ heading' \in Int
    BY <2>1, BodyAssumption
       DEF MotionInv, GimbalType, JointType, JointRec, Joints, Angles
  <2>3. QED
    BY <2>1, <2>2
<1>2. QED
  BY <1>1, MotionInit, BodyRobotInv, PTL DEF BodySpec, GimbalMoveReaches

LEMMA UsesAreFixed ==
  ASSUME [BodyNext]_allVars
  PROVE  uses' = uses
<1>1. CASE Message
  <2>1. Message => uses' = uses
    BY Zenon DEF Message, SetTargetVelocity, EngageWheelMotors, PositionMove,
       PlaySound, FollowChassis, GimbalCtrl, GimbalCtrlSpeed, GimbalRotate,
       ServoModeSet, ServoControl, ServoCtrlSet, RoboticArmMoveCtrl,
       GripperCtrl, bodyVars
  <2>2. QED
    BY <1>1, <2>1
<1>2. CASE BodyStep
  BY <1>2 DEF BodyStep, BodyStepWith
<1>3. CASE UNCHANGED allVars
  BY <1>3 DEF allVars, bodyVars
<1>4. QED
  BY <1>1, <1>2, <1>3 DEF BodyNext

(* Every variable of the body keeps its type, through every message and    *)
(* every step (robot.hpp:60-260, action.hpp:30-200).                       *)
THEOREM BodyTypes == BodySpec => []BodyTypeOK
<1> DEFINE I == /\ MotionInv /\ LedTypeOK /\ LedInv /\ GripType /\ GripInv
                /\ WheelType /\ WheelInv /\ uses \in Uses
<1>1. BodyInit => I
  <2> SUFFICES ASSUME BodyInit PROVE I
    OBVIOUS
  <2>1. LedTypeOK /\ LedInv
    BY DEF BodyInit, LedInit, LedTypeOK, LedInv, Static, Effects, Shades, Dark
  <2>2. GripType /\ GripInv
    BY BodyAssumption DEF BodyInit, GripType, GripInv, GripStates
  <2>3. wheels = [desired |-> 0, target |-> 0] /\ engaged = TRUE /\ standby = FALSE
        /\ uses \in Uses
    BY DEF BodyInit
  <2>4. WheelType /\ WheelInv
    BY <2>3, BodyAssumption DEF WheelType, WheelInv
  <2>5. QED
    BY <2>1, <2>2, <2>3, <2>4, MotionInit
<1>2. RobotInv /\ I /\ [BodyNext]_allVars => I'
  <2> SUFFICES ASSUME RobotInv, I, [BodyNext]_allVars PROVE I'
    OBVIOUS
  <2>1. MotionInv'
    BY MotionNext
  <2>2. LedTypeOK' /\ LedInv'
    BY LedInvStep
  <2>3. GripType' /\ GripInv' /\ WheelType' /\ WheelInv'
    BY GripStep, WheelStep
  <2>4. uses' = uses
    BY UsesAreFixed
  <2>5. QED
    BY <2>1, <2>2, <2>3, <2>4
<1>3. RobotInv /\ I => BodyTypeOK
  BY DEF RobotInv, MotionInv, GimbalType, GimbalRec, JointType, JointRec,
         GripType, WheelType, BodyTypeOK
<1>4. QED
  BY <1>1, <1>2, <1>3, BodyRobotInv, PTL DEF BodySpec

=============================================================================
