-------------------------- MODULE DriverSessionProofs --------------------------
(***************************************************************************)
(* Proofs about DriverActions and DriverSession, for every set of goals,   *)
(* modules and loads.                                                      *)
(*                                                                         *)
(* First the facts about goals that need no session: a goal that met no    *)
(* other on its server is alone with the slot of its module.  From Track   *)
(* (or Acquire) on self.action is its own action, and nobody else can      *)
(* clear or replace it; and a success read from an action was told by the  *)
(* robot.                                                                  *)
(*                                                                         *)
(* Then the session: after Ctrl-C the main loop never gets to a new node,  *)
(* for it is either stopped by the handler, or finds the context shut      *)
(* down.  And while an action that abort() found has not ended, the frame  *)
(* that aborts waits for its module, whose slot the action keeps.          *)
(***************************************************************************)
EXTENDS DriverSession, TLAPS

(* A goal whose action is not created yet, in a state r.                   *)
Early(r) ==
  \/ r.at \in {"none", "task", "check", "create", "lock"}
  \/ r.at = "track" /\ r.module[2] = "gripper"

(* A goal that has taken the slot, in a state r.                           *)
Late(r) ==
  \/ r.at \in {"wait", "quit", "report"}
  \/ r.at = "track" /\ r.module[2] = "gripper"

(* Before its action is created, nothing happened to a goal.               *)
Fresh ==
  \A g \in Goals : Early(job[g]) =>
    job[g].sdk = "running" /\ ~job[g].woke /\ robot[g] = "idle"

(* A goal has a module from the moment it was accepted. *)
Placed ==
  \A g \in Goals :
    /\ Active(g) => job[g].module \in Modules
    /\ job[g].at = "none" <=> job[g].goal = "none"
    /\ job[g].goal \in {"executing", "canceling"} <=> Active(g)

(* A slot holds an action of its own module, whose creation is over.       *)
Slotted ==
  \A m \in Modules : tracked[m] # None =>
    /\ job[tracked[m]].module = m
    /\ Late(job[tracked[m]]) \/ job[tracked[m]].at = "over"

(* Two active goals of a module are in the crowd. *)
Apart ==
  \A g \in Goals, o \in Goals :
    Active(g) /\ Active(o) /\ job[g].module = job[o].module /\ g # o =>
      g \in crowd

(* A goal that is alone has the slot while it waits. *)
Own ==
  \A g \in Goals \ crowd : Late(job[g]) => tracked[job[g].module] = g

(* What reads as a success was told by the robot, or is the PAUSE that a   *)
(* silent gripper is taken to be in.                                       *)
Told(r, told, quiet) == r.sdk = "succeeded" => told = "done" \/ quiet

(* Only an action that was sent is in the SDK's dispatcher, and the        *)
(* gripper has none, nor a task that stops it.                             *)
Sent ==
  /\ \A g \in pending : ~Early(job[g]) /\ job[g].module[2] # "gripper"
  /\ \A m \in stopping : m[2] # "gripper"

JobInv ==
  /\ JobTypeOK /\ Fresh /\ Placed /\ Slotted /\ Apart /\ Own /\ Sent
  /\ \A g \in Goals : Told(job[g], robot[g], g \in mute)
  /\ SuccessIsTheRobots

JobStep ==
  \/ \E g \in Goals, m \in Modules : NewGoal(g, m)
  \/ \E g \in Goals : Cancel(g) \/ Dispatch(g)
  \/ \E m \in Modules : StopAction(m) \/ AbortModule(m)
  \/ \E g \in Goals, fine \in BOOLEAN : Execute(g, fine)
  \/ \E g \in Goals : \E s \in {"running", "succeeded", "failed"} : Push(g, s)
  \/ \E g \in Goals : Silence(g)

(* A goal that is alone keeps the slot it has taken until it is answered,  *)
(* and is answered once.                                                   *)
LateStays ==
  /\ \A g \in Goals : job[g].at = "over" => job'[g].at = "over"
  /\ \A g \in Goals \ crowd : Late(job[g]) =>
       /\ g \notin crowd' /\ job'[g].module = job[g].module
       /\ Late(job'[g]) \/ job'[g].at = "over"

----------------------------------------------------------------------------
LEMMA JobInitHolds == JobInit => JobInv
<1> SUFFICES ASSUME JobInit PROVE JobInv
  OBVIOUS
<1> USE DriverAssumption DEF JobInit
<1>1. JobTypeOK
  BY DEF JobTypeOK, Jobs, Places, Answers
<1>2. /\ Fresh /\ Placed /\ Slotted /\ Apart /\ Own /\ Sent
      /\ SuccessIsTheRobots
  BY DEF Fresh, Placed, Slotted, Apart, Own, Sent, SuccessIsTheRobots, Active,
         Late
<1>3. \A g \in Goals : Told(job[g], robot[g], g \in mute)
  BY DEF Told
<1>4. QED
  BY <1>1, <1>2, <1>3 DEF JobInv

LEMMA JobStutters == JobInv /\ UNCHANGED jobVars => JobInv' /\ LateStays
BY DEF jobVars, JobInv, JobTypeOK, Fresh, Placed, Slotted, Apart, Own, Sent,
       Told, SuccessIsTheRobots, Active, Early, Late, LateStays, Modules

(* A step that changes one goal only, and what the robot is at for it.     *)
Only(g) ==
  /\ \A o \in Goals \ {g} :
       job'[o] = job[o] /\ robot'[o] = robot[o] /\ (o \in mute' <=> o \in mute)
  /\ UNCHANGED <<tracked, crowd>>
  /\ pending' \subseteq pending \cup {g}
  /\ \A m \in stopping' : m[2] # "gripper"

(* It does not take the goal back to where it had no slot, nor to where it *)
(* takes one, and a success was told by the robot.                         *)
Lawful(g) ==
  LET r == job'[g]
  IN  /\ r.module = job[g].module
      /\ r.at # "none" /\ r.goal # "none"
      /\ r.at # "over" => Active(g)
      /\ r.goal \in {"executing", "canceling"} <=> r.at # "over"
      /\ Early(r) => /\ r.sdk = "running" /\ ~r.woke
                     /\ robot'[g] = "idle"
      /\ Late(r) => Late(job[g])
      /\ Late(job[g]) => Late(r) \/ r.at = "over"
      /\ g \in pending' => ~Early(r) /\ r.module[2] # "gripper"
      /\ Told(r, robot'[g], g \in mute')
      /\ g \notin crowd /\ r.goal = "succeeded" =>
           robot'[g] = "done" \/ g \in mute'

LEMMA OneGoalMoves ==
  ASSUME JobInv, NEW g \in Goals, JobTypeOK', Only(g), Lawful(g)
  PROVE  JobInv' /\ LateStays
<1> USE DEF JobInv, Only
<1>1. Fresh'
  BY DEF Fresh, Lawful
<1>2. Placed'
  BY DEF Placed, Active, Lawful
<1>3. Slotted'
  BY DEF Slotted, JobTypeOK, Lawful, Active, Late
<1>4. Apart'
  BY DEF Apart, Active, Lawful
<1>5. Own'
  BY DEF Own, Lawful
<1>6. \A o \in Goals : Told(job'[o], robot'[o], o \in mute')
  BY DEF Lawful
<1>7. SuccessIsTheRobots'
  BY DEF SuccessIsTheRobots, Lawful
<1>8. Sent'
  BY DEF Sent, Lawful, JobTypeOK
<1>9. LateStays
  BY DEF LateStays, Lawful, Active
<1>10. QED
  BY <1>1, <1>2, <1>3, <1>4, <1>5, <1>6, <1>7, <1>8, <1>9

----------------------------------------------------------------------------
(* What Goes() and Ends() change. *)
LEMMA GoesMoves ==
  ASSUME JobTypeOK, NEW g \in Goals, NEW place \in Places, Goes(g, place)
  PROVE  /\ job' \in [Goals -> Jobs]
         /\ \A o \in Goals \ {g} : job'[o] = job[o]
         /\ job'[g].module = job[g].module /\ job'[g].goal = job[g].goal
         /\ job'[g].sdk = job[g].sdk /\ job'[g].woke = job[g].woke
         /\ job'[g].at = place
<1> DEFINE q == [job[g] EXCEPT !.at = place, !.heard = FALSE]
<1>1. job \in [Goals -> Jobs] /\ job[g] \in Jobs /\ job' = [job EXCEPT ![g] = q]
  BY DEF JobTypeOK, Goes
<1>2. /\ q \in Jobs /\ q.at = place
      /\ q.module = job[g].module /\ q.goal = job[g].goal
      /\ q.sdk = job[g].sdk /\ q.woke = job[g].woke
  BY <1>1 DEF Jobs
<1> HIDE DEF q
<1>3. QED
  BY <1>1, <1>2

LEMMA EndsMoves ==
  ASSUME JobTypeOK, NEW g \in Goals, NEW s \in Answers, Ends(g, s)
  PROVE  /\ job' \in [Goals -> Jobs]
         /\ \A o \in Goals \ {g} : job'[o] = job[o]
         /\ job'[g].module = job[g].module /\ job'[g].sdk = job[g].sdk
         /\ job'[g].woke = job[g].woke
         /\ job'[g].at = "over" /\ job'[g].goal = s
<1> DEFINE q == [job[g] EXCEPT !.at = "over", !.goal = s]
<1>1. job \in [Goals -> Jobs] /\ job[g] \in Jobs /\ job' = [job EXCEPT ![g] = q]
  BY DEF JobTypeOK, Ends
<1>2. /\ q \in Jobs /\ q.at = "over" /\ q.goal = s
      /\ q.module = job[g].module /\ q.sdk = job[g].sdk /\ q.woke = job[g].woke
  BY <1>1 DEF Jobs, Places
<1> HIDE DEF q
<1>3. QED
  BY <1>1, <1>2

----------------------------------------------------------------------------
(* The steps that move one goal. *)

LEMMA SilencePreserves ==
  ASSUME JobInv, NEW g \in Goals, Silence(g)
  PROVE  JobInv' /\ LateStays
<1> USE DEF JobInv
<1>1. /\ JobTypeOK' /\ Only(g) /\ robot[g] = "busy"
      /\ job' = job /\ robot'[g] = "idle"
      /\ UNCHANGED <<pending, crowd, mute>>
  BY DEF Silence, JobTypeOK, Only, Sent, Modules
<1>2. Lawful(g)
  BY <1>1 DEF Lawful, Fresh, Placed, Sent, Early, Active, Told,
              SuccessIsTheRobots
<1>3. QED
  BY <1>1, <1>2, OneGoalMoves

LEMMA DispatchPreserves ==
  ASSUME JobInv, NEW g \in Goals, Dispatch(g)
  PROVE  JobInv' /\ LateStays
<1> USE DEF JobInv
<1> DEFINE place == IF Kind(g) \in Rechecks THEN "check" ELSE "create"
<1>1. /\ robot' = robot /\ job[g].at = "task"
      /\ UNCHANGED <<pending, tracked, flag, stopping, crowd, mute>>
      /\ Goes(g, place)
  BY DEF Dispatch
<1>2. place \in {"check", "create"}
  OBVIOUS
<1> HIDE DEF place
<1>3. /\ job' \in [Goals -> Jobs]
      /\ \A o \in Goals \ {g} : job'[o] = job[o]
      /\ job'[g].module = job[g].module /\ job'[g].sdk = job[g].sdk
      /\ job'[g].woke = job[g].woke
      /\ job'[g].at = place /\ job'[g].goal = job[g].goal
  BY <1>1, <1>2, GoesMoves DEF Places
<1>4. JobTypeOK' /\ Only(g)
  BY <1>1, <1>3 DEF JobTypeOK, Only, Sent, Modules
<1>5. Lawful(g)
  BY <1>1, <1>2, <1>3 DEF Lawful, Fresh, Placed, Sent, Early, Late, Active, Told
<1>6. QED
  BY <1>4, <1>5, OneGoalMoves

LEMMA QueuePreserves ==
  ASSUME JobInv, NEW g \in Goals, Queue(g)
  PROVE  JobInv' /\ LateStays
<1> USE DEF JobInv
<1>1. /\ robot' = robot /\ job[g].at = "create"
      /\ UNCHANGED <<pending, tracked, flag, stopping, crowd, mute>>
      /\ Goes(g, "lock")
  BY DEF Queue
<1>2. /\ job' \in [Goals -> Jobs]
      /\ \A o \in Goals \ {g} : job'[o] = job[o]
      /\ job'[g].module = job[g].module /\ job'[g].sdk = job[g].sdk
      /\ job'[g].woke = job[g].woke
      /\ job'[g].at = "lock" /\ job'[g].goal = job[g].goal
  BY <1>1, GoesMoves DEF Places
<1>3. JobTypeOK' /\ Only(g)
  BY <1>1, <1>2 DEF JobTypeOK, Only, Sent, Modules
<1>4. Lawful(g)
  BY <1>1, <1>2 DEF Lawful, Fresh, Placed, Sent, Early, Late, Active, Told
<1>5. QED
  BY <1>3, <1>4, OneGoalMoves

LEMMA CheckPreserves ==
  ASSUME JobInv, NEW g \in Goals, Check(g)
  PROVE  JobInv' /\ LateStays
<1> USE DEF JobInv
<1>1. /\ robot' = robot /\ job[g].at = "check"
      /\ UNCHANGED <<pending, tracked, flag, stopping, crowd, mute>>
      /\ Goes(g, "create") \/ Ends(g, "aborted")
  BY DEF Check
<1>2. /\ job' \in [Goals -> Jobs]
      /\ \A o \in Goals \ {g} : job'[o] = job[o]
      /\ job'[g].module = job[g].module /\ job'[g].sdk = job[g].sdk
      /\ job'[g].woke = job[g].woke
      /\ \/ job'[g].at = "create" /\ job'[g].goal = job[g].goal
         \/ job'[g].at = "over" /\ job'[g].goal = "aborted"
  BY <1>1, GoesMoves, EndsMoves DEF Places, Answers
<1>3. JobTypeOK' /\ Only(g)
  BY <1>1, <1>2 DEF JobTypeOK, Only, Sent, Modules
<1>4. Lawful(g)
  BY <1>1, <1>2 DEF Lawful, Fresh, Placed, Sent, Early, Late, Active, Told
<1>5. QED
  BY <1>3, <1>4, OneGoalMoves

LEMMA SucceedAtOncePreserves ==
  ASSUME JobInv, NEW g \in Goals, SucceedAtOnce(g)
  PROVE  JobInv' /\ LateStays
<1> USE DEF JobInv
<1>1. /\ robot' = [robot EXCEPT ![g] = "done"] /\ job[g].at = "create"
      /\ UNCHANGED <<pending, tracked, flag, stopping, crowd, mute>>
      /\ Ends(g, "succeeded")
  BY DEF SucceedAtOnce
<1>2. /\ job' \in [Goals -> Jobs]
      /\ \A o \in Goals \ {g} : job'[o] = job[o]
      /\ job'[g].module = job[g].module
      /\ job'[g].at = "over" /\ job'[g].goal = "succeeded"
  BY <1>1, EndsMoves DEF Answers
<1>3. JobTypeOK' /\ Only(g) /\ robot'[g] = "done"
  BY <1>1, <1>2 DEF JobTypeOK, Only, Sent, Modules
<1>4. Lawful(g)
  BY <1>1, <1>2, <1>3
     DEF Lawful, Placed, Sent, Early, Late, Active, Told
<1>5. QED
  BY <1>3, <1>4, OneGoalMoves

LEMMA CreatePreserves ==
  ASSUME JobInv, NEW g \in Goals, Create(g)
  PROVE  JobInv' /\ LateStays
<1> USE DEF JobInv
<1>1. /\ job[g].at = "create" /\ Kind(g) # "gripper"
      /\ UNCHANGED <<tracked, flag, stopping, crowd, mute>>
  BY DEF Create
<1>2. CASE /\ pending' = pending \cup {g}
           /\ robot' = [robot EXCEPT ![g] = "busy"]
           /\ Goes(g, "track")
  <2>1. /\ job' \in [Goals -> Jobs]
        /\ \A o \in Goals \ {g} : job'[o] = job[o]
        /\ job'[g].module = job[g].module /\ job'[g].sdk = job[g].sdk
        /\ job'[g].woke = job[g].woke
        /\ job'[g].at = "track" /\ job'[g].goal = job[g].goal
    BY <1>2, GoesMoves DEF Places
  <2>2. JobTypeOK' /\ Only(g) /\ robot'[g] = "busy"
    BY <1>1, <1>2, <2>1 DEF JobTypeOK, Only, Sent, Modules
  <2>3. Lawful(g)
    BY <1>1, <1>2, <2>1, <2>2
       DEF Lawful, Fresh, Placed, Sent, Early, Late, Active, Told, Kind
  <2>4. QED
    BY <2>2, <2>3, OneGoalMoves
<1>3. CASE pending' \subseteq pending /\ UNCHANGED <<job, robot>>
  <2>1. JobTypeOK' /\ Only(g)
    BY <1>1, <1>3 DEF JobTypeOK, Only, Sent, Modules
  <2>2. Lawful(g)
    BY <1>1, <1>3
       DEF Lawful, Fresh, Placed, Sent, Early, Late, Active, Told
  <2>3. QED
    BY <2>1, <2>2, OneGoalMoves
<1>4. CASE Ends(g, "aborted") /\ UNCHANGED <<pending, robot>>
  <2>1. /\ job' \in [Goals -> Jobs]
        /\ \A o \in Goals \ {g} : job'[o] = job[o]
        /\ job'[g].module = job[g].module /\ job'[g].sdk = job[g].sdk
        /\ job'[g].at = "over" /\ job'[g].goal = "aborted"
    BY <1>4, EndsMoves DEF Answers
  <2>2. JobTypeOK' /\ Only(g)
    BY <1>1, <1>4, <2>1 DEF JobTypeOK, Only, Sent, Modules
  <2>3. Lawful(g)
    BY <1>1, <1>4, <2>1
       DEF Lawful, Placed, Sent, Early, Late, Active, Told
  <2>4. QED
    BY <2>2, <2>3, OneGoalMoves
<1>5. QED
  BY <1>2, <1>3, <1>4 DEF Create

LEMMA GripPreserves ==
  ASSUME JobInv, NEW g \in Goals, Grip(g)
  PROVE  JobInv' /\ LateStays
<1> USE DEF JobInv
<1>1. /\ job[g].at = "track" /\ Kind(g) = "gripper" /\ job[g] \in Jobs
      /\ robot' = [robot EXCEPT ![g] = "busy"]
      /\ flag' \subseteq flag
      /\ UNCHANGED <<pending, tracked, stopping, crowd>>
  BY DEF Grip, JobTypeOK
<1>2. PICK s \in {"running", "succeeded"} :
        /\ job' = [job EXCEPT ![g] = [@ EXCEPT !.at = "wait", !.sdk = s]]
        /\ mute' = IF s = "succeeded" THEN mute \cup {g} ELSE mute
  BY DEF Grip
<1> DEFINE q == [job[g] EXCEPT !.at = "wait", !.sdk = s]
<1>3. /\ q \in Jobs /\ q.at = "wait" /\ q.sdk = s
      /\ q.module = job[g].module /\ q.goal = job[g].goal
  BY <1>1 DEF Jobs, Places
<1>4. job' = [job EXCEPT ![g] = q]
  BY <1>2
<1> HIDE DEF q
<1>5. JobTypeOK' /\ Only(g) /\ robot'[g] = "busy" /\ job'[g] = q
  BY <1>1, <1>2, <1>3, <1>4 DEF JobTypeOK, Only, Sent, Modules
<1>6. Lawful(g)
  BY <1>1, <1>2, <1>3, <1>5
     DEF Lawful, Fresh, Placed, Sent, Early, Late, Active, Told, Kind
<1>7. QED
  BY <1>5, <1>6, OneGoalMoves

LEMMA WaitPreserves ==
  ASSUME JobInv, NEW g \in Goals, Wait(g)
  PROVE  JobInv' /\ LateStays
<1> USE DEF JobInv
<1>1. /\ job[g].at = "wait"
      /\ UNCHANGED <<robot, pending, tracked, flag, stopping, crowd, mute>>
      /\ \/ Goes(g, "report") \/ Goes(g, "quit")
         \/ job' = [job EXCEPT ![g].heard = FALSE]
  BY DEF Wait
<1>2. /\ job' \in [Goals -> Jobs]
      /\ \A o \in Goals \ {g} : job'[o] = job[o]
      /\ job'[g].module = job[g].module /\ job'[g].sdk = job[g].sdk
      /\ job'[g].woke = job[g].woke /\ job'[g].goal = job[g].goal
      /\ job'[g].at \in {"wait", "quit", "report"}
  <2>1. CASE job' = [job EXCEPT ![g].heard = FALSE]
    BY <1>1, <2>1 DEF JobTypeOK, Jobs
  <2>2. CASE Goes(g, "report") \/ Goes(g, "quit")
    BY <2>2, GoesMoves DEF Places
  <2>3. QED
    BY <1>1, <2>1, <2>2
<1>3. JobTypeOK' /\ Only(g)
  BY <1>1, <1>2 DEF JobTypeOK, Only, Sent, Modules
<1>4. Lawful(g)
  BY <1>1, <1>2 DEF Lawful, Fresh, Placed, Sent, Early, Late, Active, Told
<1>5. QED
  BY <1>3, <1>4, OneGoalMoves

LEMMA QuitPreserves ==
  ASSUME JobInv, NEW g \in Goals, Quit(g)
  PROVE  JobInv' /\ LateStays
<1> USE DEF JobInv
<1>1. /\ job[g].at = "quit" /\ job[g] \in Jobs
      /\ UNCHANGED <<robot, pending, tracked, flag, stopping, crowd, mute>>
  BY DEF Quit, JobTypeOK
<1>2. /\ job' \in [Goals -> Jobs]
      /\ \A o \in Goals \ {g} : job'[o] = job[o]
      /\ job'[g].module = job[g].module /\ job'[g].woke = job[g].woke
      /\ job'[g].sdk \in {job[g].sdk, "failed"}
      /\ job'[g].goal = job[g].goal /\ job'[g].at = "report"
  <2>1. CASE Kind(g) = "gripper"
    BY <2>1, GoesMoves DEF Quit, Places
  <2>2. CASE Kind(g) # "gripper"
    <3> DEFINE q == [job[g] EXCEPT !.at = "report", !.sdk = "failed"]
    <3>1. job' = [job EXCEPT ![g] = q]
      BY <2>2 DEF Quit
    <3>2. /\ q \in Jobs /\ q.at = "report" /\ q.sdk = "failed"
          /\ q.module = job[g].module /\ q.woke = job[g].woke
          /\ q.goal = job[g].goal
      BY <1>1 DEF Jobs, Places
    <3> HIDE DEF q
    <3>3. QED
      BY <3>1, <3>2 DEF JobTypeOK
  <2>3. QED
    BY <2>1, <2>2
<1>3. JobTypeOK' /\ Only(g)
  BY <1>1, <1>2 DEF JobTypeOK, Only, Sent, Modules
<1>4. Lawful(g)
  BY <1>1, <1>2 DEF Lawful, Fresh, Placed, Sent, Early, Late, Active, Told
<1>5. QED
  BY <1>3, <1>4, OneGoalMoves

LEMMA CancelPreserves ==
  ASSUME JobInv, NEW g \in Goals, Cancel(g)
  PROVE  JobInv' /\ LateStays
<1> USE DEF JobInv
<1>1. /\ job[g].goal = "executing" /\ Active(g)
      /\ UNCHANGED <<robot, pending, tracked, crowd, mute>>
      /\ job' = [job EXCEPT ![g].goal = "canceling"]
  BY DEF Cancel, Placed
<1>2. /\ job' \in [Goals -> Jobs]
      /\ \A o \in Goals \ {g} : job'[o] = job[o]
      /\ job'[g].module = job[g].module /\ job'[g].sdk = job[g].sdk
      /\ job'[g].woke = job[g].woke /\ job'[g].goal = "canceling"
      /\ job'[g].at = job[g].at
  BY <1>1 DEF JobTypeOK, Jobs
<1>3. /\ flag' \subseteq Modules /\ stopping' \subseteq Modules
      /\ \A m \in stopping' : m[2] # "gripper"
  BY <1>1 DEF Cancel, Placed, Sent, JobTypeOK
<1>4. JobTypeOK' /\ Only(g)
  BY <1>1, <1>2, <1>3 DEF JobTypeOK, Only, Modules
<1>5. Lawful(g)
  BY <1>1, <1>2
     DEF Lawful, Fresh, Placed, Sent, Early, Late, Active, Told
<1>6. QED
  BY <1>4, <1>5, OneGoalMoves

(* The goal in a slot is late or over. *)
LEMMA StopActionPreserves ==
  ASSUME JobInv, NEW m \in Modules, StopAction(m)
  PROVE  JobInv' /\ LateStays
<1> USE DEF JobInv
<1>1. /\ m \in stopping /\ stopping' = stopping \ {m}
      /\ UNCHANGED <<pending, tracked, flag, crowd, mute>>
      /\ m[2] # "gripper"
  BY DEF StopAction, Sent
<1>2. CASE Free(m)
  BY <1>1, <1>2
     DEF StopAction, JobTypeOK, Fresh, Placed, Slotted, Apart, Own, Sent, Told,
         SuccessIsTheRobots, Active, Early, Late, LateStays, Modules
<1>3. CASE ~Free(m)
  <2> DEFINE g == tracked[m]
  <2>1. /\ g \in Goals /\ job[g].module = m
        /\ Late(job[g]) \/ job[g].at = "over"
    BY <1>3 DEF Free, Slotted, JobTypeOK
  <2>2. /\ job' = [job EXCEPT ![g].sdk = "failed"] \/ job' = job
        /\ \/ robot' = robot
           \/ robot[g] = "busy" /\ robot' = [robot EXCEPT ![g] = "idle"]
    BY <1>3 DEF StopAction
  <2> HIDE DEF g
  <2>3. /\ job' \in [Goals -> Jobs]
        /\ \A o \in Goals \ {g} : job'[o] = job[o]
        /\ job'[g].module = job[g].module
        /\ job'[g].sdk \in {job[g].sdk, "failed"}
        /\ job'[g].woke = job[g].woke /\ job'[g].goal = job[g].goal
        /\ job'[g].at = job[g].at
    BY <2>1, <2>2 DEF JobTypeOK, Jobs
  <2>4. JobTypeOK' /\ Only(g)
    BY <1>1, <2>2, <2>3 DEF JobTypeOK, Only, Sent, Modules
  <2>5. \/ robot'[g] = robot[g]
        \/ robot[g] = "busy" /\ robot'[g] = "idle"
    <3>1. CASE robot' = robot
      BY <3>1
    <3>2. CASE robot[g] = "busy" /\ robot' = [robot EXCEPT ![g] = "idle"]
      BY <2>1, <3>2 DEF JobTypeOK
    <3>3. QED
      BY <2>2, <3>1, <3>2
  <2>6. Lawful(g)
    BY <1>1, <2>1, <2>3, <2>5
       DEF Lawful, Placed, Sent, Early, Late, Active, Told, SuccessIsTheRobots
  <2>7. QED
    BY <2>1, <2>4, <2>6, OneGoalMoves
<1>4. QED
  BY <1>2, <1>3

LEMMA AbortModulePreserves ==
  ASSUME JobInv, NEW m \in Modules, AbortModule(m)
  PROVE  JobInv' /\ LateStays
<1> USE DEF JobInv
<1>1. UNCHANGED <<robot, pending, tracked, stopping, crowd, mute>>
  BY DEF AbortModule
<1>2. flag' \subseteq Modules
  BY DEF AbortModule, JobTypeOK
<1>3. CASE UNCHANGED job
  BY <1>1, <1>2, <1>3
     DEF JobTypeOK, Fresh, Placed, Slotted, Apart, Own, Sent, Told,
         SuccessIsTheRobots, Active, Early, Late, LateStays, Modules
<1>4. CASE m[2] # "gripper" /\ ~Free(m)
  <2> DEFINE g == tracked[m]
             q == [job[g] EXCEPT !.sdk = "failed", !.woke = TRUE]
  <2>1. /\ g \in Goals /\ job[g].module = m /\ job[g] \in Jobs
        /\ Late(job[g]) \/ job[g].at = "over"
    BY <1>4 DEF Free, Slotted, JobTypeOK
  <2>2. job' = [job EXCEPT ![g] = q]
    BY <1>4 DEF AbortModule
  <2>3. /\ q \in Jobs /\ q.at = job[g].at /\ q.sdk = "failed"
        /\ q.module = job[g].module /\ q.goal = job[g].goal
    BY <2>1 DEF Jobs
  <2> HIDE DEF g, q
  <2>4. JobTypeOK' /\ Only(g) /\ job'[g] = q
    BY <1>1, <1>2, <2>1, <2>2, <2>3 DEF JobTypeOK, Only, Sent, Modules
  <2>5. Lawful(g)
    BY <1>1, <1>4, <2>1, <2>3, <2>4
       DEF Lawful, Placed, Sent, Early, Late, Active, Told, SuccessIsTheRobots
  <2>6. QED
    BY <2>1, <2>4, <2>5, OneGoalMoves
<1>5. QED
  BY <1>3, <1>4 DEF AbortModule

LEMMA PushPreserves ==
  ASSUME JobInv, NEW g \in Goals,
         NEW s \in {"running", "succeeded", "failed"}, Push(g, s)
  PROVE  JobInv' /\ LateStays
<1> USE DEF JobInv
<1> DEFINE wakes == s = "succeeded" \/ (s = "failed" /\ Kind(g) # "gripper")
           hears == job[g].at = "wait" /\ Kind(g) \in Infers
           q == [job[g] EXCEPT !.heard = hears, !.sdk = s,
                               !.woke = job[g].woke \/ wakes]
<1>1. /\ robot[g] = "busy" /\ job[g] \in Jobs
      /\ UNCHANGED <<tracked, flag, stopping, crowd>>
      /\ pending' \subseteq pending
  BY DEF Push, JobTypeOK
<1>2. /\ robot' \in [Goals -> {"idle", "busy", "done"}]
      /\ \A o \in Goals \ {g} : robot'[o] = robot[o]
      /\ s = "succeeded" => robot'[g] = "done"
  BY DEF Push, JobTypeOK
<1>3. /\ ~Early(job[g])
      /\ job[g].sdk = "succeeded" => g \in mute
      /\ g \notin crowd /\ job[g].goal = "succeeded" => g \in mute
  BY <1>1 DEF Fresh, Told, SuccessIsTheRobots
<1>4. CASE job' = job /\ mute' = mute
  <2>1. JobTypeOK' /\ Only(g)
    BY <1>1, <1>2, <1>4 DEF JobTypeOK, Only, Sent, Modules
  <2>2. Lawful(g)
    BY <1>1, <1>3, <1>4
       DEF Lawful, Placed, Sent, Early, Late, Active, Told
  <2>3. QED
    BY <2>1, <2>2, OneGoalMoves
<1>5. CASE /\ job' = [job EXCEPT ![g] = q]
           /\ mute' = IF Active(g) THEN mute \ {g} ELSE mute
  <2>1. wakes \in BOOLEAN /\ hears \in BOOLEAN
    OBVIOUS
  <2> HIDE DEF wakes, hears
  <2>2. /\ q \in Jobs /\ q.at = job[g].at /\ q.sdk = s
        /\ q.module = job[g].module /\ q.goal = job[g].goal
    BY <1>1, <2>1 DEF Jobs
  <2> HIDE DEF q
  <2>3. JobTypeOK' /\ Only(g) /\ job'[g] = q
    BY <1>1, <1>2, <1>5, <2>2 DEF JobTypeOK, Only, Sent, Modules
  <2>4. Active(g) => job[g].goal # "succeeded"
    BY DEF Placed
  <2>5. Lawful(g)
    BY <1>1, <1>2, <1>3, <1>5, <2>2, <2>3, <2>4
       DEF Lawful, Placed, Sent, Early, Late, Active, Told
  <2>6. QED
    BY <2>3, <2>5, OneGoalMoves
<1>6. QED
  BY <1>4, <1>5 DEF Push

----------------------------------------------------------------------------
(* The steps that take a slot or leave it. *)

(* Who takes the slot of its module is alone with it, or in the crowd.     *)
LEMMA SlotTaken ==
  ASSUME JobInv, NEW g \in Goals, Active(g), ~Early(job[g]) \/ Kind(g) = "gripper",
         tracked' = [tracked EXCEPT ![job[g].module] = g],
         UNCHANGED <<robot, pending, flag, stopping, crowd, mute>>,
         job' \in [Goals -> Jobs],
         \A o \in Goals \ {g} : job'[o] = job[o],
         job'[g].module = job[g].module, job'[g].goal = job[g].goal,
         job'[g].sdk = job[g].sdk, job'[g].woke = job[g].woke,
         Late(job'[g]),
         Early(job'[g]) => Early(job[g])
  PROVE  JobInv' /\ LateStays
<1> USE DEF JobInv
<1> DEFINE m == job[g].module
<1>1. /\ m \in Modules
      /\ job'[g].at \notin {"none", "over"}
      /\ job[g].goal \in {"executing", "canceling"}
  BY DEF Placed, Late
<1>2. /\ tracked'[m] = g
      /\ \A n \in Modules \ {m} : tracked'[n] = tracked[n]
      /\ tracked' \in [Modules -> Goals \cup {None}]
  BY <1>1 DEF JobTypeOK
<1>3. JobTypeOK'
  BY <1>2 DEF JobTypeOK, Modules
<1>4. Fresh'
  BY DEF Fresh
<1>5. Placed'
  BY <1>1 DEF Placed, Active
<1>6. Slotted'
  BY <1>2, DriverAssumption DEF Slotted, JobTypeOK, Modules
<1>7. Apart'
  BY DEF Apart, Active
<1>8. Own'
  <2>1. SUFFICES ASSUME NEW o \in Goals \ crowd, Late(job'[o]), o # g
                 PROVE  tracked'[job'[o].module] = o
    BY <1>2 DEF Own
  <2>2. Active(o) /\ job'[o] = job[o]
    BY <2>1 DEF Late, Active
  <2>3. job[o].module # m
    BY <2>1, <2>2 DEF Apart
  <2>4. QED
    BY <1>2, <2>1, <2>2, <2>3 DEF Own, Placed
<1>9. Sent'
  BY DEF Sent, JobTypeOK
<1>10. \A o \in Goals : Told(job'[o], robot'[o], o \in mute')
  BY <1>1 DEF Told, Active
<1>11. SuccessIsTheRobots'
  BY DEF SuccessIsTheRobots
<1>12. LateStays
  BY DEF LateStays, Active
<1>13. QED
  BY <1>3, <1>4, <1>5, <1>6, <1>7, <1>8, <1>9, <1>10, <1>11, <1>12

LEMMA TrackPreserves ==
  ASSUME JobInv, NEW g \in Goals, Track(g)
  PROVE  JobInv' /\ LateStays
<1>1. /\ job[g].at = "track" /\ Kind(g) # "gripper"
      /\ tracked' = [tracked EXCEPT ![job[g].module] = g]
      /\ UNCHANGED <<robot, pending, flag, stopping, crowd, mute>>
      /\ Goes(g, "wait")
  BY DEF Track
<1>2. /\ job' \in [Goals -> Jobs]
      /\ \A o \in Goals \ {g} : job'[o] = job[o]
      /\ job'[g].module = job[g].module /\ job'[g].sdk = job[g].sdk
      /\ job'[g].woke = job[g].woke
      /\ job'[g].at = "wait" /\ job'[g].goal = job[g].goal
  BY <1>1, GoesMoves DEF JobInv, Places
<1>3. /\ Active(g) /\ ~Early(job[g]) /\ Late(job'[g]) /\ ~Early(job'[g])
  BY <1>1, <1>2 DEF Active, Early, Late, Kind
<1>4. QED
  BY <1>1, <1>2, <1>3, SlotTaken

LEMMA AcquirePreserves ==
  ASSUME JobInv, NEW g \in Goals, Acquire(g)
  PROVE  JobInv' /\ LateStays
<1>1. /\ job[g].at = "lock" /\ Kind(g) = "gripper"
      /\ tracked' = [tracked EXCEPT ![job[g].module] = g]
      /\ UNCHANGED <<robot, pending, flag, stopping, crowd, mute>>
      /\ Goes(g, "track")
  BY DEF Acquire
<1>2. /\ job' \in [Goals -> Jobs]
      /\ \A o \in Goals \ {g} : job'[o] = job[o]
      /\ job'[g].module = job[g].module /\ job'[g].sdk = job[g].sdk
      /\ job'[g].woke = job[g].woke
      /\ job'[g].at = "track" /\ job'[g].goal = job[g].goal
  BY <1>1, GoesMoves DEF JobInv, Places
<1>3. Active(g) /\ Early(job[g]) /\ Late(job'[g])
  BY <1>1, <1>2 DEF Active, Early, Late, Kind
<1>4. QED
  BY <1>1, <1>2, <1>3, SlotTaken

LEMMA ReportPreserves ==
  ASSUME JobInv, NEW g \in Goals, NEW fine \in BOOLEAN, Report(g, fine)
  PROVE  JobInv' /\ LateStays
<1> USE DEF JobInv
<1>1. /\ job[g].at = "report" /\ job[g] \in Jobs
      /\ UNCHANGED <<robot, pending, flag, stopping, crowd, mute>>
      /\ Late(job[g]) /\ Active(g)
  BY DEF Report, JobTypeOK, Late, Active
<1>2. CASE Ends(g, "aborted") /\ UNCHANGED tracked
  <2>1. /\ job' \in [Goals -> Jobs]
        /\ \A o \in Goals \ {g} : job'[o] = job[o]
        /\ job'[g].module = job[g].module /\ job'[g].sdk = job[g].sdk
        /\ job'[g].at = "over" /\ job'[g].goal = "aborted"
    BY <1>2, EndsMoves DEF Answers
  <2>2. JobTypeOK' /\ Only(g)
    BY <1>1, <1>2, <2>1 DEF JobTypeOK, Only, Sent, Modules
  <2>3. Lawful(g)
    BY <1>1, <2>1 DEF Lawful, Sent, Early, Late, Active, Told
  <2>4. QED
    BY <2>2, <2>3, OneGoalMoves
<1>3. CASE /\ job' = [job EXCEPT ![g] = [@ EXCEPT !.at = "over", !.goal = Outcome(g),
                                        !.sdk = "running", !.woke = FALSE]]
           /\ tracked' = [tracked EXCEPT ![job[g].module] = None]
  <2> DEFINE m == job[g].module
             q == [job[g] EXCEPT !.at = "over", !.goal = Outcome(g),
                                 !.sdk = "running", !.woke = FALSE]
  <2>1. Outcome(g) \in {"succeeded", "canceled", "aborted"}
    BY DEF Outcome
  <2>2. /\ q \in Jobs /\ q.at = "over" /\ q.goal = Outcome(g)
        /\ q.module = m /\ q.sdk = "running"
    BY <1>1, <2>1 DEF Jobs, Places, Answers
  <2>3. /\ m \in Modules /\ tracked'[m] = None
        /\ \A n \in Modules \ {m} : tracked'[n] = tracked[n]
        /\ tracked' \in [Modules -> Goals \cup {None}]
    BY <1>1, <1>3 DEF Placed, JobTypeOK
  <2>4. g \notin crowd /\ Outcome(g) = "succeeded" => robot[g] = "done" \/ g \in mute
    <3>1. SUFFICES ASSUME g \notin crowd, Succeeded(g)
                   PROVE  robot[g] = "done" \/ g \in mute
      BY DEF Outcome
    <3>2. tracked[m] = g
      BY <1>1, <3>1 DEF Own
    <3>3. job[g].sdk = "succeeded"
      BY <3>1, <3>2 DEF Succeeded
    <3>4. QED
      BY <3>3 DEF Told
  <2> HIDE DEF q
  <2>5. /\ job'[g] = q /\ job' \in [Goals -> Jobs]
        /\ \A o \in Goals \ {g} : job'[o] = job[o]
    BY <1>3, <2>2 DEF JobTypeOK, q
  <2>6. JobTypeOK'
    BY <1>1, <2>3, <2>5 DEF JobTypeOK, Modules
  <2>7. Fresh'
    BY <1>1, <2>2, <2>5 DEF Fresh, Early
  <2>8. Placed'
    BY <2>1, <2>2, <2>5 DEF Placed, Active
  <2>9. Slotted'
    <3>1. SUFFICES ASSUME NEW n \in Modules, tracked'[n] # None
                   PROVE  /\ job'[tracked'[n]].module = n
                          /\ Late(job'[tracked'[n]]) \/ job'[tracked'[n]].at = "over"
      BY DEF Slotted, Modules
    <3>2. n # m /\ tracked'[n] = tracked[n] /\ tracked[n] \in Goals
      BY <2>3, <3>1 DEF JobTypeOK
    <3>3. tracked[n] # g
      BY <3>1, <3>2 DEF Slotted
    <3>4. QED
      BY <2>5, <3>1, <3>2, <3>3 DEF Slotted
  <2>10. Apart'
    BY <1>1, <2>2, <2>5 DEF Apart, Active
  <2>11. Own'
    <3>1. SUFFICES ASSUME NEW o \in Goals \ crowd, Late(job'[o])
                   PROVE  tracked'[job'[o].module] = o
      BY <1>1 DEF Own
    <3>2. o # g /\ job'[o] = job[o] /\ Active(o)
      BY <2>2, <2>5, <3>1 DEF Late, Active
    <3>3. job[o].module # m
      BY <1>1, <3>1, <3>2 DEF Apart
    <3>4. QED
      BY <2>3, <3>1, <3>2, <3>3 DEF Own, Placed
  <2>12. Sent'
    BY <1>1, <2>2, <2>5 DEF Sent, Early, JobTypeOK
  <2>13. \A o \in Goals : Told(job'[o], robot'[o], o \in mute')
    BY <1>1, <2>2, <2>5 DEF Told
  <2>14. SuccessIsTheRobots'
    BY <1>1, <2>2, <2>4, <2>5 DEF SuccessIsTheRobots
  <2>15. LateStays
    BY <1>1, <2>2, <2>5 DEF LateStays
  <2>16. QED
    BY <2>6, <2>7, <2>8, <2>9, <2>10, <2>11, <2>12, <2>13, <2>14, <2>15
<1>4. QED
  BY <1>2, <1>3 DEF Report

LEMMA NewGoalPreserves ==
  ASSUME JobInv, NEW g \in Goals, NEW m \in Modules, NewGoal(g, m)
  PROVE  JobInv' /\ LateStays
<1> USE DEF JobInv
<1>1. /\ job[g].at = "none" /\ job[g] \in Jobs
      /\ UNCHANGED <<robot, pending, tracked, flag, stopping, mute>>
      /\ Early(job[g])
  BY DEF NewGoal, JobTypeOK, Early
<1>2. CASE Ends(g, "rejected") /\ UNCHANGED crowd
  <2>1. /\ job' \in [Goals -> Jobs]
        /\ \A o \in Goals \ {g} : job'[o] = job[o]
        /\ job'[g].module = job[g].module /\ job'[g].sdk = job[g].sdk
        /\ job'[g].at = "over" /\ job'[g].goal = "rejected"
    BY <1>2, EndsMoves DEF Answers
  <2>2. JobTypeOK' /\ Only(g)
    BY <1>1, <1>2, <2>1 DEF JobTypeOK, Only, Sent, Modules
  <2>3. Lawful(g)
    BY <1>1, <2>1 DEF Lawful, Sent, Early, Late, Active, Told
  <2>4. QED
    BY <2>2, <2>3, OneGoalMoves
<1>3. CASE Free(m)
  <2> DEFINE met == {o \in Goals : Active(o) /\ job[o].module = m}
             q == [job[g] EXCEPT !.module = m, !.goal = "executing", !.at = "task"]
  <2>1. /\ job' = [job EXCEPT ![g] = q]
        /\ crowd' = IF met = {} THEN crowd ELSE crowd \cup met \cup {g}
    BY <1>3 DEF NewGoal
  <2>2. /\ q \in Jobs /\ q.module = m /\ q.goal = "executing"
        /\ q.at = "task" /\ q.sdk = job[g].sdk
        /\ q.woke = job[g].woke
    BY <1>1 DEF Jobs, Places
  <2> HIDE DEF q
  <2>3. /\ job'[g] = q /\ job' \in [Goals -> Jobs]
        /\ \A o \in Goals \ {g} : job'[o] = job[o]
    BY <2>1, <2>2 DEF JobTypeOK
  <2>4. crowd \subseteq crowd' /\ crowd' \subseteq Goals
    BY <2>1 DEF JobTypeOK
  <2>5. JobTypeOK'
    BY <1>1, <2>3, <2>4 DEF JobTypeOK, Modules
  <2>6. Fresh'
    BY <1>1, <2>2, <2>3 DEF Fresh
  <2>7. Placed'
    BY <2>2, <2>3 DEF Placed, Active, Modules
  <2>8. \A n \in Modules : tracked[n] # g
    BY <1>1, DriverAssumption DEF Slotted, Late
  <2>9. Slotted'
    BY <1>1, <2>3, <2>8 DEF Slotted, JobTypeOK, Modules
  <2>10. Apart'
    <3>1. SUFFICES ASSUME NEW a \in Goals, NEW o \in Goals, Active(a)', Active(o)',
                          job'[a].module = job'[o].module, a # o
                   PROVE  a \in crowd'
      BY DEF Apart
    <3>2. CASE a # g /\ o # g
      BY <2>3, <2>4, <3>1, <3>2 DEF Apart, Active
    <3>3. CASE a = g
      BY <2>1, <2>2, <2>3, <3>1, <3>3 DEF Active
    <3>4. CASE o = g
      BY <2>1, <2>2, <2>3, <3>1, <3>4 DEF Active
    <3>5. QED
      BY <3>2, <3>3, <3>4
  <2>11. Own'
    BY <1>1, <2>2, <2>3, <2>4 DEF Own, Late
  <2>12. Sent'
    BY <1>1, <2>3 DEF Sent, JobTypeOK
  <2>13. \A o \in Goals : Told(job'[o], robot'[o], o \in mute')
    BY <1>1, <2>2, <2>3 DEF Told, Fresh
  <2>14. SuccessIsTheRobots'
    BY <1>1, <2>2, <2>3, <2>4 DEF SuccessIsTheRobots
  <2>15. LateStays
    <3>1. ASSUME NEW o \in Goals \ crowd, Late(job[o]) PROVE o \notin crowd'
      <4>1. o # g /\ Active(o)
        BY <1>1, <3>1 DEF Late, Active
      <4>2. job[o].module # m
        BY <1>3, <3>1, DriverAssumption DEF Own, Free
      <4>3. QED
        BY <2>1, <3>1, <4>1, <4>2
    <3>2. QED
      BY <1>1, <2>3, <3>1 DEF LateStays, Late
  <2>16. QED
    BY <2>5, <2>6, <2>7, <2>9, <2>10, <2>11, <2>12, <2>13, <2>14, <2>15
<1>4. QED
  BY <1>2, <1>3 DEF NewGoal

(* Every step about goals, whichever thread takes it.                      *)
LEMMA JobStepPreserves ==
  ASSUME JobInv, JobStep PROVE JobInv' /\ LateStays
BY NewGoalPreserves, CancelPreserves, DispatchPreserves, StopActionPreserves,
   AbortModulePreserves, CheckPreserves, SucceedAtOncePreserves,
   CreatePreserves, TrackPreserves, QueuePreserves, AcquirePreserves,
   GripPreserves,
   WaitPreserves, QuitPreserves, ReportPreserves, PushPreserves,
   SilencePreserves
   DEF JobStep, Execute

-----------------------------------------------------------------------------
(* The session.                                                            *)

(* Where the main loop and the handler of SIGINT may be at the same time.  *)
Control ==
  /\ handler.at \in {"off", "abort", "turn", "stop", "close", "down"}
  /\ handler.at # "off" =>
       interrupted /\ ok /\ main.at \notin {"new", "pause", "out"}
  /\ handler.at = "off" /\ interrupted => ~ok
  /\ interrupted \/ ok
  /\ main.at # "out" => (held <=> main.at \notin {"new", "pause"})
  /\ main.at = "new" => ok /\ ~initialized
  /\ handler.at = "off" /\ main.at \in {"destroy", "pause"} => ~ok \/ ~initialized

(* The node that is connected exists, and abort() sees its modules only.   *)
Connection ==
  /\ initialized => node # 0
  /\ ~initialized => owed = {}
  /\ main.todo \subseteq load.enabled /\ handler.todo \subseteq load.enabled

(* An action that abort() found and that has not ended is waited for: by   *)
(* the handler, which looks at every module of the node, or by the main    *)
(* loop.                                                                   *)
AwaitedBy(m) ==
  IF handler.at = "off"
    THEN main.at = "abort" /\ main.waits = m
    ELSE handler.at = "abort" /\ (m[2] \in handler.todo \/ handler.waits = m)

AwaitedGoal(g) ==
  /\ g \notin crowd /\ Late(job[g])
  /\ job[g].module[2] \in load.enabled
  /\ job[g].module = <<node, job[g].module[2]>>
  /\ AwaitedBy(job[g].module)

Awaited == \A g \in owed : job[g].at = "over" \/ AwaitedGoal(g)

SessionInv == DriverTypeOK /\ JobInv /\ Control /\ Connection /\ Awaited

----------------------------------------------------------------------------
LEMMA InitSession == Init => SessionInv
<1> SUFFICES ASSUME Init PROVE SessionInv
  OBVIOUS
<1> USE DriverAssumption, SessionAssumption DEF Init, Frame
<1>1. JobInv
  BY JobInitHolds
<1>2. load.enabled \subseteq Kinds
  OBVIOUS
<1>3. main \in Frames /\ handler \in Frames
  BY <1>2 DEF Frames
<1>4. DriverTypeOK
  <2>1. {held, reconnect, ok, initialized, lost, alive, interrupted}
          \subseteq BOOLEAN
    OBVIOUS
  <2>2. QED
    BY <1>1, <1>3, <2>1 DEF DriverTypeOK, JobInv
<1>5. Control /\ Connection /\ Awaited
  BY DEF Control, Connection, Awaited
<1>6. QED
  BY <1>1, <1>4, <1>5 DEF SessionInv

(* What the goals do in a step of the session is a step of DriverActions.  *)
LEMMA GoalsStep ==
  ASSUME SessionInv, Next
  PROVE  JobStep \/ UNCHANGED jobVars
<1> USE DEF SessionInv
<1>1. CASE MainThread
  <2>1. CASE AbortNext
    <3>1. CASE initialized /\ Top.todo # {}
      <4>1. PICK k \in Top.todo : AbortModule(<<node, k>>)
        BY <2>1, <3>1 DEF AbortNext
      <4>2. <<node, k>> \in Modules
        BY <3>1 DEF Connection, DriverTypeOK, Frames, Modules, Top
      <4>3. QED
        BY <4>1, <4>2 DEF JobStep
    <3>2. CASE ~(initialized /\ Top.todo # {})
      BY <2>1, <3>2 DEF AbortNext
    <3>3. QED
      BY <3>1, <3>2
  <2>2. CASE ~AbortNext
    BY <1>1, <2>2 DEF MainThread, NewNode, Made, SpinEnds, AbortWaits, Turned,
         Stop, Close, Dies, Destroy, Again
  <2>3. QED
    BY <2>1, <2>2
<1>2. CASE Interrupt \/ Down \/ TimerTaken \/ HeartbeatCheck \/ LinkBreaks
  BY <1>2 DEF Interrupt, Down, TimerTaken, HeartbeatCheck, LinkBreaks
<1>3. CASE Goal
  BY <1>3, SessionAssumption DEF Goal, JobStep, DriverTypeOK
<1>4. CASE Task
  BY <1>4 DEF Task, JobStep
<1>5. CASE \E g \in Goals : Begins(g) \/ Works(g)
  BY <1>5 DEF Begins, Works, JobStep, DriverTypeOK
<1>6. CASE \E g \in Goals : Robot(g)
  BY <1>6 DEF Robot, JobStep
<1>7. QED
  BY <1>1, <1>2, <1>3, <1>4, <1>5, <1>6 DEF Next

LEMMA GoalsPreserved ==
  ASSUME SessionInv, Next
  PROVE  JobInv' /\ LateStays
BY GoalsStep, JobStepPreserves, JobStutters DEF SessionInv

----------------------------------------------------------------------------
(* The frame that moves on, and the one that does not.                     *)
LEMMA MovesFrame ==
  ASSUME DriverTypeOK,
         NEW place \in {"new", "made", "spin", "abort", "turn", "stop", "close",
                        "down", "destroy", "pause", "out"},
         Moves(place)
  PROVE  /\ main' \in Frames /\ handler' \in Frames
         /\ IF handler.at = "off"
              THEN /\ main'.at = place /\ main'.todo = load.enabled
                   /\ handler' = handler
              ELSE /\ handler'.at = place /\ handler'.todo = load.enabled
                   /\ main' = main
<1>1. load.enabled \subseteq Kinds
  BY SessionAssumption DEF DriverTypeOK
<1>2. Frame(place) \in Frames /\ Frame(place).at = place
      /\ Frame(place).todo = load.enabled
  BY <1>1 DEF Frame, Frames
<1>3. main \in Frames /\ handler \in Frames
  BY DEF DriverTypeOK
<1>4. QED
  BY <1>2, <1>3 DEF Moves, TopBecomes

(* A step that leaves the session alone. *)
LEMMA GoalsOnly ==
  ASSUME SessionInv, JobInv', LateStays, UNCHANGED sessionVars
  PROVE  SessionInv'
<1> USE DEF SessionInv, sessionVars, nodeVars, loopVars
<1>1. DriverTypeOK'
  BY DEF DriverTypeOK, JobInv, Frames, Modules
<1>2. Control' /\ Connection'
  BY DEF Control, Connection
<1>3. Awaited'
  BY DEF Awaited, AwaitedGoal, AwaitedBy, LateStays, DriverTypeOK
<1>4. QED
  BY <1>1, <1>2, <1>3

(* A step of the main loop outside abort(), when nothing is awaited, and   *)
(* the goals do nothing.                                                   *)
LEMMA NothingAwaited ==
  ASSUME Awaited, ~(Top.at = "abort")
  PROVE  \A g \in owed : job[g].at = "over"
BY DEF Awaited, AwaitedGoal, AwaitedBy, Top

LEMMA MainPreserves ==
  ASSUME SessionInv, JobInv', UNCHANGED jobVars,
         NewNode \/ Made \/ SpinEnds \/ Dies \/ Destroy \/ Again
  PROVE  SessionInv'
<1> USE DEF SessionInv
<1>1. handler.at = "off" /\ main.at # "abort" /\ job' = job
  BY DEF NewNode, Made, SpinEnds, Dies, Destroy, Again, jobVars
<1>2. \A g \in owed : job[g].at = "over"
  BY <1>1, NothingAwaited DEF Top
<1>3. PICK place \in {"made", "spin", "abort", "destroy", "pause", "new", "out"} :
        Moves(place)
  BY DEF NewNode, Made, SpinEnds, Dies, Destroy, Again
<1>4. /\ main' \in Frames /\ handler' = handler
      /\ main'.at = place /\ main'.todo = load.enabled
  BY <1>1, <1>3, MovesFrame
<1>5. CASE NewNode
  <2>1. /\ main.at = "new" /\ node' = node + 1 /\ held' = TRUE /\ node < load.nodes
        /\ UNCHANGED <<load, reconnect, ok, interrupted, owed>>
        /\ \E up \in BOOLEAN :
             /\ initialized' = up /\ lost' = ~up /\ alive' = up
             /\ timer' = IF up THEN "armed" ELSE "off"
             /\ servers' = IF up THEN {<<node', k>> : k \in load.enabled} ELSE {}
    BY <1>5 DEF NewNode
  <2>2. main'.at = "made"
    BY <1>1, <1>5, <1>4, MovesFrame DEF NewNode
  <2>3. node' \in 1 .. MaxNodes /\ load.enabled \subseteq Kinds
    BY <2>1, SessionAssumption, DriverAssumption DEF DriverTypeOK
  <2>4. servers' \subseteq Modules
    BY <2>1, <2>3 DEF Modules
  <2>5. {initialized', lost', alive'} \subseteq BOOLEAN /\ timer' \in {"off", "armed", "taken"}
    BY <2>1
  <2>6. DriverTypeOK'
    BY <1>4, <2>1, <2>3, <2>4, <2>5 DEF DriverTypeOK, JobInv, Modules, Frames
  <2>7. Control'
    BY <1>1, <1>4, <2>1, <2>2 DEF Control
  <2>8. owed = {}
    BY <2>1 DEF Control, Connection
  <2>9. Connection' /\ Awaited'
    BY <1>4, <2>1, <2>3, <2>8 DEF Connection, Awaited
  <2>10. QED
    BY <2>6, <2>7, <2>9
<1>6. CASE ~NewNode
  <2>1. UNCHANGED <<initialized, lost, alive, load, node, ok, interrupted, owed>>
    BY <1>6 DEF NewNode, Made, SpinEnds, Dies, Destroy, Again, nodeVars
  <2>2. /\ reconnect' \in BOOLEAN /\ held' \in BOOLEAN
        /\ timer' \in {"off", "armed", "taken"} /\ servers' \subseteq Modules
    BY <1>6, SessionAssumption
       DEF NewNode, Made, SpinEnds, Dies, Destroy, Again, nodeVars, DriverTypeOK
  <2>3. DriverTypeOK'
    BY <1>4, <2>1, <2>2 DEF DriverTypeOK, JobInv, Frames, Modules
  <2>4. Connection' /\ Awaited'
    BY <1>1, <1>2, <1>4, <2>1 DEF Connection, Awaited
  <2>5. Control'
    <3>1. CASE Made
      <4>1. main'.at = "spin" /\ main.at = "made" /\ held' = held
        BY <1>1, <3>1, MovesFrame DEF Made
      <4>2. QED
        BY <1>1, <1>4, <2>1, <4>1 DEF Control
    <3>2. CASE SpinEnds
      <4>1. /\ main'.at \in {"abort", "destroy", "out"} /\ main.at = "spin"
            /\ held' = held /\ (main'.at = "destroy" => ~ok)
        BY <1>1, <3>2, MovesFrame DEF SpinEnds
      <4>2. QED
        BY <1>1, <1>4, <2>1, <4>1 DEF Control
    <3>3. CASE Dies
      <4>1. main'.at = "out" /\ ~ok
        BY <1>1, <3>3, MovesFrame DEF Dies
      <4>2. QED
        BY <1>1, <1>4, <2>1, <4>1 DEF Control
    <3>4. CASE Destroy
      <4>1. main'.at = "pause" /\ main.at = "destroy" /\ held' = FALSE
        BY <1>1, <3>4, MovesFrame DEF Destroy
      <4>2. QED
        BY <1>1, <1>4, <2>1, <4>1 DEF Control
    <3>5. CASE Again
      <4>1. /\ main.at = "pause" /\ held' = held
            /\ main'.at = "out" \/ (main'.at = "new" /\ ok)
        BY <1>1, <3>5, MovesFrame DEF Again
      <4>2. QED
        BY <1>1, <1>4, <2>1, <4>1 DEF Control
    <3>6. QED
      BY <1>6, <3>1, <3>2, <3>3, <3>4, <3>5
  <2>6. QED
    BY <2>3, <2>4, <2>5
<1>7. QED
  BY <1>5, <1>6

----------------------------------------------------------------------------
(* The steps of abort() and stop(), which the main loop and the handler    *)
(* both take.                                                              *)

(* An abort() that goes on from a module whose action has ended.           *)
LEMMA NextModule ==
  ASSUME SessionInv, JobInv', LateStays, AbortNext, initialized, Top.todo # {}
  PROVE  SessionInv'
<1> USE DEF SessionInv
<1>1. PICK k \in Top.todo :
        /\ TopBecomes([Top EXCEPT !.todo = @ \ {k},
                         !.waits = IF Free(<<node, k>>) THEN None ELSE <<node, k>>])
        /\ owed' = owed \cup ({tracked[<<node, k>>]} \ (crowd \cup {None}))
        /\ AbortModule(<<node, k>>)
  BY DEF AbortNext
<1>2. /\ Top.at = "abort" /\ Top.waits = None
      /\ UNCHANGED <<nodeVars, load, node, held, reconnect, ok, interrupted>>
  BY DEF AbortNext
<1> DEFINE m == <<node, k>>
           f == [Top EXCEPT !.todo = @ \ {k},
                   !.waits = IF Free(m) THEN None ELSE m]
<1>3. Top \in Frames /\ load.enabled \subseteq Kinds /\ Top.todo \subseteq load.enabled
  BY SessionAssumption DEF Top, DriverTypeOK, Connection
<1>4. m \in Modules /\ m[2] = k /\ k \in load.enabled
  BY <1>3 DEF Connection, DriverTypeOK, Modules
<1>5. /\ f \in Frames /\ f.at = "abort" /\ f.todo = Top.todo \ {k}
      /\ f.waits = IF Free(m) THEN None ELSE m
  BY <1>2, <1>3, <1>4 DEF Frames
<1> HIDE DEF m, f
<1>6. /\ TopBecomes(f)
      /\ owed' = owed \cup ({tracked[m]} \ (crowd \cup {None}))
      /\ crowd' = crowd
  BY <1>1 DEF f, m, AbortModule
<1>7. main' \in Frames /\ handler' \in Frames
  BY <1>5, <1>6 DEF TopBecomes, DriverTypeOK
<1>8. tracked[m] \in Goals \cup {None}
  BY <1>4 DEF JobInv, JobTypeOK
<1>9. DriverTypeOK'
  BY <1>2, <1>6, <1>7, <1>8
     DEF DriverTypeOK, JobInv, nodeVars, Frames, Modules
<1>10. Control'
  BY <1>2, <1>5, <1>6 DEF Control, nodeVars, TopBecomes, Top
<1>11. Connection'
  BY <1>2, <1>3, <1>5, <1>6 DEF Connection, nodeVars, TopBecomes, Top
<1>12. Awaited'
  <2>1. SUFFICES ASSUME NEW g \in owed', job'[g].at # "over"
                 PROVE  AwaitedGoal(g)'
    BY DEF Awaited
  <2>2. job[g].at # "over" /\ g \in Goals
    BY <1>6, <1>8, <2>1 DEF LateStays, DriverTypeOK
  <2>3. CASE g = tracked[m] /\ g \notin crowd
    <3>1. Late(job[g]) /\ job[g].module = m /\ ~Free(m)
      BY <1>4, <2>2, <2>3, DriverAssumption DEF JobInv, Slotted, Free
    <3>2. job'[g].module = m /\ Late(job'[g])
      BY <2>1, <2>2, <2>3, <3>1 DEF LateStays
    <3>3. IF handler'.at = "off"
            THEN main'.at = "abort" /\ main'.waits = m
            ELSE handler'.at = "abort" /\ handler'.waits = m
      BY <1>2, <1>5, <1>6, <3>1 DEF TopBecomes, Control, Top
    <3>4. QED
      BY <1>2, <1>4, <1>6, <2>3, <3>2, <3>3 DEF AwaitedGoal, AwaitedBy, m
  <2>4. CASE g \in owed
    <3>1. AwaitedGoal(g)
      BY <2>2, <2>4 DEF Awaited
    <3>2. job'[g].module = job[g].module /\ Late(job'[g])
      BY <2>1, <2>2, <3>1 DEF LateStays, AwaitedGoal
    <3>3. job[g].module # None
      BY <2>2, <3>1, DriverAssumption DEF JobInv, Placed, Active, AwaitedGoal, Late
    <3>4. handler.at = "abort" /\ job[g].module[2] \in handler.todo
      BY <1>2, <3>1, <3>3 DEF AwaitedGoal, AwaitedBy, Top
    <3>5. handler'.at = "abort" /\ handler' = f
      BY <1>5, <1>6, <3>4 DEF TopBecomes
    <3>6. CASE job[g].module[2] = k
      <4>1. job[g].module = m
        BY <3>1, <3>6 DEF m, AwaitedGoal
      <4>2. tracked[m] = g
        BY <2>2, <3>1, <4>1 DEF JobInv, Own, AwaitedGoal
      <4>3. handler'.waits = job'[g].module
        BY <1>5, <2>2, <3>2, <3>5, <4>1, <4>2, DriverAssumption DEF Free
      <4>4. QED
        BY <1>2, <1>6, <3>1, <3>2, <3>5, <4>3 DEF AwaitedGoal, AwaitedBy
    <3>7. CASE job[g].module[2] # k
      <4>1. job'[g].module[2] \in handler'.todo
        BY <1>5, <3>2, <3>4, <3>5, <3>7 DEF Top
      <4>2. QED
        BY <1>2, <1>6, <3>1, <3>2, <3>5, <4>1 DEF AwaitedGoal, AwaitedBy
    <3>8. QED
      BY <3>6, <3>7
  <2>5. QED
    BY <1>6, <2>1, <2>3, <2>4
<1>13. QED
  BY <1>9, <1>10, <1>11, <1>12

(* An awaited goal that is not over has the slot of its module.            *)
LEMMA AwaitedHolds ==
  ASSUME SessionInv, NEW g \in owed, job[g].at # "over"
  PROVE  /\ AwaitedGoal(g) /\ job[g].module \in Modules
         /\ job[g].module # None
         /\ ~Free(job[g].module)
<1>1. AwaitedGoal(g) /\ g \in Goals \ crowd
  BY DEF SessionInv, DriverTypeOK, Awaited, AwaitedGoal
<1>2. job[g].module \in Modules /\ tracked[job[g].module] = g
  BY <1>1 DEF SessionInv, JobInv, Placed, Active, Own, AwaitedGoal, Late
<1>3. QED
  BY <1>1, <1>2, DriverAssumption DEF Free

LEMMA WaitEnds ==
  ASSUME SessionInv, JobInv', AbortWaits
  PROVE  SessionInv'
<1> USE DEF SessionInv
<1> DEFINE f == [Top EXCEPT !.waits = None]
<1>1. /\ Top.at = "abort" /\ Top.waits # None /\ Free(Top.waits)
      /\ TopBecomes(f)
      /\ UNCHANGED <<jobVars, nodeVars, load, node, held, reconnect, ok,
                     interrupted, owed>>
  BY DEF AbortWaits
<1>2. Top \in Frames
  BY DEF Top, DriverTypeOK
<1>3. f \in Frames /\ f.at = "abort" /\ f.todo = Top.todo
  BY <1>1, <1>2 DEF Frames
<1> HIDE DEF f
<1>4. main' \in Frames /\ handler' \in Frames
  BY <1>1, <1>3 DEF TopBecomes, DriverTypeOK
<1>5. DriverTypeOK'
  BY <1>1, <1>4 DEF DriverTypeOK, JobInv, nodeVars, Frames, Modules
<1>6. Control' /\ Connection'
  BY <1>1, <1>3 DEF Control, Connection, nodeVars, TopBecomes, Top
<1>7. Awaited'
  <2>1. SUFFICES ASSUME NEW g \in owed, job[g].at # "over"
                 PROVE  AwaitedGoal(g)'
    BY <1>1 DEF Awaited, jobVars
  <2>2. AwaitedGoal(g) /\ ~Free(job[g].module)
    BY <2>1, AwaitedHolds
  <2>3. handler.at = "abort" /\ job[g].module[2] \in handler.todo
    BY <1>1, <2>2 DEF AwaitedGoal, AwaitedBy, Top
  <2>4. handler'.at = "abort" /\ job[g].module[2] \in handler'.todo
    BY <1>1, <1>3, <2>3 DEF TopBecomes, Top
  <2>5. QED
    BY <1>1, <2>2, <2>4 DEF AwaitedGoal, AwaitedBy, jobVars
<1>8. QED
  BY <1>5, <1>6, <1>7

(* When abort() is over, so are the goals it found. *)
LEMMA LastModule ==
  ASSUME SessionInv, AbortNext, ~(initialized /\ Top.todo # {})
  PROVE  \A g \in owed : job[g].at = "over"
<1>1. SUFFICES ASSUME NEW g \in owed, job[g].at # "over" PROVE FALSE
  OBVIOUS
<1>2. AwaitedGoal(g) /\ job[g].module # None
  BY <1>1, AwaitedHolds
<1>3. Top.waits = None
  BY DEF AbortNext
<1>4. initialized
  BY <1>1 DEF SessionInv, Connection
<1>5. QED
  BY <1>2, <1>3, <1>4 DEF AwaitedGoal, AwaitedBy, Top

LEMMA FramePreserves ==
  ASSUME SessionInv, JobInv', UNCHANGED jobVars,
         \/ AbortNext /\ ~(initialized /\ Top.todo # {})
         \/ Turned \/ Stop \/ Close
  PROVE  SessionInv'
<1> USE DEF SessionInv
<1>1. \A g \in owed : job[g].at = "over"
  BY LastModule, NothingAwaited DEF Turned, Stop, Close
<1>2. PICK place \in {"turn", "stop", "close", "down", "destroy"} :
        /\ Moves(place)
        /\ handler.at = "off" => place # "down"
        /\ handler.at # "off" => place # "destroy"
        /\ place = "destroy" => ~ok \/ ~initialized'
  <2>1. /\ Stopped \in {"down", "destroy"}
        /\ handler.at = "off" <=> Stopped = "destroy"
    BY DEF Stopped
  <2>2. CASE AbortNext /\ ~(initialized /\ Top.todo # {})
    BY <2>2 DEF AbortNext
  <2>3. CASE Turned
    BY <2>1, <2>3 DEF Turned
  <2>4. CASE Stop
    BY <2>1, <2>4 DEF Stop
  <2>5. CASE Close
    BY <2>1, <2>5 DEF Close
  <2>6. QED
    BY <2>2, <2>3, <2>4, <2>5
<1>3. /\ main' \in Frames /\ handler' \in Frames
      /\ IF handler.at = "off"
           THEN /\ main'.at = place /\ main'.todo = load.enabled
                /\ handler' = handler
           ELSE /\ handler'.at = place /\ handler'.todo = load.enabled
                /\ main' = main
  BY <1>2, MovesFrame
<1>4. Top.at \in {"abort", "turn", "stop", "close"}
  BY DEF AbortNext, Turned, Stop, Close
<1>5. /\ UNCHANGED <<lost, load, node, held, reconnect, ok, interrupted>>
      /\ timer' \in {"off", "armed", "taken"} /\ servers' \subseteq Modules
      /\ \/ UNCHANGED <<initialized, alive, owed>>
         \/ initialized' = FALSE /\ alive' = FALSE /\ owed' = {}
  BY DEF AbortNext, Turned, Stop, Close, nodeVars, DriverTypeOK
<1>6. DriverTypeOK'
  BY <1>3, <1>5 DEF DriverTypeOK, JobInv, Frames, Modules
<1>7. Control'
  BY <1>2, <1>3, <1>4, <1>5 DEF Control, Top
<1>8. Connection' /\ Awaited'
  BY <1>1, <1>3, <1>5 DEF Connection, Awaited, jobVars
<1>9. QED
  BY <1>6, <1>7, <1>8

----------------------------------------------------------------------------
(* The other steps of the session. *)

LEMMA InterruptPreserves ==
  ASSUME SessionInv, JobInv', Interrupt
  PROVE  SessionInv'
<1> USE DEF SessionInv
<1>1. /\ ~interrupted /\ main.at # "out" /\ interrupted' = TRUE
      /\ reconnect' = FALSE
      /\ UNCHANGED <<jobVars, nodeVars, load, node, held, owed>>
  BY DEF Interrupt
<1>2. /\ \A p \in {"abort", "out"} :
           Frame(p) \in Frames /\ Frame(p).at = p /\ Frame(p).todo = load.enabled
  BY SessionAssumption DEF Frame, Frames, DriverTypeOK
<1>3. CASE held
  <2>1. handler' = Frame("abort") /\ main' = main /\ ok' = ok
    BY <1>3 DEF Interrupt
  <2>2. DriverTypeOK'
    BY <1>1, <1>2, <2>1 DEF DriverTypeOK, JobInv, nodeVars, Frames, Modules
  <2>3. handler.at = "off" /\ ok /\ main.at \notin {"new", "pause", "out"}
    BY <1>1, <1>3 DEF Control
  <2>4. Control' /\ Connection'
    BY <1>1, <1>2, <1>3, <2>1, <2>3 DEF Control, Connection, nodeVars
  <2>5. Awaited'
    BY <1>1, <1>2, <2>1 DEF Awaited, AwaitedGoal, AwaitedBy, jobVars, Late
  <2>6. QED
    BY <2>2, <2>4, <2>5
<1>4. CASE ~held
  <2>1. main' = Frame("out") /\ ok' = FALSE /\ handler' = handler
    BY <1>4 DEF Interrupt
  <2>2. DriverTypeOK'
    BY <1>1, <1>2, <2>1 DEF DriverTypeOK, JobInv, nodeVars, Frames, Modules
  <2>3. handler.at = "off" /\ main.at \in {"new", "pause"}
    BY <1>1, <1>4 DEF Control
  <2>4. Control' /\ Connection'
    BY <1>1, <1>2, <2>1, <2>3 DEF Control, Connection, nodeVars
  <2>5. Awaited'
    BY <1>1, <2>3, NothingAwaited DEF Awaited, jobVars, Top
  <2>6. QED
    BY <2>2, <2>4, <2>5
<1>5. QED
  BY <1>3, <1>4

LEMMA DownPreserves ==
  ASSUME SessionInv, JobInv', Down
  PROVE  SessionInv'
<1> USE DEF SessionInv
<1>1. /\ handler.at = "down" /\ ok' = FALSE /\ handler' = Frame("off")
      /\ UNCHANGED <<jobVars, nodeVars, load, main, node, held, reconnect,
                     interrupted, owed>>
  BY DEF Down
<1>2. /\ Frame("off") \in Frames /\ Frame("off").at = "off"
      /\ Frame("off").todo = load.enabled
  BY SessionAssumption DEF Frame, Frames, DriverTypeOK
<1>3. DriverTypeOK'
  BY <1>1, <1>2 DEF DriverTypeOK, JobInv, nodeVars, Frames, Modules
<1>4. Control' /\ Connection'
  BY <1>1, <1>2 DEF Control, Connection, nodeVars
<1>5. Awaited'
  BY <1>1, NothingAwaited DEF Awaited, jobVars, Top
<1>6. QED
  BY <1>3, <1>4, <1>5

LEMMA TimerPreserves ==
  ASSUME SessionInv, JobInv', TimerTaken \/ HeartbeatCheck \/ LinkBreaks
  PROVE  SessionInv'
<1> USE DEF SessionInv
<1>1. /\ UNCHANGED <<jobVars, loopVars, initialized, servers>>
      /\ timer' \in {"off", "armed", "taken"}
      /\ lost' \in BOOLEAN /\ alive' \in BOOLEAN
  BY DEF TimerTaken, HeartbeatCheck, LinkBreaks, DriverTypeOK
<1>2. DriverTypeOK'
  BY <1>1 DEF DriverTypeOK, JobInv, loopVars, Frames, Modules
<1>3. Control' /\ Connection' /\ Awaited'
  BY <1>1 DEF Control, Connection, Awaited, AwaitedGoal, AwaitedBy, loopVars,
              jobVars, Late
<1>4. QED
  BY <1>2, <1>3

LEMMA NextPreserves == SessionInv /\ [Next]_vars => SessionInv'
<1> SUFFICES ASSUME SessionInv, [Next]_vars PROVE SessionInv'
  OBVIOUS
<1>1. CASE UNCHANGED vars
  <2>1. JobInv' /\ LateStays /\ UNCHANGED sessionVars
    BY <1>1, JobStutters DEF SessionInv, vars
  <2>2. QED
    BY <2>1, GoalsOnly
<1>2. CASE Next
  <2>1. JobInv' /\ LateStays
    BY <1>2, GoalsPreserved
  <2>2. CASE NewNode \/ Made \/ SpinEnds \/ Dies \/ Destroy \/ Again
    <3>1. UNCHANGED jobVars
      BY <2>2 DEF NewNode, Made, SpinEnds, Dies, Destroy, Again
    <3>2. QED
      BY <2>1, <2>2, <3>1, MainPreserves
  <2>3. CASE AbortNext /\ initialized /\ Top.todo # {}
    BY <2>1, <2>3, NextModule
  <2>4. CASE \/ AbortNext /\ ~(initialized /\ Top.todo # {})
             \/ Turned \/ Stop \/ Close
    <3>1. UNCHANGED jobVars
      BY <2>4 DEF AbortNext, Turned, Stop, Close
    <3>2. QED
      BY <2>1, <2>4, <3>1, FramePreserves
  <2>5. CASE AbortWaits
    BY <2>1, <2>5, WaitEnds
  <2>6. CASE Interrupt
    BY <2>1, <2>6, InterruptPreserves
  <2>7. CASE Down
    BY <2>1, <2>7, DownPreserves
  <2>8. CASE TimerTaken \/ HeartbeatCheck \/ LinkBreaks
    BY <2>1, <2>8, TimerPreserves
  <2>9. CASE Goal \/ Task \/ \E g \in Goals : Begins(g) \/ Works(g) \/ Robot(g)
    <3>1. UNCHANGED sessionVars
      BY <2>9 DEF Goal, Task, Begins, Works, Robot
    <3>2. QED
      BY <2>1, <3>1, GoalsOnly
  <2>10. QED
    BY <1>2, <2>2, <2>3, <2>4, <2>5, <2>6, <2>7, <2>8, <2>9 DEF Next, MainThread
<1>3. QED
  BY <1>1, <1>2

(* The invariant holds in every reachable state. *)
THEOREM SessionInvariant == Spec => []SessionInv
<1>1. SessionInv /\ [Next]_vars => SessionInv'
  BY NextPreserves
<1>2. QED
  BY InitSession, <1>1, PTL DEF Spec

----------------------------------------------------------------------------
(* Every variable keeps its type, for every set of goals, modules and      *)
(* loads; so no goal is executed without a module, and no slot holds what  *)
(* is not a goal (action.py, client.py, robomaster_driver.py).             *)
THEOREM TypesHold == Spec => []DriverTypeOK
<1>1. SessionInv => DriverTypeOK
  BY DEF SessionInv
<1>2. QED
  BY <1>1, SessionInvariant, PTL

(* A goal alone on its server succeeds only by the robot's word, however   *)
(* many goals, nodes and interrupts there are; but for a goal for PAUSE    *)
(* whose gripper is silent (action.py:47-66, gripper.py:162-216).          *)
THEOREM NoFalseSuccess == Spec => []SuccessIsTheRobots
<1>1. SessionInv => SuccessIsTheRobots
  BY DEF SessionInv, JobInv
<1>2. QED
  BY <1>1, SessionInvariant, PTL

(* No node is made after Ctrl-C, wherever it found the main loop           *)
(* (robomaster_driver.py:20-43).                                           *)
THEOREM NoNewNode == Spec => NoNodeAfterInterrupt
<1>1. SessionInv /\ [Next]_vars => [interrupted => node' = node]_vars
  <2> SUFFICES ASSUME SessionInv, Next, interrupted PROVE node' = node
    BY DEF vars, sessionVars, loopVars
  <2>1. ~NewNode
    BY DEF NewNode, SessionInv, Control
  <2>2. QED
    BY <2>1 DEF Next, MainThread, Made, SpinEnds, AbortNext, AbortWaits, Turned,
         Stop, Close, Dies, Destroy, Again, Interrupt, Down, TimerTaken,
         HeartbeatCheck, LinkBreaks, Goal, Task, Begins, Works, Robot, sessionVars,
         loopVars
<1>2. QED
  BY <1>1, SessionInvariant, PTL DEF Spec, NoNodeAfterInterrupt

(* stop() closes the connection only after every action that abort() found *)
(* has ended, also when Ctrl-C comes while the main loop aborts            *)
(* (client.py:153-174).                                                    *)
THEOREM NothingLeftBehind == Spec => ClosedAfterAborted
<1>1. SessionInv /\ [Next]_vars =>
        [initialized /\ ~initialized' => \A g \in owed : ~Active(g)]_vars
  <2> SUFFICES ASSUME SessionInv, Next, initialized, ~initialized'
               PROVE  \A g \in owed : ~Active(g)
    OBVIOUS
  <2>1. CASE Close
    BY <2>1, NothingAwaited DEF SessionInv, Close, Active
  <2>2. CASE NewNode
    BY <2>2 DEF NewNode, SessionInv, Control
  <2>3. QED
    BY <2>1, <2>2 DEF Next, MainThread, Made, SpinEnds, AbortNext, AbortWaits,
         Turned, Stop, Dies, Destroy, Again, Interrupt, Down, TimerTaken,
         HeartbeatCheck, LinkBreaks, Goal, Task, Begins, Works, Robot, sessionVars,
         nodeVars, loopVars
<1>2. QED
  BY <1>1, SessionInvariant, PTL DEF Spec, ClosedAfterAborted

=============================================================================
