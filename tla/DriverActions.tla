----------------------------- MODULE DriverActions -----------------------------
(***************************************************************************)
(* action.py and the action servers of the driver (arm, chassis, gimbal,   *)
(* servo, speaker, gripper): a ROS goal, the thread that executes it, and  *)
(* the action of the robot that it waits for.                              *)
(*                                                                         *)
(* Goals, cancellations, the threads, the pushes of the robot and the      *)
(* driver's abort() interleave.  An execution is a task of the executor,   *)
(* which somebody has to spin: the callback group of its server keeps the  *)
(* goal and cancel callbacks apart, but not the executions, so two goals   *)
(* accepted in a row are executed side by side.                            *)
(* FAILED, EXCEPTION and ABORTED are one state, "failed": the code only    *)
(* asks has_succeeded.  Times are not counted: a wait may end whenever its *)
(* condition allows it.                                                    *)
(***************************************************************************)
EXTENDS Naturals

CONSTANTS
  Goals,     (* goal handles                                               *)
  Kinds,     (* modules with an action server                              *)
  MaxNodes,  (* bound: nodes (connections) in one behaviour                *)
  None

(* Every node has a module of each kind. *)
Modules == (1 .. MaxNodes) \X Kinds

ASSUME DriverAssumption ==
  /\ Kinds \subseteq {"arm", "chassis", "gimbal", "servo", "speaker", "gripper"}
  /\ MaxNodes \in Nat
  /\ None \notin Goals \cup Modules

VARIABLES
  job,       (* per goal: its module, where its execution is, the state of *)
             (* the goal, of the SDK's action and of its event, and        *)
             (* whether a push came since the wait began                   *)
  robot,     (* per goal: the robot is at it, has said it did it, or else  *)
  pending,   (* ActionDispatcher._in_progress                              *)
  tracked,   (* per module self.action; of the gripper who holds its lock  *)
  flag,      (* modules whose should_abort is set                          *)
  stopping,  (* modules with a _stop_action task                           *)
  crowd,     (* history: goals that met another one on their server        *)
  mute       (* history: goals for PAUSE of whose gripper nothing is heard *)

jobVars == <<job, robot, pending, tracked, flag, stopping, crowd, mute>>

Places == {"none", "task", "check", "create", "lock", "track", "wait", "quit",
           "report", "over"}
Answers == {"succeeded", "canceled", "aborted", "rejected"}

Jobs == [module : Modules \cup {None}, at : Places,
         goal : {"none", "executing", "canceling"} \cup Answers,
         sdk : {"running", "succeeded", "failed"},
         woke : BOOLEAN, heard : BOOLEAN]

JobTypeOK ==
  /\ job \in [Goals -> Jobs]
  /\ robot \in [Goals -> {"idle", "busy", "done"}]
  /\ pending \subseteq Goals
  /\ tracked \in [Modules -> Goals \cup {None}]
  /\ flag \subseteq Modules
  /\ stopping \subseteq Modules
  /\ crowd \subseteq Goals
  /\ mute \subseteq Goals

JobInit ==
  /\ job = [g \in Goals |-> [module |-> None, at |-> "none", goal |-> "none",
                             sdk |-> "running", woke |-> FALSE,
                             heard |-> FALSE]]
  /\ robot = [g \in Goals |-> "idle"]
  /\ pending = {}
  /\ tracked = [m \in Modules |-> None]
  /\ flag = {}
  /\ stopping = {}
  /\ crowd = {}
  /\ mute = {}

Kind(g) == job[g].module[2]
Active(g) == job[g].at \notin {"none", "over"}
Free(m) == tracked[m] = None

(* Where the code of the servers differs. *)
Rechecks == {"gimbal", "gripper"}       (* execute looks at its slot again *)
CancelFirst == {"arm", "chassis", "gripper"}  (* a cancelled goal is       *)
                                        (* "canceled" even if it succeeded *)
Timed == {"arm", "servo", "gripper"}    (* executions with a time limit    *)
Infers == Kinds \ {"servo", "gripper"}  (* those that call wait_action()   *)
Catches == {"arm", "chassis", "gimbal", "speaker"}  (* goal_handle.abort() *)
                                        (* may fail after the shutdown     *)
Refuses == {"gimbal", "servo", "speaker"}  (* a goal may be impossible: an *)
                                        (* unknown servo or sound, a frame *)

Goes(g, place) == job' = [job EXCEPT ![g] = [@ EXCEPT !.at = place, !.heard = FALSE]]
Ends(g, s) == job' = [job EXCEPT ![g] = [@ EXCEPT !.at = "over", !.goal = s]]

----------------------------------------------------------------------------
(* Callbacks for goals and cancellations. *)

(* new_*_goal_callback() *)
NewGoal(g, m) ==
  /\ job[g].at = "none"
  /\ LET met == {o \in Goals : Active(o) /\ job[o].module = m}
     IN  IF Free(m)
           THEN /\ job' = [job EXCEPT ![g] =
                             [@ EXCEPT !.module = m, !.goal = "executing",
                                       !.at = "task"]]
                /\ crowd' = IF met = {} THEN crowd ELSE crowd \cup met \cup {g}
           ELSE /\ Ends(g, "rejected")
                /\ UNCHANGED crowd
  /\ UNCHANGED <<robot, pending, tracked, flag, stopping, mute>>

(* cancel_*_callback(); the servo's rejects. *)
Cancel(g) ==
  /\ job[g].goal = "executing"
  /\ Kind(g) # "servo"
  /\ job' = [job EXCEPT ![g].goal = "canceling"]
  /\ LET m == job[g].module
     IN  IF m[2] = "gripper"
           THEN flag' = flag \cup {m} /\ UNCHANGED stopping
           ELSE /\ stopping' = IF Free(m) THEN stopping ELSE stopping \cup {m}
                /\ UNCHANGED flag
  /\ UNCHANGED <<robot, pending, tracked, crowd, mute>>

(* _stop_action(), for whatever action the module has by now: abort_action *)
(* asks the robot to stop, which the simulator ignores, and gives the      *)
(* action up after a second; the gimbal and the speaker give it up at      *)
(* once.                                                                   *)
StopAction(m) ==
  /\ m \in stopping
  /\ stopping' = stopping \ {m}
  /\ IF Free(m) THEN UNCHANGED <<job, robot>>
     ELSE LET g == tracked[m]
              asks == m[2] \in {"arm", "chassis"}
          IN  /\ \/ job' = [job EXCEPT ![g].sdk = "failed"]
                 \/ asks /\ (g \notin pending \/ job[g].woke) /\ UNCHANGED job
              /\ \/ UNCHANGED robot
                 \/ asks /\ g \in pending /\ robot[g] = "busy"
                      /\ robot' = [robot EXCEPT ![g] = "idle"]
  /\ UNCHANGED <<pending, tracked, flag, crowd, mute>>

----------------------------------------------------------------------------
(* An execution. *)

(* The executor hands the task to a thread. *)
Dispatch(g) ==
  /\ job[g].at = "task"
  /\ Goes(g, IF Kind(g) \in Rechecks THEN "check" ELSE "create")
  /\ UNCHANGED <<robot, pending, tracked, flag, stopping, crowd, mute>>

(* The slot is looked at again; a goal that needs no move succeeds.        *)
Check(g) ==
  /\ job[g].at = "check"
  /\ IF Free(job[g].module) THEN Goes(g, "create") ELSE Ends(g, "aborted")
  /\ UNCHANGED <<robot, pending, tracked, flag, stopping, crowd, mute>>

SucceedAtOnce(g) ==
  /\ job[g].at = "create"
  /\ Kind(g) \in {"arm", "gripper"}
  /\ Ends(g, "succeeded")
  /\ robot' = [robot EXCEPT ![g] = "done"]
  /\ UNCHANGED <<pending, tracked, flag, stopping, crowd, mute>>

(* The action is created and sent.  One whose target has an action already *)
(* cannot be: the goal is aborted, or, by the arm, the other action is     *)
(* forgotten (remove_action_with_target).                                  *)
Create(g) ==
  LET others == {o \in pending : job[o].module = job[g].module}
  IN  /\ job[g].at = "create"
      /\ Kind(g) # "gripper"
      /\ \/ /\ others = {}
            /\ pending' = pending \cup {g}
            /\ robot' = [robot EXCEPT ![g] = "busy"]
            /\ Goes(g, "track")
         \/ /\ others # {} /\ Kind(g) = "arm"
            /\ pending' = pending \ others
            /\ UNCHANGED <<job, robot>>
         \/ /\ Kind(g) # "arm"
            /\ others # {} \/ Kind(g) \in Refuses
            /\ Ends(g, "aborted")
            /\ UNCHANGED <<pending, robot>>
      /\ UNCHANGED <<tracked, flag, stopping, crowd, mute>>

Track(g) ==
  /\ job[g].at = "track"
  /\ Kind(g) # "gripper"
  /\ tracked' = [tracked EXCEPT ![job[g].module] = g]
  /\ Goes(g, "wait")
  /\ UNCHANGED <<robot, pending, flag, stopping, crowd, mute>>

(* The gripper has to move, and this execution will take its lock ...      *)
Queue(g) ==
  /\ job[g].at = "create"
  /\ Kind(g) = "gripper"
  /\ Goes(g, "lock")
  /\ UNCHANGED <<robot, pending, tracked, flag, stopping, crowd, mute>>

(* ... for which it is blocked in acquire() while another one holds it.    *)
Acquire(g) ==
  /\ job[g].at = "lock"
  /\ Kind(g) = "gripper" /\ Free(job[g].module)
  /\ tracked' = [tracked EXCEPT ![job[g].module] = g]
  /\ Goes(g, "track")
  /\ UNCHANGED <<robot, pending, flag, stopping, crowd, mute>>

(* should_abort is cleared and the command sent.  Here sdk says whether    *)
(* feedback_msg.current_state is the target: before any message it is 0,   *)
(* which is PAUSE.                                                         *)
Grip(g) ==
  /\ job[g].at = "track"
  /\ Kind(g) = "gripper"
  /\ flag' = flag \ {job[g].module}
  /\ robot' = [robot EXCEPT ![g] = "busy"]
  /\ \E s \in {"running", "succeeded"} :
       /\ job' = [job EXCEPT ![g] = [@ EXCEPT !.at = "wait", !.sdk = s]]
       /\ mute' = IF s = "succeeded" THEN mute \cup {g} ELSE mute
  /\ UNCHANGED <<pending, tracked, stopping, crowd>>

(* What ends a wait by itself. *)
Wakes(g) ==
  \/ job[g].woke
  \/ /\ Kind(g) = "gripper"
     /\ job[g].module \in flag \/ job[g].goal = "canceling"

(* Mutant of Wait: it has no time limit. *)
WaitPatient(g) ==
  /\ job[g].at = "wait"
  /\ \/ Wakes(g) /\ Goes(g, "report")
     \/ /\ ~Wakes(g) /\ Kind(g) \in Infers
        /\ IF job[g].heard THEN job' = [job EXCEPT ![g].heard = FALSE]
                           ELSE Goes(g, "quit")
  /\ UNCHANGED <<robot, pending, tracked, flag, stopping, crowd, mute>>

(* A turn of wait_action(), wait_for_completed() or the gripper's loop:    *)
(* the event first, then the time limit, then silence.                     *)
Wait(g) ==
  /\ job[g].at = "wait"
  /\ \/ Wakes(g) /\ Goes(g, "report")
     \/ ~Wakes(g) /\ Kind(g) \in Timed /\ Goes(g, "quit")
     \/ /\ ~Wakes(g) /\ Kind(g) \in Infers
        /\ IF job[g].heard THEN job' = [job EXCEPT ![g].heard = FALSE]
                           ELSE Goes(g, "quit")
  /\ UNCHANGED <<robot, pending, tracked, flag, stopping, crowd, mute>>

(* It gives up, also when the last push came after it had decided to.      *)
Quit(g) ==
  /\ job[g].at = "quit"
  /\ IF Kind(g) = "gripper" THEN Goes(g, "report")
     ELSE job' = [job EXCEPT ![g] = [@ EXCEPT !.at = "report", !.sdk = "failed"]]
  /\ UNCHANGED <<robot, pending, tracked, flag, stopping, crowd, mute>>

(* Mutant of Succeeded: an action that ended has succeeded. *)
SucceededByEvent(g) == job[g].woke

(* has_succeeded: of the arm's own action, but of self.action elsewhere.   *)
Succeeded(g) ==
  CASE Kind(g) = "gripper" -> /\ job[g].sdk = "succeeded"
                              /\ job[g].module \notin flag
    [] Kind(g) = "arm" -> job[g].sdk = "succeeded"
    [] OTHER -> /\ ~Free(job[g].module)
                /\ job[tracked[job[g].module]].sdk = "succeeded"

Outcome(g) ==
  LET canceling == job[g].goal = "canceling"
  IN  IF canceling /\ Kind(g) \in CancelFirst THEN "canceled"
      ELSE IF Succeeded(g) THEN "succeeded"
      ELSE IF canceling THEN "canceled" ELSE "aborted"

(* self.action is None by now, or the context is shut down: the execution  *)
(* ends by an exception and does not clear self.action.                    *)
Raises(g, ok) ==
  \/ /\ Kind(g) \notin {"arm", "gripper"} /\ Free(job[g].module)
     /\ ~(Kind(g) = "chassis" /\ job[g].goal = "canceling")
  \/ ~ok /\ ~(Outcome(g) = "aborted" /\ Kind(g) \in Catches)

(* Mutant of Report: self.action is cleared after a success only. *)
ReportKeeps(g, ok) ==
  /\ job[g].at = "report"
  /\ IF Raises(g, ok) \/ Outcome(g) # "succeeded"
       THEN Ends(g, "aborted") /\ UNCHANGED tracked
     ELSE /\ job' = [job EXCEPT ![g] =
                       [@ EXCEPT !.at = "over", !.goal = Outcome(g),
                                 !.sdk = "running", !.woke = FALSE]]
          /\ tracked' = [tracked EXCEPT ![job[g].module] = None]
  /\ UNCHANGED <<robot, pending, flag, stopping, crowd, mute>>

(* The goal is answered, and self.action = None or the lock is released.   *)
Report(g, ok) ==
  /\ job[g].at = "report"
  /\ IF Raises(g, ok) THEN Ends(g, "aborted") /\ UNCHANGED tracked
     ELSE /\ job' = [job EXCEPT ![g] =
                       [@ EXCEPT !.at = "over", !.goal = Outcome(g),
                                 !.sdk = "running", !.woke = FALSE]]
          /\ tracked' = [tracked EXCEPT ![job[g].module] = None]
  /\ UNCHANGED <<robot, pending, flag, stopping, crowd, mute>>

Execute(g, ok) ==
  \/ Check(g) \/ SucceedAtOnce(g) \/ Create(g) \/ Track(g)
  \/ Queue(g) \/ Acquire(g) \/ Grip(g)
  \/ Wait(g) \/ Quit(g) \/ Report(g, ok)

----------------------------------------------------------------------------
(* The robot, as RobotActions models it, and the SDK's dispatcher. *)

(* A push: update_from_push() and the dispatcher's bookkeeping.  Pushes    *)
(* about an action that was forgotten are dropped.  The gripper has no     *)
(* action: its state is published while the goal is, and wakes it when it  *)
(* is the target.                                                          *)
Push(g, s) ==
  /\ robot[g] = "busy"
  /\ robot' = [robot EXCEPT ![g] = CASE s = "running" -> "busy"
                                     [] s = "succeeded" -> "done"
                                     [] OTHER -> "idle"]
  /\ LET told  == Active(g) \/ tracked[job[g].module] = g
         wakes == s = "succeeded" \/ (s = "failed" /\ Kind(g) # "gripper")
     IN  IF g \in pending \/ Kind(g) = "gripper"
           THEN /\ job' = IF ~told THEN job
                          ELSE [job EXCEPT ![g] =
                                 [@ EXCEPT !.heard = job[g].at = "wait"
                                                       /\ Kind(g) \in Infers,
                                           !.sdk = s,
                                           !.woke = job[g].woke \/ wakes]]
                /\ pending' = IF s = "running" THEN pending ELSE pending \ {g}
                /\ mute' = IF Active(g) THEN mute \ {g} ELSE mute
           ELSE UNCHANGED <<job, pending, mute>>
  /\ UNCHANGED <<tracked, flag, stopping, crowd>>

(* It falls silent. *)
Silence(g) ==
  /\ robot[g] = "busy"
  /\ robot' = [robot EXCEPT ![g] = "idle"]
  /\ UNCHANGED <<job, pending, tracked, flag, stopping, crowd, mute>>

----------------------------------------------------------------------------
(* abort() of a module, called by the node. *)

(* action._abort(), which wakes whoever waits for the action.              *)
AbortModule(m) ==
  /\ IF m[2] = "gripper"
       THEN /\ flag' = IF Free(m) THEN flag ELSE flag \cup {m}
            /\ UNCHANGED job
       ELSE /\ job' = IF Free(m) THEN job
                      ELSE [job EXCEPT ![tracked[m]] =
                              [@ EXCEPT !.sdk = "failed", !.woke = TRUE]]
            /\ UNCHANGED flag
  /\ UNCHANGED <<robot, pending, tracked, stopping, crowd, mute>>

----------------------------------------------------------------------------
(* A goal that met no other on its server is answered with success only    *)
(* when the robot said so, or when there was nothing to do: not after a    *)
(* silence, a time limit, a cancellation or an abort, however they race    *)
(* with the last push (action.py:47-66, arm.py:229-262, gimbal.py:195-214).*)
(* But a goal for PAUSE of whose gripper nothing was heard succeeds at its *)
(* time limit, for the feedback nobody filled in says PAUSE                *)
(* (gripper.py:162-216).                                                   *)
SuccessIsTheRobots ==
  \A g \in Goals \ crowd :
    job[g].goal = "succeeded" => robot[g] = "done" \/ g \in mute

=============================================================================
