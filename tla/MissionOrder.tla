---------------------------- MODULE MissionOrder ----------------------------
(***************************************************************************)
(* What the mission promises whoever watches the robot: it goes through    *)
(* the stages of the documented state machine (architecture.md, "State     *)
(* machine") in their order, skipping and repeating none; the jaws are     *)
(* commanded only on entering a stage that waits for them; the cube        *)
(* disappears from the lidar when the robot sets off with it and comes     *)
(* back when it has been put down.  The mission may also end at any time;  *)
(* if it ends while commanding the jaws, the command may be lost.          *)
(***************************************************************************)
EXTENDS Sequences, Naturals

VARIABLES
  running,  (* the mission has not been ended from outside                 *)
  stage,    (* the stage it is in                                          *)
  jaws,     (* the last command given to the jaws                          *)
  hidden    (* the cube is hidden from the lidar                           *)

orderVars == <<running, stage, jaws, hidden>>

Stages == <<"explore", "go_to_key", "pickup_open", "pickup_align",
            "pickup_close", "go_to_plate", "drop_align", "drop_open",
            "drop_backup", "done">>

(* The command that entering a stage gives to the jaws. *)
JawCommand(s) ==
  IF s \in {"pickup_open", "drop_open"} THEN {"open"}
  ELSE IF s = "pickup_close" THEN {"closed"}
  ELSE {}

OrderInit ==
  /\ running = TRUE
  /\ stage = "explore"
  /\ jaws = "none"
  /\ hidden = FALSE

Enter(s) ==
  /\ running
  /\ \E i \in 1 .. Len(Stages) - 1 : stage = Stages[i] /\ s = Stages[i + 1]
  /\ stage' = s
  /\ hidden' = IF s = "go_to_plate" THEN TRUE
               ELSE IF s = "drop_backup" THEN FALSE
               ELSE hidden

Advance ==
  \E s \in {Stages[i] : i \in 1 .. Len(Stages)} :
    /\ Enter(s)
    /\ running' = TRUE
    /\ IF JawCommand(s) = {} THEN jaws' = jaws ELSE jaws' \in JawCommand(s)

EndsCommanding ==
  \E s \in {Stages[i] : i \in 1 .. Len(Stages)} :
    /\ JawCommand(s) # {}
    /\ Enter(s)
    /\ running' = FALSE
    /\ jaws' = jaws

Ends ==
  /\ running
  /\ running' = FALSE
  /\ UNCHANGED <<stage, jaws, hidden>>

OrderNext == Advance \/ EndsCommanding \/ Ends

OrderSpec == OrderInit /\ [][OrderNext]_orderVars
=============================================================================
