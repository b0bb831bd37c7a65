---------------------------- MODULE HandleTable ----------------------------
(***************************************************************************)
(* What the ROS 2 interface promises the scripts about handles             *)
(* (sim_ros2_interface.cpp, onScriptStateDestroyed and the create and      *)
(* shutdown commands): a handle is given out once, to a script that lives, *)
(* one at a time; it is released alone, by a command, or together with all *)
(* the other handles of its script, when that script ends.                 *)
(***************************************************************************)
EXTENDS Naturals

CONSTANTS Scripts, None, MaxHandles

VARIABLES
  alive,   (* the scripts that live                                        *)
  holder,  (* the script that holds each handle, None if nobody does       *)
  issued   (* the number of handles given out                              *)

tableVars == <<alive, holder, issued>>

Handles == 1 .. MaxHandles

TableInit ==
  /\ alive = {}
  /\ holder = [h \in Handles |-> None]
  /\ issued = 0

Starts(s) ==
  /\ s \notin alive
  /\ alive' = alive \cup {s}
  /\ UNCHANGED <<holder, issued>>

Issue(s) ==
  /\ s \in alive
  /\ issued < MaxHandles
  /\ issued' = issued + 1
  /\ holder' = [holder EXCEPT ![issued + 1] = s]
  /\ UNCHANGED alive

Release(h) ==
  /\ holder[h] # None
  /\ holder' = [holder EXCEPT ![h] = None]
  /\ UNCHANGED <<alive, issued>>

Ends(s) ==
  /\ s \in alive
  /\ alive' = alive \ {s}
  /\ holder' = [h \in Handles |-> IF holder[h] = s THEN None ELSE holder[h]]
  /\ UNCHANGED issued

TableNext ==
  \/ \E s \in Scripts : Starts(s) \/ Issue(s) \/ Ends(s)
  \/ \E h \in Handles : Release(h)

TableSpec == TableInit /\ [][TableNext]_tableVars
=============================================================================
