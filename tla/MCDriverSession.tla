---------------------------- MODULE MCDriverSession ----------------------------
(* DriverSession: a node that is made again, without goals; one goal of a  *)
(* module, whose robot may be lost, and Ctrl-C; two goals of one module;   *)
(* and two goals of the gripper or the servo and Ctrl-C.                   *)
EXTENDS DriverSession

CONSTANTS g1, g2

Anew == [enabled |-> {"arm"}, goals |-> {}, nodes |-> 2, loss |-> TRUE,
         interrupt |-> TRUE]
One(k) == [Anew EXCEPT !.enabled = {k}, !.goals = {g1}, !.nodes = 1]
Two(k) == [One(k) EXCEPT !.goals = {g1, g2}, !.loss = FALSE,
                         !.interrupt = k \in {"gripper", "servo"}]

MCLoads == {Anew} \cup {One(k) : k \in Kinds \ {"chassis"}} \cup {Two(k) : k \in Kinds}
=============================================================================
