---------------------------- MODULE DoorController ----------------------------
(***************************************************************************)
(* door_controller.py: one node after another polls the cube and moves the *)
(* door of the scene.  The world is a record [door, node]: the height of   *)
(* the door, which outlives the nodes, and the fields of the running node, *)
(* or None.                                                                *)
(***************************************************************************)
EXTENDS Integers

CONSTANTS
  HalfX, HalfY, Margin,  (* the plate's extents, and xy_margin             *)
  Below, Above,          (* the limits of dz: 0.05 and z_max_offset        *)
  OpenDistance,
  Latch,
  None

Within(d, bound) == -bound <= d /\ d <= bound

Triggered(d) ==
  /\ Within(d.x, HalfX + Margin)
  /\ Within(d.y, HalfY + Margin)
  /\ -Below <= d.z /\ d.z <= Above

(* __init__ takes the door where it stands for the closed door.            *)
Started(w) ==
  [w EXCEPT !.node = [is_open |-> FALSE, door_closed_pos |-> w.door,
                      door_open_pos |-> w.door - OpenDistance]]

Dead(w) == [w EXCEPT !.node = None]

(* setObjectPosition() may raise before or after the door has moved: the   *)
(* timer callback lets that pass and the node ends.  A failure of          *)
(* resetDynamicObject() is swallowed.                                      *)
Moved(w, pos, open, fault) ==
  CASE fault = "before" -> Dead(w)
    [] fault = "after"  -> Dead([w EXCEPT !.door = pos])
    [] OTHER -> [w EXCEPT !.door = pos, !.node.is_open = open]

open_door(w, fault) == Moved(w, w.node.door_open_pos, TRUE, fault)
close_door(w, fault) == Moved(w, w.node.door_closed_pos, FALSE, fault)

(* One tick; d is the cube seen from the plate, None if a query failed.    *)
tick(w, d, fault) ==
  CASE d = None -> w
    [] d # None /\ Triggered(d) /\ ~w.node.is_open -> open_door(w, fault)
    [] d # None /\ ~Triggered(d) /\ w.node.is_open /\ ~Latch ->
         close_door(w, fault)
    [] OTHER -> w

=============================================================================
