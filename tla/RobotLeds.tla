------------------------------- MODULE RobotLeds -------------------------------
(***************************************************************************)
(* led.cpp: a LED of several bulbs, and the blaster's LED.                 *)
(*                                                                         *)
(* A static effect lights or darkens the bulbs of a mask and leaves the    *)
(* others; a dynamic one takes all of them.  Nothing is shown before the   *)
(* next step, and the step forwards every bulb.  A LED of the chassis is   *)
(* the case of one bulb; a scroll is a flash with other phases.            *)
(***************************************************************************)
EXTENDS RobotActions

CONSTANTS
  Bulbs,      (* indices of the bulbs                                      *)
  Colors,     (* colours that may be asked for                             *)
  Phases      (* t1, t2 of an effect, in time units                        *)

ASSUME LedAssumption ==
  /\ None \notin Colors
  /\ Phases \subseteq Nat \ {0}

VARIABLES
  led,       (* the fields of CompositeLED                                 *)
  shown,     (* per bulb the colour that was forwarded last                *)
  blaster,   (* blaster_led.intensity: desired and target                  *)
  touched    (* history: bulbs commands may have changed since the last    *)
             (* step                                                       *)

ledVars == <<led, shown, blaster, touched>>

(* The colour of a bulb that is off. *)
Dark == None

Static == {"off", "on"}
Effects == Static \cup {"breath", "flash"}
Shades == Colors \cup {Dark}

LedTypeOK ==
  /\ led \in [effect : Effects, asked : Shades, color : Shades,
              bulb : [Bulbs -> Shades], on : Nat, off : Nat, time : Nat,
              loop : BOOLEAN, active : BOOLEAN]
  /\ shown \in [Bulbs -> Shades]
  /\ blaster \in [desired : BOOLEAN, target : BOOLEAN]
  /\ touched \subseteq Bulbs

LedInit ==
  /\ led = [effect |-> "off", asked |-> Dark, color |-> Dark,
            bulb |-> [b \in Bulbs |-> Dark], on |-> 0, off |-> 0, time |-> 0,
            loop |-> TRUE, active |-> FALSE]
  /\ shown = [b \in Bulbs |-> Dark]
  /\ blaster = [desired |-> FALSE, target |-> FALSE]
  /\ touched = {}

(* Mutant of Lit: the mask is not looked at.                               *)
LitAll(e, c, mask) ==
  [b \in Bulbs |-> IF e = "on" THEN c ELSE Dark]

(* colors after update(): a dynamic effect clears them.                    *)
Lit(e, c, mask) ==
  [b \in Bulbs |-> IF e \notin Static THEN Dark
                   ELSE IF b \notin mask THEN led.bulb[b]
                   ELSE IF e = "on" THEN c ELSE Dark]

(* set_led_effect(), from SetSystemLed or a script: CompositeLED::update() *)
SetLedEffect(e, c, mask, on, off, loop) ==
  /\ led' = [effect |-> e, asked |-> c,
             color |-> IF e = "on" THEN c ELSE IF e = "off" THEN Dark
                                               ELSE led.color,
             bulb |-> Lit(e, c, mask), on |-> on, off |-> off, time |-> 0,
             loop |-> loop, active |-> TRUE]
  /\ touched' = IF e \in Static THEN touched \cup mask ELSE Bulbs
  /\ UNCHANGED <<shown, blaster>>

(* BlasterSetLed: set_blaster_led()                                        *)
SetBlasterLed(on) ==
  /\ blaster' = [blaster EXCEPT !.desired = on]
  /\ UNCHANGED <<led, shown, touched>>

(* The colour of a dynamic effect: a flash is lit first, then dark; a      *)
(* breath takes any shade.                                                 *)
Color(t, c) ==
  IF led.effect = "breath" THEN c ELSE IF t < led.on THEN led.asked ELSE Dark

(* fmod(_time, period)                                                     *)
Wrapped(t) == t % (led.on + led.off)

(* ActiveLED::do_step()                                                    *)
Lights(c) ==
  LET t == led.time + StepLen
  IN  IF ~led.active THEN led
      ELSE IF led.effect \in Static \/ (~led.loop /\ t > led.on + led.off)
        THEN [led EXCEPT !.active = FALSE,
                         !.time = IF led.effect \in Static THEN @ ELSE t]
      ELSE [led EXCEPT !.time = Wrapped(t), !.color = Color(Wrapped(t), c)]

(* get_color()                                                             *)
Shade(b) == IF led.effect \in Static THEN led.bulb[b] ELSE led'.color

(* Robot::control_leds(): a LED that was active forwards all its bulbs.    *)
LedStep ==
  /\ \E c \in {led.asked, Dark} : led' = Lights(c)
  /\ shown' = IF led.active THEN [b \in Bulbs |-> Shade(b)] ELSE shown
  /\ blaster' = [blaster EXCEPT !.target = blaster.desired]
  /\ touched' = IF led.effect \in Static THEN {} ELSE Bulbs

----------------------------------------------------------------------------
(* A bulb outside the masks of the commands for static light keeps its     *)
(* light, although every step of an active LED forwards all of its bulbs   *)
(* (led.cpp:82-105, robot.cpp:98-113).                                     *)
OtherBulbsKeepTheirLight ==
  [][\A b \in Bulbs \ touched : shown'[b] = shown[b]]_ledVars

=============================================================================
