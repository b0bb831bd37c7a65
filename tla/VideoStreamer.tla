---------------------------- MODULE VideoStreamer ----------------------------
(***************************************************************************)
(* streamer.cpp and the camera of robot.cpp: what starts and stops video   *)
(* and what a simulation step does with a frame.                           *)
(*                                                                         *)
(* Two objects are switched on and off side by side: the robot's camera,   *)
(* which captures frames, and the streamer, whose encoder is made for one  *)
(* size of frame.  The streamer sends by UDP at once, by TCP as soon as a  *)
(* client connects; asking to accept a client cannot be taken back.        *)
(***************************************************************************)
EXTENDS Integers

CONSTANTS
  Resolutions,  (* sizes of a frame                                        *)
  MaxAccepts,   (* bound: accepts that are pending at once                 *)
  None          (* no frame, no encoder, no size yet; an empty place       *)

ASSUME VideoAssumption ==
  /\ None \notin Resolutions
  /\ MaxAccepts \in Nat

VARIABLES
  transport,    (* which VideoStreamer was created                         *)
  streaming,    (* camera.streaming                                        *)
  size,         (* camera.width, camera.height                             *)
  image,        (* the size of camera.image                                *)
  encoder,      (* the size the encoder was made for                       *)
  active,       (* active                                                  *)
  accepts,      (* async_accept calls without a client yet                 *)
  stepped,      (* last_time_step has a value                              *)
  alive         (* the process runs                                        *)

videoVars ==
  <<transport, streaming, size, image, encoder, active, accepts, stepped,
    alive>>

Sizes == Resolutions \cup {None}

VideoTypeOK ==
  /\ transport \in {"udp", "tcp"}
  /\ streaming \in BOOLEAN
  /\ size \in Sizes
  /\ image \in Sizes
  /\ encoder \in Sizes
  /\ active \in BOOLEAN
  /\ accepts \in Nat
  /\ stepped \in BOOLEAN
  /\ alive \in BOOLEAN

VideoInit ==
  /\ transport \in {"udp", "tcp"}
  /\ streaming = FALSE
  /\ size = None
  /\ image = None
  /\ encoder = None
  /\ active = FALSE
  /\ accepts = 0
  /\ stepped = FALSE
  /\ alive = TRUE

(* start_socket(): by UDP frames may go out at once, by TCP a client has   *)
(* to connect first.                                                       *)
StartSocket ==
  \/ /\ transport = "udp"
     /\ active' = TRUE
     /\ UNCHANGED accepts
  \/ /\ transport = "tcp"
     /\ accepts < MaxAccepts
     /\ accepts' = accepts + 1
     /\ UNCHANGED active

(* Robot::start_streaming(): last_time_step has no value before the first  *)
(* step, and only if it happens to be zero the camera is not started; nor  *)
(* is it on a robot without a camera, which never streams.                 *)
StartCamera(r) ==
  \/ streaming' = TRUE /\ size' = r
  \/ (~stepped \/ ~streaming) /\ UNCHANGED <<streaming, size>>

(* Mutant of StartStream: an encoder that exists is used again.            *)
StartStreamReusing(r) ==
  /\ StartCamera(r)
  /\ \/ /\ streaming'
        /\ encoder' = IF encoder = None THEN size' ELSE encoder
        /\ StartSocket
     \/ ~streaming' /\ UNCHANGED <<encoder, active, accepts>>
  /\ UNCHANGED <<transport, image, stepped, alive>>

(* StreamCtrl with state 1: the streamer is started if the camera streams. *)
StartStream(r) ==
  /\ StartCamera(r)
  /\ \/ streaming' /\ encoder' = size' /\ StartSocket
     \/ ~streaming' /\ UNCHANGED <<encoder, active, accepts>>
  /\ UNCHANGED <<transport, image, stepped, alive>>

(* Mutant of Stopped: active is left set.                                  *)
StoppedKeepsActive ==
  /\ streaming' = FALSE
  /\ encoder' = None
  /\ UNCHANGED active

(* Robot::stop_streaming() and VideoStreamer::stop(): a pending accept     *)
(* stays pending.                                                          *)
Stopped ==
  /\ streaming' = FALSE
  /\ active' = FALSE
  /\ encoder' = None

StopStream ==
  /\ Stopped
  /\ UNCHANGED <<transport, size, image, accepts, stepped, alive>>

(* The handler of async_accept.                                            *)
OnAccept ==
  /\ accepts > 0
  /\ accepts' = accepts - 1
  /\ active' = TRUE
  /\ UNCHANGED <<transport, streaming, size, image, encoder, stepped, alive>>

(* A step captures a frame (the simulator may have none of the right size, *)
(* which empties the image), lets the commands do their step, which may    *)
(* stop the stream, and sends what is left: without an encoder, send()     *)
(* follows a null pointer.                                                 *)
VideoStep(stops) ==
  /\ stepped' = TRUE
  /\ \/ streaming /\ image' \in {size, None}
     \/ ~streaming /\ UNCHANGED image
  /\ \/ stops /\ Stopped
     \/ ~stops /\ UNCHANGED <<streaming, active, encoder>>
  /\ alive' = ~(active' /\ image' # None /\ encoder' = None)
  /\ UNCHANGED <<transport, size, accepts>>

=============================================================================
