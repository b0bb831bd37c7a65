------------------------------- MODULE Protocol -------------------------------
(***************************************************************************)
(* protocol.hpp, protocol.cpp and server.cpp: the frames that go over the  *)
(* ports of the simulated robot, how a request is read from the receive    *)
(* buffer and how its answer is addressed; and discovery.cpp, the          *)
(* announcement that precedes a connection.                                *)
(*                                                                         *)
(* Bytes are numbers; the checksums are parameters (Checksum has theirs),  *)
(* because nothing here depends on what they compute.                      *)
(***************************************************************************)
EXTENDS Integers, Sequences

CONSTANTS
  HeaderCrc(_),  (* crc8_calc                                              *)
  FrameCrc(_)    (* crc16_calc                                             *)

Byte == 0 .. 255
Word == 0 .. 65535

(* The length of a frame has ten bits.                                     *)
MaxPayload == 1010

Responses ==
  [isAck : BOOLEAN, needAck : BOOLEAN, seq : Word, sender : Byte, receiver : Byte]

----------------------------------------------------------------------------
(* RequestT and ResponseT. *)

NeedAck(attri) == (attri \div 32) % 4 # 0

ResponseTo(q) ==
  [isAck |-> NeedAck(q.attri), needAck |-> ~NeedAck(q.attri), seq |-> q.seq,
   sender |-> q.receiver, receiver |-> q.sender]

Attri(r) == (IF r.isAck THEN 128 ELSE 0) + (IF r.needAck THEN 32 ELSE 0)

(* encode_msg(): the first three bytes, their checksum and what follows,   *)
(* the payload, and the checksum of all of it with its low byte first.     *)
Top(n) == <<85, (13 + n) % 256, (((13 + n) \div 256) % 4) + 4>>

Rest(r, set, id, top) ==
  <<HeaderCrc(top), r.sender, r.receiver, r.seq % 256, (r.seq \div 256) % 256,
    Attri(r), set, id>>

LowFirst(crc) == <<crc % 256, crc \div 256>>

EncodeMsg(r, set, id, payload) ==
  LET top == Top(Len(payload))
      body == (top \o Rest(r, set, id, top)) \o payload
  IN  body \o LowFirst(FrameCrc(body))

(* The receive buffer after a datagram: behind it stand older bytes.       *)
Received(data, datagram) ==
  [i \in 1 .. Len(data) |->
     IF i <= Len(datagram) THEN datagram[i] ELSE data[i]]

(* decode_request(): the checksum of the header is looked at, that of the  *)
(* frame is not.                                                           *)
Decodes(data, length) ==
  /\ length >= 4
  /\ data[1] = 85
  /\ HeaderCrc(<<data[1], data[2], data[3]>>) = data[4]
  /\ (data[3] % 4) * 256 + data[2] <= length

DecodeRequest(data) ==
  [set |-> data[10], id |-> data[11], seq |-> data[8] * 256 + data[7],
   attri |-> data[9], sender |-> data[5], receiver |-> data[6],
   payload |-> SubSeq(data, 12, Len(data))]

KeyFrom(set, id) == id + 256 * set

(* answer_request(), for the answers that the handlers of the registered   *)
(* keys give (register_message): <<>> when there is none.                  *)
AnswerRequest(answers, data, length) ==
  LET q == DecodeRequest(data)
      key == KeyFrom(q.set, q.id)
  IN  IF Decodes(data, length) /\ key \in DOMAIN answers /\ answers[key].valid
        THEN EncodeMsg(ResponseTo(q), q.set, q.id, answers[key].payload)
        ELSE <<>>

(* The one handler of the connection port: whatever the host asks for, it  *)
(* is told success, state 2 and the address 0.0.0.0 for the robot's own.   *)
SetSdkConnection ==
  [key \in {KeyFrom(63, 212)} |->
     [valid |-> TRUE, payload |-> <<0, 2, 0, 0, 0, 0>>]]

----------------------------------------------------------------------------
(* Discovery. *)

(* discovery_message() before its encryption: eight bytes of the           *)
(* application's name, with its terminating zero if there is room.         *)
DiscoveryMessage(pairing, ip, mac, app) ==
  <<90, 91, 0, 0, 0, IF pairing THEN 1 ELSE 0>> \o ip \o mac
    \o [i \in 1 .. 8 |-> IF i <= Len(app) THEN app[i] ELSE 0]

(* Discovery::do_step(): at most one announcement per step.                *)
Announced(d, step) ==
  IF ~d.active THEN d
  ELSE IF d.deadline - step < 0
    THEN [d EXCEPT !.deadline = @ - step + d.period, !.sent = @ + 1]
    ELSE [d EXCEPT !.deadline = @ - step]

=============================================================================
