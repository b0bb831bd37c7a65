------------------------------ MODULE WireChecks ------------------------------
(***************************************************************************)
(* The frames of the simulated robot with their real checksums, over       *)
(* bounded inputs.  The assumptions are evaluated by the runs of           *)
(* MCCommandSession, whose requests and pushes travel in these frames.     *)
(***************************************************************************)
EXTENDS Integers, Sequences
LOCAL INSTANCE SequencesExt
LOCAL INSTANCE FiniteSets
LOCAL INSTANCE Checksum

LOCAL Wire == INSTANCE Protocol WITH HeaderCrc <- crc8_calc, FrameCrc <- crc16_calc

(* Entries of the two tables as protocol.cpp lists them: the first, some   *)
(* of the middle and the last.                                             *)
ASSUME TablesAreTheListedOnes ==
  /\ <<crc8_table[0], crc8_table[1], crc8_table[2], crc8_table[128], crc8_table[255]>>
       = <<0, 94, 188, 140, 53>>
  /\ <<crc16_table[0], crc16_table[1], crc16_table[2], crc16_table[128], crc16_table[255]>>
       = <<0, 4489, 8978, 33800, 3960>>

(* The two sums start where protocol.cpp starts them, and the shortest     *)
(* frame begins as all of this family of protocols do: 55 0d 04 33.        *)
ASSUME SumsStartWhereTheyShould ==
  /\ crc8_calc(<<>>) = 119 /\ crc16_calc(<<>>) = 13970
  /\ SubSeq(Wire!EncodeMsg([isAck |-> TRUE, needAck |-> FALSE, seq |-> 1,
                            sender |-> 9, receiver |-> 2], 63, 81, <<>>), 1, 4)
       = <<85, 13, 4, 51>>

(* The header's checksum notices every error in one or two of its bits.    *)
Flipped(bytes, bit) ==
  [i \in DOMAIN bytes |->
     IF i # bit \div 8 + 1 THEN bytes[i]
     ELSE IF (bytes[i] \div 2^(bit % 8)) % 2 = 1 THEN bytes[i] - 2^(bit % 8)
                                                ELSE bytes[i] + 2^(bit % 8)]

Request(seq, attri, set, id, payload) ==
  LET r == [isAck |-> FALSE, needAck |-> attri = 64, seq |-> seq, sender |-> 2, receiver |-> 9]
      frame == Wire!EncodeMsg(r, set, id, payload)
  IN  [frame EXCEPT ![9] = attri]

ASSUME HeaderErrorsAreNoticed ==
  LET frame == Request(258, 64, 63, 81, <<1, 2, 3>>)
  IN  \A b, c \in 0 .. 31 :
        LET wrong == IF b = c THEN Flipped(frame, b) ELSE Flipped(Flipped(frame, b), c)
        IN  ~ Wire!Decodes(wrong, Len(frame))

(* What a frame carries is found again, for the shortest and the longest   *)
(* payload and those about the carry of the length's eighth bit.  The      *)
(* frame's checksum is not computed here: no decoder looks at it.          *)
Unread(frame) == 4660
LOCAL Long == INSTANCE Protocol WITH HeaderCrc <- crc8_calc, FrameCrc <- Unread

ASSUME FramesAreRead ==
  \A n \in {0, 1, 242, 243, 1010}, seq \in {0, 255, 256, 65535}, ack \in BOOLEAN :
    LET payload == [i \in 1 .. n |-> i % 256]
        r == [isAck |-> ack, needAck |-> ~ack, seq |-> seq, sender |-> 9, receiver |-> 2]
        frame == Long!EncodeMsg(r, 63, 81, payload)
        q == Long!DecodeRequest(frame)
    IN  /\ Long!Decodes(frame, Len(frame))
        /\ \A cut \in {1, 2, 12} : ~ Long!Decodes(frame, Len(frame) - cut)
        /\ <<q.set, q.id, q.seq, q.sender, q.receiver>> = <<63, 81, seq, 9, 2>>
        /\ SubSeq(q.payload, 1, n) = payload
        /\ q.attri = IF ack THEN 128 ELSE 32

(* Every request whose handler answers gets one answer, addressed back and *)
(* with the request's number; it is marked as an acknowledgement only if   *)
(* the request asked for one, and asks for one itself otherwise.           *)
Handlers == (16209 :> [valid |-> TRUE, payload |-> <<0, 7>>])
              @@ (20799 :> [valid |-> FALSE, payload |-> <<0>>])

ASSUME AnswersFindTheirWay ==
  \A seq \in {0, 255, 256, 65535}, attri \in {0, 32, 64, 96} :
    LET Answer(set, id) ==
          LET frame == Request(seq, attri, set, id, <<5>>)
          IN  Wire!AnswerRequest(Handlers, frame, Len(frame))
        q == Wire!DecodeRequest(Answer(63, 81))
    IN  /\ <<q.sender, q.receiver, q.seq, q.set, q.id>> = <<9, 2, seq, 63, 81>>
        /\ q.attri = IF attri = 0 THEN 32 ELSE 128
        /\ Answer(81, 63) = <<>>
        /\ Answer(63, 82) = <<>>

(* The connection port answers its one request, and no other.              *)
ASSUME ConnectionIsAnswered ==
  LET Ask(id) ==
        LET frame == Request(1, 64, 63, id, <<0, 0, 0, 0, 127, 0, 0, 1, 0, 80>>)
        IN  Wire!AnswerRequest(Wire!SetSdkConnection, frame, Len(frame))
  IN  /\ SubSeq(Ask(212), 10, 17) = <<63, 212, 0, 2, 0, 0, 0, 0>>
      /\ Ask(213) = <<>>

(* The frame's own checksum is sent and never looked at: a request with    *)
(* any one bit wrong behind its header is answered all the same, as long   *)
(* as its key still names a handler.                                       *)
ASSUME PayloadErrorsAreNot ==
  LET frame == Request(258, 64, 63, 81, <<1, 2, 3>>)
  IN  \A b \in (88 .. 8 * Len(frame) - 1) :
        Wire!AnswerRequest(Handlers, Flipped(frame, b), Len(frame))
          = Wire!AnswerRequest(Handlers, frame, Len(frame))

(* A datagram of four bytes with a frame's header and a length of at most  *)
(* four passes: set, number and payload are then those of the datagram     *)
(* that came before.                                                       *)
ASSUME ShortFramesTakeOldBytes ==
  LET old == Request(7, 64, 63, 81, <<1, 2, 3>>)
      top == <<85, 4, 4>>
      data == Wire!Received(old, Append(top, crc8_calc(top)))
  IN  /\ Wire!Decodes(data, 4)
      /\ Wire!AnswerRequest(Handlers, data, 4) = Wire!AnswerRequest(Handlers, old, Len(old))

(* The discovery message is read by the application as it was written: the *)
(* cipher is its own inverse, and the message has its fixed layout.        *)
ASSUME DiscoveryIsRead ==
  \A app \in {<<>>, <<97>>, [i \in 1 .. 7 |-> 97], [i \in 1 .. 9 |-> 96 + i]}, pairing \in BOOLEAN :
    LET m == Wire!DiscoveryMessage(pairing, <<127, 0, 0, 1>>, <<3, 1, 3, 1, 3, 1>>, app)
    IN  /\ Len(m) = 24
        /\ encrypt(encrypt(m)) = m
        /\ encrypt(m) # m
        /\ SubSeq(m, 1, 2) = <<90, 91>>
        /\ SubSeq(m, 7, 10) = <<127, 0, 0, 1>>
        /\ \A i \in 1 .. 8 : m[16 + i] = IF i <= Len(app) THEN app[i] ELSE 0

(* Announcements keep their rate whatever the steps, as long as no step is *)
(* longer than the period: after any steps, as many were sent as periods   *)
(* have passed.                                                            *)
ASSUME AnnouncementsKeepTheirRate ==
  \A steps \in [1 .. 6 -> 1 .. 4] :
    LET d == FoldLeft(Wire!Announced, [active |-> TRUE, period |-> 4, deadline |-> 4, sent |-> 0], steps)
        time == FoldLeft(+, 0, steps)
    IN  d.sent = (time - 1) \div 4

=============================================================================
