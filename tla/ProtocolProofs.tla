---------------------------- MODULE ProtocolProofs ----------------------------
(***************************************************************************)
(* What a frame carries is found again by its reader, for every payload    *)
(* that the ten bits of the length can name and every receive buffer, and  *)
(* an answer goes back to the asker: whatever the two checksums compute.   *)
(***************************************************************************)
EXTENDS Protocol, SequenceTheorems, TLAPS

ChecksumsAreBytes ==
  \A s \in Seq(Byte) : HeaderCrc(s) \in Byte /\ FrameCrc(s) \in Word

(* A number of two bytes and its parts. *)
LEMMA WordSplits ==
  ASSUME NEW n \in Word
  PROVE  /\ n % 256 \in Byte
         /\ n \div 256 \in Byte
         /\ (n \div 256) % 256 = n \div 256
         /\ ((n \div 256) * 256) + (n % 256) = n
<1> DEFINE h == n \div 256
           l == n % 256
<1>1. n \in Int /\ 0 <= n /\ n <= 65535
  BY DEF Word
<1>2. n = 256 * h + l /\ 0 <= l /\ l <= 255 /\ l \in Int
  BY <1>1
<1>3. h \in Int
  BY <1>1
<1> HIDE DEF h, l
<1>4. 0 <= h /\ h <= 255
  BY <1>1, <1>2, <1>3
<1>5. h % 256 = h
  BY <1>3, <1>4
<1>6. h \in Byte /\ l \in Byte
  BY <1>2, <1>3, <1>4 DEF Byte
<1>7. (h * 256) + l = n
  BY <1>2, <1>3
<1> QED BY <1>5, <1>6, <1>7 DEF h, l

LEMMA LengthSplits ==
  ASSUME NEW n \in Nat, n <= MaxPayload
  PROVE  /\ Top(n)[1] = 85
         /\ Top(n)[2] \in Byte
         /\ Top(n)[3] \in Byte
         /\ Top(n) \in Seq(Byte)
         /\ Len(Top(n)) = 3
         /\ ((Top(n)[3] % 4) * 256) + Top(n)[2] = 13 + n
<1> DEFINE m == 13 + n
           h == m \div 256
<1>1. m \in Int /\ 0 <= m /\ m <= 1023
  BY DEF MaxPayload
<1> HIDE DEF m
<1>2. m = 256 * h + (m % 256) /\ 0 <= m % 256 /\ m % 256 <= 255 /\ m % 256 \in Int
  BY <1>1
<1>3. h \in Int /\ 0 <= h /\ h <= 3
  BY <1>1, <1>2
<1> HIDE DEF h
<1>4. h % 4 = h /\ (h + 4) % 4 = h
  BY <1>3
<1>5. Top(n) = <<85, m % 256, h + 4>>
  BY <1>4 DEF Top, m, h
<1>6. 85 \in Byte /\ m % 256 \in Byte /\ h + 4 \in Byte
  BY <1>2, <1>3 DEF Byte
<1>7. (h * 256) + (m % 256) = m
  BY <1>2, <1>3
<1>8. m = 13 + n
  BY DEF m
<1> QED BY <1>4, <1>5, <1>6, <1>7, <1>8

LEMMA AttriIsByte ==
  ASSUME NEW r \in Responses
  PROVE  Attri(r) \in Byte
BY DEF Attri, Responses, Byte

(* Where the bytes of two joined sequences stand. *)
LEMMA Joined ==
  ASSUME NEW s \in Seq(Byte), NEW t \in Seq(Byte)
  PROVE  /\ s \o t \in Seq(Byte)
         /\ Len(s \o t) = Len(s) + Len(t)
         /\ \A i \in 1 .. Len(s) : (s \o t)[i] = s[i]
         /\ \A i \in 1 .. Len(t) : (s \o t)[Len(s) + i] = t[i]
<1>1. Len(s) \in Nat /\ Len(t) \in Nat
  BY LenProperties
<1> QED BY <1>1, ConcatProperties

(* Where the bytes of a frame stand: behind the first three come eight,    *)
(* then the payload, then the checksum.                                    *)
LEMMA FrameLayout ==
  ASSUME ChecksumsAreBytes,
         NEW r \in Responses, NEW set \in Byte, NEW id \in Byte,
         NEW payload \in Seq(Byte), Len(payload) <= MaxPayload,
         NEW frame, frame = EncodeMsg(r, set, id, payload),
         NEW top, top = Top(Len(payload))
  PROVE  /\ frame \in Seq(Byte)
         /\ Len(frame) = 13 + Len(payload)
         /\ \A i \in 1 .. 3 : frame[i] = top[i]
         /\ \A i \in 1 .. 8 : frame[3 + i] = Rest(r, set, id, top)[i]
         /\ \A i \in 1 .. Len(payload) : frame[11 + i] = payload[i]
<1> DEFINE rest == Rest(r, set, id, top)
           head == top \o rest
           body == head \o payload
           crc == FrameCrc(body)
           tail == LowFirst(crc)
           all == body \o tail
<1> HIDE DEF rest, head, body, crc, tail, all
<1>0. Len(payload) \in Nat
  BY LenProperties
<1>1. top \in Seq(Byte) /\ Len(top) = 3
  BY <1>0, LengthSplits
<1>2. rest \in Seq(Byte) /\ Len(rest) = 8
  <2>1. HeaderCrc(top) \in Byte
    BY <1>1 DEF ChecksumsAreBytes
  <2>2. r.sender \in Byte /\ r.receiver \in Byte /\ r.seq \in Word
    BY DEF Responses
  <2>3. r.seq % 256 \in Byte /\ (r.seq \div 256) % 256 \in Byte
    BY <2>2, WordSplits
  <2>4. Attri(r) \in Byte
    BY AttriIsByte
  <2> QED BY <2>1, <2>2, <2>3, <2>4 DEF rest, Rest
<1>3. /\ head \in Seq(Byte) /\ Len(head) = 11
      /\ \A i \in 1 .. 3 : head[i] = top[i]
      /\ \A i \in 1 .. 8 : head[3 + i] = rest[i]
  <2>1. /\ head \in Seq(Byte) /\ Len(head) = Len(top) + Len(rest)
        /\ \A i \in 1 .. Len(top) : head[i] = top[i]
        /\ \A i \in 1 .. Len(rest) : head[Len(top) + i] = rest[i]
    BY <1>1, <1>2, Joined DEF head
  <2> QED BY <1>1, <1>2, <2>1
<1>4. /\ body \in Seq(Byte) /\ Len(body) = 11 + Len(payload)
      /\ \A i \in 1 .. 11 : body[i] = head[i]
      /\ \A i \in 1 .. Len(payload) : body[11 + i] = payload[i]
  <2>1. /\ body \in Seq(Byte) /\ Len(body) = Len(head) + Len(payload)
        /\ \A i \in 1 .. Len(head) : body[i] = head[i]
        /\ \A i \in 1 .. Len(payload) : body[Len(head) + i] = payload[i]
    BY <1>3, Joined DEF body
  <2> QED BY <1>3, <2>1
<1>5. tail \in Seq(Byte) /\ Len(tail) = 2
  <2>1. crc \in Word
    BY <1>4 DEF ChecksumsAreBytes, crc
  <2> QED BY <2>1, WordSplits DEF tail, LowFirst
<1>6. frame = all
  BY DEF EncodeMsg, rest, head, body, crc, tail, all
<1>7. /\ frame \in Seq(Byte) /\ Len(frame) = 13 + Len(payload)
      /\ \A i \in 1 .. 11 + Len(payload) : frame[i] = body[i]
  <2>1. /\ all \in Seq(Byte) /\ Len(all) = Len(body) + Len(tail)
        /\ \A i \in 1 .. Len(body) : all[i] = body[i]
    BY <1>4, <1>5, Joined DEF all
  <2> QED BY <1>0, <1>4, <1>5, <1>6, <2>1
<1>8. \A i \in 1 .. 11 : frame[i] = head[i]
  BY <1>0, <1>4, <1>7
<1>9. \A i \in 1 .. Len(payload) : frame[11 + i] = payload[i]
  BY <1>0, <1>4, <1>7
<1>10. /\ \A i \in 1 .. 3 : frame[i] = top[i]
       /\ \A i \in 1 .. 8 : frame[3 + i] = rest[i]
  BY <1>3, <1>8
<1> QED BY <1>7, <1>9, <1>10 DEF rest

(* A reader finds in a buffer what the frame that fills its first bytes    *)
(* was made of, whatever older bytes stand behind it.                      *)
THEOREM FramesAreRead ==
  ASSUME ChecksumsAreBytes,
         NEW r \in Responses, NEW set \in Byte, NEW id \in Byte,
         NEW payload \in Seq(Byte), Len(payload) <= MaxPayload,
         NEW old \in Seq(Byte), Len(old) >= 13 + Len(payload)
  PROVE  LET frame == EncodeMsg(r, set, id, payload)
             data == Received(old, frame)
             q == DecodeRequest(data)
         IN  /\ Decodes(data, Len(frame))
             /\ q.set = set /\ q.id = id /\ q.seq = r.seq
             /\ q.sender = r.sender /\ q.receiver = r.receiver
             /\ q.attri = Attri(r)
             /\ \A i \in 1 .. Len(payload) : q.payload[i] = payload[i]
<1> DEFINE frame == EncodeMsg(r, set, id, payload)
           data == Received(old, frame)
           top == Top(Len(payload))
           rest == Rest(r, set, id, top)
<1>0. Len(payload) \in Nat /\ Len(old) \in Nat
  BY LenProperties
<1>1. /\ frame \in Seq(Byte) /\ Len(frame) = 13 + Len(payload)
      /\ \A i \in 1 .. 3 : frame[i] = top[i]
      /\ \A i \in 1 .. 8 : frame[3 + i] = rest[i]
      /\ \A i \in 1 .. Len(payload) : frame[11 + i] = payload[i]
  BY FrameLayout
<1> HIDE DEF frame
<1>2. /\ Len(data) = Len(old)
      /\ \A i \in 1 .. Len(frame) : data[i] = frame[i]
  BY <1>0, <1>1 DEF Received
<1> HIDE DEF data
<1>3. /\ top[1] = 85 /\ top = <<top[1], top[2], top[3]>>
      /\ ((top[3] % 4) * 256) + top[2] = 13 + Len(payload)
  <2>1. top = <<top[1], top[2], top[3]>>
    BY DEF Top
  <2> QED BY <1>0, <2>1, LengthSplits
<1>4. /\ rest[1] = HeaderCrc(top) /\ rest[2] = r.sender /\ rest[3] = r.receiver
      /\ rest[4] = r.seq % 256 /\ rest[5] = (r.seq \div 256) % 256
      /\ rest[6] = Attri(r) /\ rest[7] = set /\ rest[8] = id
  BY DEF Rest
<1> HIDE DEF top, rest
<1>5. data[1] = top[1] /\ data[2] = top[2] /\ data[3] = top[3]
  BY <1>0, <1>1, <1>2
<1>6. \A i \in 1 .. 8 : data[3 + i] = rest[i]
  BY <1>0, <1>1, <1>2
<1>7. /\ data[4] = rest[1] /\ data[5] = rest[2] /\ data[6] = rest[3]
      /\ data[7] = rest[4] /\ data[8] = rest[5] /\ data[9] = rest[6]
      /\ data[10] = rest[7] /\ data[11] = rest[8]
  BY <1>6
<1>8. Decodes(data, Len(frame))
  <2>1. Len(frame) >= 4
    BY <1>0, <1>1
  <2>2. HeaderCrc(<<data[1], data[2], data[3]>>) = data[4]
    BY <1>3, <1>4, <1>5, <1>7
  <2>3. (data[3] % 4) * 256 + data[2] <= Len(frame)
    BY <1>0, <1>1, <1>3, <1>5
  <2> QED BY <1>3, <1>5, <2>1, <2>2, <2>3 DEF Decodes
<1>9. data[8] * 256 + data[7] = r.seq
  <2>1. r.seq \in Word
    BY DEF Responses
  <2> QED BY <1>4, <1>7, <2>1, WordSplits
<1>10. \A i \in 1 .. Len(payload) : SubSeq(data, 12, Len(data))[i] = payload[i]
  <2>1. \A i \in 1 .. Len(payload) : data[11 + i] = payload[i]
    BY <1>0, <1>1, <1>2
  <2>2. \A i \in 1 .. Len(payload) : SubSeq(data, 12, Len(data))[i] = data[11 + i]
    BY <1>0, <1>1, <1>2
  <2> QED BY <2>1, <2>2
<1> QED BY <1>4, <1>7, <1>8, <1>9, <1>10 DEF DecodeRequest, frame, data

(* The answer to a request goes back to the asker with the request's       *)
(* number and key, as an acknowledgement if one was asked for; so the      *)
(* asker finds it, whatever the handler says and whatever stands in the    *)
(* asker's buffer.                                                         *)
THEOREM AnswersFindTheAsker ==
  ASSUME ChecksumsAreBytes,
         NEW q \in [set : Byte, id : Byte, seq : Word, attri : Byte,
                    sender : Byte, receiver : Byte, payload : Seq(Byte)],
         NEW data, NEW length,
         DecodeRequest(data) = q, Decodes(data, length),
         NEW answers, KeyFrom(q.set, q.id) \in DOMAIN answers,
         NEW payload \in Seq(Byte), Len(payload) <= MaxPayload,
         answers[KeyFrom(q.set, q.id)] = [valid |-> TRUE, payload |-> payload],
         NEW old \in Seq(Byte), Len(old) >= 13 + Len(payload)
  PROVE  LET frame == AnswerRequest(answers, data, length)
             a == DecodeRequest(Received(old, frame))
         IN  /\ Decodes(Received(old, frame), Len(frame))
             /\ a.sender = q.receiver /\ a.receiver = q.sender
             /\ a.seq = q.seq /\ a.set = q.set /\ a.id = q.id
             /\ (a.attri >= 128) <=> NeedAck(q.attri)
<1> DEFINE r == ResponseTo(q)
<1>1. r \in Responses
  BY DEF ResponseTo, Responses, NeedAck
<1>2. /\ r.sender = q.receiver /\ r.receiver = q.sender /\ r.seq = q.seq
      /\ r.isAck = NeedAck(q.attri) /\ r.needAck = ~ r.isAck
  BY Zenon DEF ResponseTo
<1> HIDE DEF r
<1>3. AnswerRequest(answers, data, length) = EncodeMsg(r, q.set, q.id, payload)
  BY DEF AnswerRequest, r
<1>4. (Attri(r) >= 128) <=> NeedAck(q.attri)
  <2>1. r.isAck \in BOOLEAN /\ r.needAck \in BOOLEAN
    BY <1>1 DEF Responses
  <2>2. CASE r.isAck
    BY <1>2, <2>1, <2>2 DEF Attri
  <2>3. CASE ~ r.isAck
    BY <1>2, <2>1, <2>3 DEF Attri
  <2> QED BY <2>2, <2>3
<1> DEFINE frame == EncodeMsg(r, q.set, q.id, payload)
           a == DecodeRequest(Received(old, frame))
<1>5. q.set \in Byte /\ q.id \in Byte
  OBVIOUS
<1>6. /\ Decodes(Received(old, frame), Len(frame))
      /\ a.set = q.set /\ a.id = q.id /\ a.seq = r.seq
      /\ a.sender = r.sender /\ a.receiver = r.receiver /\ a.attri = Attri(r)
  BY <1>1, <1>5, FramesAreRead
<1>7. AnswerRequest(answers, data, length) = frame
  BY <1>3
<1> HIDE DEF frame
<1> QED BY <1>2, <1>4, <1>6, <1>7

=============================================================================
