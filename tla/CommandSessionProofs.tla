------------------------ MODULE CommandSessionProofs ------------------------
(***************************************************************************)
(* The session's watchdog, the rate of its topics and the switching of its *)
(* video, for every set of topics, every frequency and every time step.    *)
(***************************************************************************)
EXTENDS CommandSession, TLAPS

(* Why the rate is kept: the deadline is the rate's only memory.           *)
LagIsDeadline ==
  \A k \in Keys : Subscribed(k) => lag[k] = -publishers[k].deadline

(* Why a client that connects late cannot hurt the UDP streamer.           *)
UdpAcceptsNobody == transport = "udp" => accepts = 0

(* The video's part of the invariant, and the session's.                   *)
VideoInv ==
  /\ VideoTypeOK
  /\ StreamerIsSound
  /\ UdpAcceptsNobody

Topics == [subject : Subjects \cup {None}, period : Nat, deadline : Nat]

(* A topic that is published.                                              *)
Live(t) ==
  /\ t \in Topics
  /\ t.subject \in Subjects
  /\ t.period \in Periods
  /\ t.deadline <= t.period

PortInv ==
  /\ connected \in BOOLEAN
  /\ silence \in Nat
  /\ publishers \in [Keys -> Topics]
  /\ \A k \in Keys : Subscribed(k) => Live(publishers[k])
  /\ events \subseteq EnabledEvents
  /\ visionEvent \in Masks \cup {0, None}
  /\ detector \in Detectors \cup {0}
  /\ gone \in BOOLEAN
  /\ lag \in [Keys -> Int]
  /\ WatchdogBites
  /\ LagIsDeadline

SessionInv == VideoInv /\ PortInv

----------------------------------------------------------------------------
(* The loop of Topic::do_step() ends with the deadline ahead, by a period  *)
(* at most.                                                                *)
LEMMA LoopCatchesUp ==
  ASSUME NEW y \in Nat, NEW p \in Nat \ {0}
  PROVE  /\ 1 + y \div p \in Nat
         /\ -y + (1 + y \div p) * p \in 1 .. p
<1> DEFINE q == y \div p
<1>1. q \in Int /\ q >= 0
  OBVIOUS
<1>2. p * q <= y
  OBVIOUS
<1>3. y < p * q + p
  OBVIOUS
<1>4. (1 + q) * p = p + p * q /\ p * q \in Int
  BY <1>1
<1> HIDE DEF q
<1>5. 1 + q \in Nat /\ -y + (1 + q) * p \in 1 .. p
  BY <1>1, <1>2, <1>3, <1>4
<1>6. QED
  BY <1>5 DEF q

LEMMA AdvancedIsLive ==
  ASSUME NEW t, Live(t)
  PROVE  /\ Live(Advanced(t))
         /\ Pushes(t) * t.period \in Int
         /\ Advanced(t).deadline =
              t.deadline - StepLen + Pushes(t) * t.period
<1> DEFINE n == Pushes(t)
<1>1. /\ t.deadline \in Nat /\ t.period \in Nat \ {0} /\ StepLen \in Nat \ {0}
      /\ t = [subject |-> t.subject, period |-> t.period,
              deadline |-> t.deadline]
  BY SessionAssumption DEF Live, Topics
<1>2. n \in Nat /\ t.deadline - StepLen + n * t.period \in 0 .. t.period
  <2>1. CASE t.deadline - StepLen > 0
    <3>1. n = 0
      BY <2>1 DEF Pushes
    <3>2. QED
      BY <1>1, <2>1, <3>1 DEF Live
  <2>2. CASE ~(t.deadline - StepLen > 0)
    <3> DEFINE y == StepLen - t.deadline
    <3>1. y \in Nat /\ n = 1 + y \div t.period
      BY <1>1, <2>2 DEF Pushes
    <3> HIDE DEF n
    <3>2. n \in Nat /\ -y + n * t.period \in 1 .. t.period
      BY <1>1, <3>1, LoopCatchesUp
    <3>3. n * t.period \in Int
      BY <1>1, <3>2
    <3>4. QED
      BY <1>1, <3>2, <3>3
  <2>3. QED
    BY <2>1, <2>2
<1>3. n * t.period \in Int
  BY <1>1, <1>2
<1>4. Advanced(t) = [subject |-> t.subject, period |-> t.period,
                     deadline |-> t.deadline - StepLen + n * t.period]
  BY <1>1 DEF Advanced
<1> HIDE DEF n
<1>5. QED
  BY <1>1, <1>2, <1>3, <1>4 DEF Live, Topics, n

----------------------------------------------------------------------------
LEMMA InitSession == Init => SessionInv
<1> SUFFICES ASSUME Init PROVE SessionInv
  OBVIOUS
<1>1. VideoInv
  <2>1. VideoTypeOK
    BY DEF Init, VideoInit, VideoTypeOK, Sizes
  <2>2. StreamerIsSound /\ UdpAcceptsNobody
    BY DEF Init, VideoInit, StreamerIsSound, UdpAcceptsNobody
  <2>3. QED
    BY <2>1, <2>2 DEF VideoInv
<1>2. NoTopic \in Topics /\ \A k \in Keys : ~Subscribed(k)
  BY DEF Init, NoTopic, Topics, Subscribed
<1>3. PortInv
  <2>1. publishers \in [Keys -> Topics] /\ lag \in [Keys -> Int]
    BY <1>2 DEF Init
  <2>2. /\ connected = FALSE /\ silence = 0 /\ events = {} /\ visionEvent = None
        /\ detector = 0 /\ gone = FALSE
    BY DEF Init
  <2>3. WatchdogBites /\ LagIsDeadline
    BY <1>2, <2>2 DEF WatchdogBites, LagIsDeadline
  <2>4. QED
    BY <1>2, <2>1, <2>2, <2>3 DEF PortInv
<1>4. QED
  BY <1>1, <1>3 DEF SessionInv

(* No message and no step can take the camera and the streamer apart.      *)
LEMMA StartStreamKeeps ==
  ASSUME VideoInv, NEW r \in Resolutions, StartStream(r)
  PROVE  VideoInv'
<1>1. /\ streaming' \in BOOLEAN /\ size' \in Sizes
      /\ ~streaming' => ~streaming
      /\ streaming' => size' # None
  <2>1. CASE streaming' = TRUE /\ size' = r
    BY <2>1, VideoAssumption DEF Sizes
  <2>2. CASE UNCHANGED <<streaming, size>>
    <3>1. streaming => size # None
      BY DEF VideoInv, StreamerIsSound
    <3>2. QED
      BY <2>2, <3>1 DEF VideoInv, VideoTypeOK
  <2>3. QED
    BY <2>1, <2>2 DEF StartStream, StartCamera
<1>2. /\ transport' = transport /\ image' = image /\ stepped' = stepped
      /\ alive' = alive
  BY DEF StartStream
<1>3. CASE streaming'
  <2>1. encoder' = size' /\ StartSocket
    BY <1>3 DEF StartStream
  <2>2. /\ active' \in BOOLEAN /\ accepts' \in Nat
        /\ transport = "udp" => active' = TRUE /\ accepts' = accepts
    <3>1. CASE transport = "udp"
      BY <2>1, <3>1 DEF StartSocket, VideoInv, VideoTypeOK
    <3>2. CASE transport = "tcp"
      BY <2>1, <3>2 DEF StartSocket, VideoInv, VideoTypeOK
    <3>3. QED
      BY <3>1, <3>2 DEF VideoInv, VideoTypeOK
  <2>3. VideoTypeOK'
    BY <1>1, <1>2, <2>1, <2>2 DEF VideoInv, VideoTypeOK, Sizes
  <2>4. StreamerIsSound' /\ UdpAcceptsNobody'
    BY <1>1, <1>2, <1>3, <2>1, <2>2
       DEF VideoInv, StreamerIsSound, UdpAcceptsNobody
  <2>5. QED
    BY <2>3, <2>4 DEF VideoInv
<1>4. CASE ~streaming'
  <2>1. UNCHANGED <<encoder, active, accepts>>
    BY <1>4 DEF StartStream
  <2>2. VideoTypeOK'
    BY <1>1, <1>2, <2>1 DEF VideoInv, VideoTypeOK, Sizes
  <2>3. StreamerIsSound' /\ UdpAcceptsNobody'
    BY <1>1, <1>2, <1>4, <2>1
       DEF VideoInv, StreamerIsSound, UdpAcceptsNobody
  <2>4. QED
    BY <2>2, <2>3 DEF VideoInv
<1>5. QED
  BY <1>3, <1>4

LEMMA StopStreamKeeps ==
  ASSUME VideoInv, StopStream
  PROVE  VideoInv'
BY DEF VideoInv, StopStream, Stopped, VideoTypeOK, StreamerIsSound, Sizes,
       UdpAcceptsNobody

LEMMA OnAcceptKeeps ==
  ASSUME VideoInv, OnAccept
  PROVE  VideoInv'
<1>1. transport = "tcp"
  BY DEF VideoInv, OnAccept, VideoTypeOK, UdpAcceptsNobody
<1>2. QED
  BY <1>1 DEF VideoInv, OnAccept, VideoTypeOK, StreamerIsSound, Sizes,
              UdpAcceptsNobody

LEMMA VideoStepKeeps ==
  ASSUME VideoInv, NEW stops, VideoStep(stops)
  PROVE  /\ VideoInv'
         /\ active' /\ encoder' # None => image' \in {encoder, None}
<1>1. /\ stepped' = TRUE /\ transport' = transport /\ size' = size
      /\ accepts' = accepts
      /\ alive' = ~(active' /\ image' # None /\ encoder' = None)
  BY DEF VideoStep
<1>2. image' \in Sizes
  BY DEF VideoInv, VideoStep, VideoTypeOK, Sizes
<1>3. \/ streaming' = FALSE /\ active' = FALSE /\ encoder' = None
      \/ streaming' = streaming /\ active' = active /\ encoder' = encoder
  BY DEF VideoStep, Stopped
<1>4. VideoTypeOK'
  <2>1. /\ streaming' \in BOOLEAN /\ active' \in BOOLEAN /\ encoder' \in Sizes
    BY <1>3 DEF VideoInv, VideoTypeOK, Sizes
  <2>2. alive' \in BOOLEAN /\ stepped' \in BOOLEAN
    BY <1>1
  <2>3. QED
    BY <1>1, <1>2, <2>1, <2>2 DEF VideoInv, VideoTypeOK, Sizes
<1>5. StreamerIsSound'
  <2>1. /\ streaming' <=> encoder' # None
        /\ encoder' # None => encoder' = size'
        /\ transport = "udp" => (active' <=> streaming')
    BY <1>1, <1>3 DEF VideoInv, StreamerIsSound
  <2>2. transport = "udp" => alive'
    BY <1>1, <2>1
  <2>3. QED
    BY <1>1, <2>1, <2>2 DEF StreamerIsSound
<1>6. UdpAcceptsNobody'
  BY <1>1 DEF VideoInv, UdpAcceptsNobody
<1>7. encoder' # None => image' \in {encoder, None}
  <2> SUFFICES ASSUME encoder' # None PROVE image' \in {encoder, None}
    OBVIOUS
  <2>1. encoder # None /\ streaming /\ size = encoder
    BY <1>3 DEF VideoInv, StreamerIsSound
  <2>2. QED
    BY <2>1 DEF VideoStep
<1>8. QED
  BY <1>4, <1>5, <1>6, <1>7 DEF VideoInv

LEMMA VideoUnchanged ==
  ASSUME VideoInv, UNCHANGED videoVars
  PROVE  VideoInv'
BY DEF VideoInv, videoVars, VideoTypeOK, StreamerIsSound, Sizes,
       UdpAcceptsNobody

----------------------------------------------------------------------------
(* The session. *)

LEMMA DroppedKeeps ==
  ASSUME PortInv, Dropped, UNCHANGED <<detector, gone>>
  PROVE  PortInv'
<1>1. NoTopic \in Topics /\ \A k \in Keys : ~Subscribed(k)'
  BY DEF Dropped, NoTopic, Topics, Subscribed
<1>2. publishers' \in [Keys -> Topics] /\ lag' \in [Keys -> Int]
  BY <1>1 DEF Dropped
<1>3. /\ connected' = FALSE /\ silence' = 0 /\ events' = {}
      /\ visionEvent' = None
  BY DEF Dropped
<1>4. WatchdogBites' /\ LagIsDeadline'
  BY <1>1, <1>3 DEF WatchdogBites, LagIsDeadline
<1>5. QED
  BY <1>1, <1>2, <1>3, <1>4 DEF PortInv

LEMMA AddSubMsgKeeps ==
  ASSUME PortInv, NEW k \in Keys, NEW uids \in UidLists, NEW p \in Periods,
         AddSubMsg(k, uids, p), UNCHANGED gone
  PROVE  PortInv'
<1>1. PICK i \in DOMAIN uids :
        /\ uids[i] \in Subjects
        /\ publishers' = [publishers EXCEPT ![k] = Started(k, uids[i], p)]
  BY DEF AddSubMsg
<1>2. /\ Live(Started(k, uids[i], p))
      /\ Started(k, uids[i], p).deadline = 0
  BY <1>1, SessionAssumption DEF PortInv, Started, Live, Topics
<1>3. Started(k, uids[i], p) \in Topics
  BY <1>2 DEF Live
<1>4. publishers' \in [Keys -> Topics]
  BY <1>1, <1>3 DEF PortInv
<1>5. lag' = [lag EXCEPT ![k] = 0]
  BY DEF AddSubMsg
<1>6. \A j \in Keys :
        /\ Subscribed(j)' => Live(publishers'[j])
        /\ Subscribed(j)' => lag'[j] = -publishers'[j].deadline
  <2> SUFFICES ASSUME NEW j \in Keys, Subscribed(j)'
               PROVE  /\ Live(publishers'[j])
                      /\ lag'[j] = -publishers'[j].deadline
    OBVIOUS
  <2>1. CASE j = k
    BY <1>1, <1>2, <1>5, <2>1 DEF PortInv
  <2>2. CASE j # k
    <3>1. publishers'[j] = publishers[j] /\ lag'[j] = lag[j]
      BY <1>1, <1>5, <2>2 DEF PortInv
    <3>2. Subscribed(j)
      BY <3>1 DEF Subscribed
    <3>3. QED
      BY <3>1, <3>2 DEF PortInv, LagIsDeadline
  <2>3. QED
    BY <2>1, <2>2
<1>7. QED
  BY <1>4, <1>5, <1>6 DEF AddSubMsg, PortInv, WatchdogBites, LagIsDeadline

LEMMA DelMsgKeeps ==
  ASSUME PortInv, NEW k \in Keys, DelMsg(k), UNCHANGED gone
  PROVE  PortInv'
<1>1. NoTopic \in Topics
  BY DEF NoTopic, Topics
<1>2. \A j \in Keys : Subscribed(j)' =>
        /\ Subscribed(j)
        /\ publishers'[j] = publishers[j] /\ lag'[j] = lag[j]
  BY DEF DelMsg, Subscribed, PortInv
<1>3. QED
  BY <1>1, <1>2 DEF DelMsg, PortInv, WatchdogBites, LagIsDeadline

(* A step without the watchdog moves every topic on.                       *)
LEMMA AdvanceKeeps ==
  ASSUME PortInv, ~Loses,
         silence' = IF connected THEN silence + StepLen ELSE 0,
         publishers' = [k \in Keys |->
           IF Subscribed(k) THEN Advanced(publishers[k]) ELSE NoTopic],
         lag' = [k \in Keys |->
           IF Subscribed(k)
             THEN lag[k] + StepLen
                    - Pushes(publishers[k]) * publishers[k].period
             ELSE 0],
         UNCHANGED <<connected, events, visionEvent, detector, gone>>
  PROVE  PortInv'
<1>1. \A k \in Keys : Subscribed(k) =>
        /\ Live(Advanced(publishers[k]))
        /\ Pushes(publishers[k]) * publishers[k].period \in Int
        /\ Advanced(publishers[k]).deadline =
             publishers[k].deadline - StepLen
               + Pushes(publishers[k]) * publishers[k].period
  BY AdvancedIsLive DEF PortInv
<1>2. NoTopic \in Topics /\ \A k \in Keys : Live(publishers[k]) =>
        publishers[k] \in Topics
  BY DEF NoTopic, Topics, Live
<1>3. \A k \in Keys : ~Subscribed(k) => ~Subscribed(k)'
  BY DEF Subscribed
<1>4. publishers' \in [Keys -> Topics]
  BY <1>1, <1>2 DEF Live
<1>5. \A k \in Keys : Subscribed(k)' => Live(publishers'[k])
  BY <1>1, <1>3
<1>6. \A k \in Keys : /\ lag'[k] \in Int
                      /\ Subscribed(k)' => lag'[k] = -publishers'[k].deadline
  <2> SUFFICES ASSUME NEW k \in Keys
               PROVE  /\ lag'[k] \in Int
                      /\ Subscribed(k)' => lag'[k] = -publishers'[k].deadline
    OBVIOUS
  <2>1. CASE ~Subscribed(k)
    BY <1>3, <2>1
  <2>2. CASE Subscribed(k)
    <3> DEFINE m == Pushes(publishers[k]) * publishers[k].period
    <3>1. /\ lag'[k] = lag[k] + StepLen - m
          /\ publishers'[k].deadline = publishers[k].deadline - StepLen + m
          /\ m \in Int
      BY <1>1, <2>2
    <3>2. /\ lag[k] = -publishers[k].deadline
          /\ publishers[k].deadline \in Int /\ StepLen \in Int
      BY <2>2, SessionAssumption DEF PortInv, LagIsDeadline, Topics
    <3> HIDE DEF m
    <3>3. QED
      BY <3>1, <3>2
  <2>3. QED
    BY <2>1, <2>2
<1>7. lag' \in [Keys -> Int] /\ LagIsDeadline'
  BY <1>6 DEF LagIsDeadline
<1>8. silence' \in Nat /\ WatchdogBites'
  BY SessionAssumption DEF PortInv, Loses, WatchdogBites
<1>9. QED
  BY <1>4, <1>5, <1>7, <1>8 DEF PortInv

LEMMA StepKeeps ==
  ASSUME SessionInv, Step
  PROVE  SessionInv'
<1>1. VideoInv'
  BY VideoStepKeeps DEF SessionInv, Step
<1>2. CASE Loses /\ Dropped
  <2>1. PortInv'
    BY <1>2, DroppedKeeps DEF SessionInv, Step
  <2>2. QED
    BY <1>1, <2>1 DEF SessionInv
<1>3. CASE ~(Loses /\ Dropped)
  <2>1. PortInv'
    BY <1>3, AdvanceKeeps DEF SessionInv, Step
  <2>2. QED
    BY <1>1, <2>1 DEF SessionInv
<1>4. QED
  BY <1>2, <1>3

LEMMA SetEnableType ==
  ASSUME PortInv, NEW value
  PROVE  SetEnable(value) \in Detectors \cup {0}
BY DEF PortInv, SetEnable

(* What leaves the connection, the topics and the history alone.           *)
LEMMA TopicsUnchanged ==
  ASSUME PortInv, UNCHANGED <<connected, publishers, lag>>,
         silence' \in {silence, 0},
         events' \subseteq EnabledEvents,
         visionEvent' \in Masks \cup {0, None},
         detector' \in Detectors \cup {0},
         gone' \in BOOLEAN
  PROVE  PortInv'
<1>1. \A k \in Keys : Subscribed(k)' <=> Subscribed(k)
  BY DEF Subscribed
<1>2. silence' \in Nat /\ WatchdogBites'
  BY SessionAssumption DEF PortInv, WatchdogBites
<1>3. QED
  BY <1>1, <1>2 DEF PortInv, LagIsDeadline

LEMMA MessageKeeps ==
  ASSUME SessionInv, Message, UNCHANGED gone
  PROVE  SessionInv'
<1>1. CASE AddSubscriberNode
  <2>1. VideoInv'
    BY <1>1, VideoUnchanged DEF AddSubscriberNode, SessionInv
  <2>2. \A k \in Keys : Subscribed(k)' <=> Subscribed(k)
    BY <1>1 DEF AddSubscriberNode, Subscribed
  <2>3. PortInv'
    BY <1>1, <2>2, SessionAssumption
       DEF AddSubscriberNode, SessionInv, PortInv, WatchdogBites, LagIsDeadline
  <2>4. QED
    BY <2>1, <2>3 DEF SessionInv
<1>2. CASE GotHeartbeat
  BY <1>2, VideoUnchanged, TopicsUnchanged
     DEF GotHeartbeat, SessionInv, PortInv
<1>3. CASE ResetSubscriberNode
  BY <1>3, StopStreamKeeps, DroppedKeeps DEF ResetSubscriberNode, SessionInv
<1>4. CASE DisableSdk
  <2>1. VideoInv'
    BY <1>4, VideoUnchanged DEF DisableSdk, SessionInv
  <2>2. NoTopic \in Topics /\ \A k \in Keys : ~Subscribed(k)'
    BY <1>4 DEF DisableSdk, NoTopic, Topics, Subscribed
  <2>3. PortInv'
    BY <1>4, <2>2
       DEF DisableSdk, SessionInv, PortInv, WatchdogBites, LagIsDeadline
  <2>4. QED
    BY <2>1, <2>3 DEF SessionInv
<1>5. CASE \E k \in Keys, uids \in UidLists, p \in Periods :
             AddSubMsg(k, uids, p)
  <2>1. PICK k \in Keys, uids \in UidLists, p \in Periods :
          AddSubMsg(k, uids, p)
    BY <1>5
  <2>2. PortInv'
    BY <2>1, AddSubMsgKeeps DEF SessionInv
  <2>3. VideoInv'
    BY <2>1, VideoUnchanged DEF AddSubMsg, SessionInv
  <2>4. QED
    BY <2>2, <2>3 DEF SessionInv
<1>6. CASE \E k \in Keys : DelMsg(k)
  <2>1. PICK k \in Keys : DelMsg(k)
    BY <1>6
  <2>2. PortInv'
    BY <2>1, DelMsgKeeps DEF SessionInv
  <2>3. VideoInv'
    BY <2>1, VideoUnchanged DEF DelMsg, SessionInv
  <2>4. QED
    BY <2>2, <2>3 DEF SessionInv
<1>7. CASE \E mask \in Masks \cup {0} : VisionDetectEnable(mask)
  <2>1. PICK mask \in Masks \cup {0} : VisionDetectEnable(mask)
    BY <1>7
  <2>2. PortInv'
    BY <2>1, SetEnableType, TopicsUnchanged
       DEF VisionDetectEnable, SessionInv, PortInv
  <2>3. VideoInv'
    BY <2>1, VideoUnchanged DEF VisionDetectEnable, SessionInv
  <2>4. QED
    BY <2>2, <2>3 DEF SessionInv
<1>8. CASE StreamCtrl
  <2>1. VideoInv'
    BY <1>8, StartStreamKeeps, StopStreamKeeps, OnAcceptKeeps
       DEF StreamCtrl, SessionInv
  <2>2. PortInv'
    BY <1>8, TopicsUnchanged DEF StreamCtrl, SessionInv, PortInv
  <2>3. QED
    BY <2>1, <2>2 DEF SessionInv
<1>9. QED
  BY <1>1, <1>2, <1>3, <1>4, <1>5, <1>6, <1>7, <1>8 DEF Message

LEMMA NextKeeps ==
  ASSUME SessionInv, [Next]_vars
  PROVE  SessionInv'
<1>1. CASE Speaks
  BY <1>1, MessageKeeps DEF Speaks
<1>2. CASE ComesOrGoes
  <2>1. VideoInv'
    BY <1>2, VideoUnchanged DEF ComesOrGoes, SessionInv
  <2>2. PortInv'
    BY <1>2, TopicsUnchanged DEF ComesOrGoes, SessionInv, PortInv
  <2>3. QED
    BY <2>1, <2>2 DEF SessionInv
<1>3. CASE Step
  BY <1>3, StepKeeps
<1>4. CASE UNCHANGED vars
  <2>1. VideoInv'
    BY <1>4, VideoUnchanged DEF vars, SessionInv
  <2>2. PortInv'
    BY <1>4, TopicsUnchanged DEF vars, sessionVars, SessionInv, PortInv
  <2>3. QED
    BY <2>1, <2>2 DEF SessionInv
<1>5. QED
  BY <1>1, <1>2, <1>3, <1>4 DEF Next

----------------------------------------------------------------------------
(* What a session does, for every set of topics, every frequency and every *)
(* time step: its invariant holds in every state the server reaches.       *)
THEOREM SessionInvHolds == Spec => []SessionInv
<1>1. QED
  BY InitSession, NextKeeps, PTL DEF Spec

(* The variables of the port and of the streamer keep their types, and a   *)
(* topic that is published has a registered subject, a period that was     *)
(* asked for and a deadline at most a period ahead (topic.cpp:6-17).       *)
THEOREM SessionTypesHold == Spec => []SessionTypeOK
<1>1. SessionInv => SessionTypeOK
  BY DEF SessionInv, VideoInv, PortInv, SessionTypeOK, Live, Topics
<1>2. QED
  BY <1>1, SessionInvHolds, PTL

(* Nobody stays connected without heartbeats for longer than the limit     *)
(* (command.cpp:182).                                                      *)
THEOREM WatchdogAlwaysBites == Spec => []WatchdogBites
<1>1. SessionInv => WatchdogBites
  BY DEF SessionInv, PortInv
<1>2. QED
  BY <1>1, SessionInvHolds, PTL

(* However the time step and a topic's period relate, the topic is pushed  *)
(* as often as was asked for, to within one push (topic.cpp:6-17).         *)
THEOREM RatesAreKept == Spec => []RateIsKept
<1>1. SessionInv => RateIsKept
  <2> SUFFICES ASSUME SessionInv, NEW k \in Keys, Subscribed(k)
               PROVE  lag[k] <= 0 /\ -publishers[k].period <= lag[k]
    BY DEF RateIsKept
  <2>1. /\ publishers[k].period \in Nat /\ publishers[k].deadline \in Nat
        /\ publishers[k].deadline <= publishers[k].period
        /\ lag[k] = -publishers[k].deadline
    BY DEF SessionInv, PortInv, LagIsDeadline, Live, Topics
  <2>2. QED
    BY <2>1
<1>2. QED
  BY <1>1, SessionInvHolds, PTL

(* The camera and the streamer go on and off together, and by UDP the      *)
(* server never sends a frame without an encoder (streamer.cpp:53-86).     *)
THEOREM StreamersAreSound == Spec => []StreamerIsSound
<1>1. SessionInv => StreamerIsSound
  BY DEF SessionInv, VideoInv
<1>2. QED
  BY <1>1, SessionInvHolds, PTL

(* No frame reaches an encoder that was made for another size              *)
(* (streamer.cpp:58, encoder.cpp:91).                                      *)
THEOREM FramesAlwaysFit == Spec => FramesFitEncoder
<1>1. SessionInv /\ [Next]_vars =>
        [Step /\ active' /\ encoder' # None => image' \in {encoder, None}]_vars
  BY VideoStepKeeps DEF SessionInv, Step
<1>2. QED
  BY <1>1, SessionInvHolds, PTL DEF Spec, FramesFitEncoder

=============================================================================
