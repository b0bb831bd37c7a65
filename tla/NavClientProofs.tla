-------------------------- MODULE NavClientProofs --------------------------
(***************************************************************************)
(* What holds of NavClient for every set of goals and poses.               *)
(***************************************************************************)
EXTENDS NavClient, SequenceTheorems, TLAPS

(* No goal is in flight twice, or in flight and accepted at once. *)
NoGoalTwice ==
  /\ \A i, j \in DOMAIN inFlight : inFlight[i] = inFlight[j] => i = j
  /\ Range(inFlight) \cap waiting = {}

(* Without overlap the only goal in play is the last one sent. *)
OnlyLatest == ~overlapped => Outstanding \subseteq {latest}

(* The inductive invariant: the properties of NavClient, and what they     *)
(* need to be preserved by the callbacks.                                  *)
NavInv ==
  /\ NavTypeOK
  /\ NoGoalTwice
  /\ NoLostAnswer
  /\ HandleIsLive
  /\ ExecutingIsOutstanding
  /\ OnlyLatest
  /\ SuccessIsTruthful

----------------------------------------------------------------------------
(* Sequences without duplicates. *)

(* Appending adds its element to the range. *)
LEMMA RangeAppend ==
  ASSUME NEW S, NEW s \in Seq(S), NEW e \in S
  PROVE  Range(Append(s, e)) = Range(s) \cup {e}
<1>1. DOMAIN Append(s, e) = DOMAIN s \cup {Len(s) + 1}
  BY AppendProperties, LenProperties
<1>2. \A i \in DOMAIN s : Append(s, e)[i] = s[i]
  BY AppendProperties, LenProperties
<1>3. Append(s, e)[Len(s) + 1] = e
  BY AppendProperties
<1>4. QED
  BY <1>1, <1>2, <1>3 DEF Range

(* Taking the head off removes it from the range, when it occurs once. *)
LEMMA RangeTail ==
  ASSUME NEW S, NEW s \in Seq(S), s # <<>>,
         \A i, j \in DOMAIN s : s[i] = s[j] => i = j
  PROVE  /\ Head(s) \in S
         /\ Tail(s) \in Seq(S)
         /\ Range(s) = Range(Tail(s)) \cup {Head(s)}
         /\ Head(s) \notin Range(Tail(s))
         /\ \A i, j \in DOMAIN Tail(s) : Tail(s)[i] = Tail(s)[j] => i = j
<1>1. /\ Head(s) \in S
      /\ Tail(s) \in Seq(S)
      /\ Len(Tail(s)) = Len(s) - 1
      /\ \A i \in 1 .. Len(Tail(s)) : Tail(s)[i] = s[i + 1]
  BY HeadTailProperties
<1>2. /\ DOMAIN s = 1 .. Len(s)
      /\ Len(s) \in Nat
      /\ Len(s) # 0
      /\ DOMAIN Tail(s) = 1 .. Len(Tail(s))
      /\ Head(s) = s[1]
  BY <1>1, LenProperties, EmptySeq
<1>3. \A k \in DOMAIN s : k = 1 \/ k - 1 \in DOMAIN Tail(s)
  BY <1>1, <1>2
<1>4. \A i \in DOMAIN Tail(s) : i + 1 \in DOMAIN s /\ i + 1 # 1
  BY <1>1, <1>2
<1>5. Range(s) \subseteq Range(Tail(s)) \cup {Head(s)}
  <2> SUFFICES ASSUME NEW k \in DOMAIN s
               PROVE  s[k] \in Range(Tail(s)) \cup {Head(s)}
    BY DEF Range
  <2>1. CASE k = 1
    BY <2>1, <1>2
  <2>2. CASE k - 1 \in DOMAIN Tail(s)
    <3>1. Tail(s)[k - 1] = s[k]
      BY <2>2, <1>1, <1>2
    <3>2. QED
      BY <2>2, <3>1 DEF Range
  <2>3. QED
    BY <2>1, <2>2, <1>3
<1>6. Range(Tail(s)) \cup {Head(s)} \subseteq Range(s)
  <2>1. Head(s) \in Range(s)
    BY <1>2 DEF Range
  <2>2. Range(Tail(s)) \subseteq Range(s)
    BY <1>1, <1>2, <1>4 DEF Range
  <2>3. QED
    BY <2>1, <2>2
<1>7. Head(s) \notin Range(Tail(s))
  BY <1>1, <1>2, <1>4 DEF Range
<1>8. \A i, j \in DOMAIN Tail(s) : Tail(s)[i] = Tail(s)[j] => i = j
  BY <1>1, <1>2, <1>4
<1>9. QED
  BY <1>1, <1>5, <1>6, <1>7, <1>8

(* Appending a new element keeps a sequence free of duplicates. *)
LEMMA AppendNew ==
  ASSUME NEW S, NEW s \in Seq(S), NEW e \in S, e \notin Range(s),
         \A i, j \in DOMAIN s : s[i] = s[j] => i = j
  PROVE  \A i, j \in DOMAIN Append(s, e) :
           Append(s, e)[i] = Append(s, e)[j] => i = j
<1>1. DOMAIN Append(s, e) = DOMAIN s \cup {Len(s) + 1}
  BY AppendProperties, LenProperties
<1>2. \A i \in DOMAIN s : Append(s, e)[i] = s[i]
  BY AppendProperties, LenProperties
<1>3. Append(s, e)[Len(s) + 1] = e
  BY AppendProperties
<1>4. \A i \in DOMAIN s : s[i] # e
  BY DEF Range
<1>5. QED
  BY <1>1, <1>2, <1>3, <1>4

----------------------------------------------------------------------------
(* What a step does to the goals in play. *)

(* A goal named by a free identifier enters, and was not in play before.   *)
LEMMA RequestEnters ==
  ASSUME NavTypeOK, NoGoalTwice, ExecutingIsOutstanding, OnlyLatest,
         NEW p \in Places, Request(p), waiting' = waiting
  PROVE  /\ inFlight' \in Seq(Goals)
         /\ server' \in [Goals -> Status]
         /\ place' \in [Goals -> Places \cup {None}]
         /\ latest' \in Outstanding'
         /\ latest' \in Goals
         /\ overlapped' \in BOOLEAN
         /\ NoGoalTwice'
         /\ ExecutingIsOutstanding'
         /\ OnlyLatest'
<1>1. PICK g \in Free :
        /\ inFlight' = Append(inFlight, g)
        /\ server' = [h \in Goals |-> IF h = g THEN "queued"
                                      ELSE IF h \in Free THEN "idle"
                                      ELSE server[h]]
        /\ place' = [h \in Goals |-> IF h = g THEN p
                                     ELSE IF h \in Free THEN None
                                     ELSE place[h]]
        /\ latest' = g
        /\ overlapped' = (overlapped \/ Outstanding # {})
  BY DEF Request
<1>2. /\ g \in Goals
      /\ g \notin Range(inFlight)
      /\ g \notin waiting
  BY DEF Free, Outstanding
<1>3. Range(inFlight') = Range(inFlight) \cup {g}
  BY <1>1, <1>2, RangeAppend DEF NavTypeOK
<1>4. Outstanding' = Outstanding \cup {g}
  BY <1>3 DEF Outstanding
<1>5. inFlight' \in Seq(Goals)
  BY <1>1, <1>2, AppendProperties DEF NavTypeOK
<1>6. server' \in [Goals -> Status]
  BY <1>1 DEF NavTypeOK, Status
<1>7. place' \in [Goals -> Places \cup {None}]
  BY <1>1 DEF NavTypeOK
<1>8. NoGoalTwice'
  <2>1. \A i, j \in DOMAIN inFlight' : inFlight'[i] = inFlight'[j] => i = j
    BY <1>1, <1>2, AppendNew DEF NavTypeOK, NoGoalTwice
  <2>2. Range(inFlight') \cap waiting' = {}
    BY <1>2, <1>3 DEF NoGoalTwice
  <2>3. QED
    BY <2>1, <2>2 DEF NoGoalTwice
<1>9. ExecutingIsOutstanding'
  <2>1. Executing' \subseteq Executing
    BY <1>1 DEF Executing
  <2>2. QED
    BY <2>1, <1>4 DEF ExecutingIsOutstanding
<1>10. OnlyLatest'
  BY <1>1, <1>4 DEF OnlyLatest
<1>11. overlapped' \in BOOLEAN
  BY <1>1 DEF NavTypeOK
<1>12. QED
  BY <1>1, <1>2, <1>4, <1>5, <1>6, <1>7, <1>8, <1>9, <1>10, <1>11

(* The request the server looks at next is outstanding. *)
LEMMA NextRequestIsOutstanding ==
  ASSUME NEW g, NextRequest(g)
  PROVE  g \in Outstanding
BY DEF NextRequest, Outstanding, Range

(* A server step that starts only goals in play and keeps the statuses of  *)
(* goals that are over preserves the invariant.                            *)
LEMMA ServerStepPreserves ==
  ASSUME NavInv,
         UNCHANGED <<clientVars, inFlight, waiting, place, latest, overlapped>>,
         cancels' \subseteq Goals,
         server' \in [Goals -> Status],
         Executing' \subseteq Outstanding,
         server' = server \/ Outstanding # {}
  PROVE  NavInv'
<1>1. Outstanding' = Outstanding
  BY DEF Outstanding
<1>2. NavTypeOK'
  BY DEF NavInv, NavTypeOK, clientVars
<1>3. NoGoalTwice' /\ NoLostAnswer' /\ HandleIsLive' /\ OnlyLatest'
  BY <1>1 DEF NavInv, NoGoalTwice, NoLostAnswer, HandleIsLive, OnlyLatest,
              clientVars
<1>4. ExecutingIsOutstanding'
  BY <1>1 DEF ExecutingIsOutstanding
<1>5. SuccessIsTruthful'
  <2>1. CASE server' = server
    BY <2>1, <1>1 DEF NavInv, SuccessIsTruthful, clientVars, Executing
  <2>2. CASE Outstanding # {}
    BY <2>2 DEF NavInv, SuccessIsTruthful, clientVars
  <2>3. QED
    BY <2>1, <2>2
<1>6. QED
  BY <1>2, <1>3, <1>4, <1>5 DEF NavInv

----------------------------------------------------------------------------
(* The inductive invariant. *)

LEMMA NavInvInit == NavInit => NavInv
<1> SUFFICES ASSUME NavInit PROVE NavInv
  OBVIOUS
<1>1. inFlight \in Seq(Goals) /\ DOMAIN inFlight = {}
  BY EmptySeq DEF NavInit
<1>2. Outstanding = {}
  BY <1>1 DEF NavInit, Outstanding, Range
<1>3. NavTypeOK
  BY <1>1 DEF NavInit, NavTypeOK, Status
<1>4. NoGoalTwice
  BY <1>1 DEF NavInit, NoGoalTwice
<1>5. NoLostAnswer /\ HandleIsLive /\ OnlyLatest /\ SuccessIsTruthful
  BY <1>2 DEF NavInit, NoLostAnswer, HandleIsLive, OnlyLatest,
              SuccessIsTruthful
<1>6. ExecutingIsOutstanding
  BY DEF NavInit, ExecutingIsOutstanding, Executing
<1>7. QED
  BY <1>3, <1>4, <1>5, <1>6 DEF NavInv

(* send() *)
LEMMA SendPreserves ==
  ASSUME NavInv, NEW p \in Places, Send(p)
  PROVE  NavInv'
<1>1. /\ inFlight' \in Seq(Goals)
      /\ server' \in [Goals -> Status]
      /\ place' \in [Goals -> Places \cup {None}]
      /\ latest' \in Outstanding'
      /\ latest' \in Goals
      /\ overlapped' \in BOOLEAN
      /\ NoGoalTwice'
      /\ ExecutingIsOutstanding'
      /\ OnlyLatest'
  BY RequestEnters DEF NavInv, Send
<1>2. NavTypeOK'
  BY <1>1 DEF NavInv, NavTypeOK, Send
<1>3. NoLostAnswer' /\ HandleIsLive' /\ SuccessIsTruthful'
  BY <1>1 DEF NavInv, NoLostAnswer, HandleIsLive, SuccessIsTruthful, Send
<1>4. QED
  BY <1>1, <1>2, <1>3 DEF NavInv

(* cancel() *)
LEMMA CancelPreserves ==
  ASSUME NavInv, Cancel
  PROVE  NavInv'
<1>1. Outstanding' = Outstanding /\ Executing' = Executing
  BY DEF Cancel, Outstanding, Executing
<1>2. NavTypeOK'
  BY DEF NavInv, NavTypeOK, Cancel, Revoke
<1>3. NoGoalTwice' /\ ExecutingIsOutstanding' /\ OnlyLatest'
  BY <1>1 DEF NavInv, NoGoalTwice, ExecutingIsOutstanding, OnlyLatest, Cancel
<1>4. NoLostAnswer' /\ HandleIsLive' /\ SuccessIsTruthful'
  BY DEF NoLostAnswer, HandleIsLive, SuccessIsTruthful, Cancel
<1>5. QED
  BY <1>2, <1>3, <1>4 DEF NavInv

(* cancel() followed by send() *)
LEMMA CancelThenSendPreserves ==
  ASSUME NavInv, NEW p \in Places, CancelThenSend(p)
  PROVE  NavInv'
<1>1. /\ inFlight' \in Seq(Goals)
      /\ server' \in [Goals -> Status]
      /\ place' \in [Goals -> Places \cup {None}]
      /\ latest' \in Outstanding'
      /\ latest' \in Goals
      /\ overlapped' \in BOOLEAN
      /\ NoGoalTwice'
      /\ ExecutingIsOutstanding'
      /\ OnlyLatest'
  BY RequestEnters DEF NavInv, CancelThenSend
<1>2. NavTypeOK'
  BY <1>1 DEF NavInv, NavTypeOK, CancelThenSend, Revoke
<1>3. NoLostAnswer' /\ HandleIsLive' /\ SuccessIsTruthful'
  BY <1>1 DEF NoLostAnswer, HandleIsLive, SuccessIsTruthful, CancelThenSend
<1>4. QED
  BY <1>1, <1>2, <1>3 DEF NavInv

(* _on_goal_accepted() *)
LEMMA OnGoalAcceptedPreserves ==
  ASSUME NavInv, OnGoalAccepted
  PROVE  NavInv'
<1> DEFINE h == Head(inFlight)
<1>1. /\ h \in Goals
      /\ inFlight' \in Seq(Goals)
      /\ Range(inFlight) = Range(inFlight') \cup {h}
      /\ h \notin Range(inFlight')
      /\ \A i, j \in DOMAIN inFlight' : inFlight'[i] = inFlight'[j] => i = j
  BY RangeTail DEF NavInv, NavTypeOK, NoGoalTwice, OnGoalAccepted
<1>2. h \notin waiting
  BY <1>1 DEF NavInv, NoGoalTwice
<1>3. ~(~overlapped /\ succeeded)
  BY <1>1 DEF NavInv, SuccessIsTruthful, Outstanding
<1>4. CASE server[h] = "rejected"
  <2>1. active' = FALSE /\ handle' = handle /\ waiting' = waiting
    BY <1>4 DEF OnGoalAccepted
  <2>2. Outstanding' = Outstanding \ {h}
    BY <1>1, <1>2, <2>1 DEF Outstanding
  <2>3. NavTypeOK'
    BY <1>1, <2>1 DEF NavInv, NavTypeOK, OnGoalAccepted
  <2>4. NoGoalTwice'
    BY <1>1, <2>1 DEF NavInv, NoGoalTwice
  <2>5. NoLostAnswer' /\ HandleIsLive'
    BY <2>1 DEF NavInv, NoLostAnswer, HandleIsLive
  <2>6. ExecutingIsOutstanding'
    BY <1>4, <2>2 DEF NavInv, ExecutingIsOutstanding, Executing, OnGoalAccepted
  <2>7. OnlyLatest' /\ SuccessIsTruthful'
    BY <1>3, <2>2 DEF NavInv, OnlyLatest, SuccessIsTruthful, OnGoalAccepted
  <2>8. QED
    BY <2>3, <2>4, <2>5, <2>6, <2>7 DEF NavInv
<1>5. CASE server[h] # "rejected"
  <2>1. active' = active /\ handle' = h /\ waiting' = waiting \cup {h}
    BY <1>5 DEF OnGoalAccepted
  <2>2. Outstanding' = Outstanding
    BY <1>1, <2>1 DEF Outstanding
  <2>3. NavTypeOK'
    BY <1>1, <2>1 DEF NavInv, NavTypeOK, OnGoalAccepted
  <2>4. NoGoalTwice'
    BY <1>1, <2>1 DEF NavInv, NoGoalTwice
  <2>5. NoLostAnswer' /\ HandleIsLive'
    BY <2>1, <2>2 DEF NavInv, NoLostAnswer, HandleIsLive, OnGoalAccepted
  <2>6. ExecutingIsOutstanding'
    BY <2>2 DEF NavInv, ExecutingIsOutstanding, Executing, OnGoalAccepted
  <2>7. OnlyLatest' /\ SuccessIsTruthful'
    BY <1>3, <2>2 DEF NavInv, OnlyLatest, SuccessIsTruthful, OnGoalAccepted
  <2>8. QED
    BY <2>3, <2>4, <2>5, <2>6, <2>7 DEF NavInv
<1>6. QED
  BY <1>4, <1>5

(* _on_nav_result() *)
LEMMA OnNavResultPreserves ==
  ASSUME NavInv, NEW g \in Goals, OnNavResult(g)
  PROVE  NavInv'
<1>1. g \in waiting /\ g \notin Range(inFlight)
  BY DEF NavInv, NoGoalTwice, OnNavResult
<1>2. Outstanding' = Outstanding \ {g}
  BY <1>1 DEF Outstanding, OnNavResult
<1>3. g \notin Executing /\ Executing' = Executing
  BY DEF Executing, OnNavResult, Terminal
<1>4. NavTypeOK'
  BY DEF NavInv, NavTypeOK, OnNavResult
<1>5. NoGoalTwice' /\ NoLostAnswer' /\ HandleIsLive' /\ OnlyLatest'
  BY <1>2 DEF NavInv, NoGoalTwice, NoLostAnswer, HandleIsLive, OnlyLatest,
              OnNavResult
<1>6. ExecutingIsOutstanding'
  BY <1>2, <1>3 DEF NavInv, ExecutingIsOutstanding
<1>7. SuccessIsTruthful'
  <2> SUFFICES ASSUME ~overlapped', succeeded'
               PROVE  /\ latest' \in Goals
                      /\ server'[latest'] = "succeeded"
                      /\ Outstanding' = {}
                      /\ Executing' = {}
    BY DEF SuccessIsTruthful
  <2>1. Outstanding \subseteq {latest} /\ g = latest
    BY <1>1 DEF NavInv, OnlyLatest, OnNavResult, Outstanding
  <2>2. server[g] = "succeeded"
    BY DEF OnNavResult
  <2>3. Outstanding' = {}
    BY <1>2, <2>1
  <2>4. QED
    BY <1>6, <2>1, <2>2, <2>3 DEF ExecutingIsOutstanding, OnNavResult
<1>8. QED
  BY <1>4, <1>5, <1>6, <1>7 DEF NavInv

(* The four steps of the action server. *)
LEMMA ServerPreserves ==
  ASSUME NavInv, Server
  PROVE  NavInv'
<1>0. /\ server \in [Goals -> Status]
      /\ cancels \subseteq Goals
      /\ Executing \subseteq Outstanding
  BY DEF NavInv, NavTypeOK, ExecutingIsOutstanding
<1>1. ASSUME NEW g \in Goals, ServerAccepts(g)
      PROVE  NavInv'
  <2>1. g \in Outstanding
    BY <1>1, NextRequestIsOutstanding DEF ServerAccepts
  <2>2. server' \in [Goals -> Status] /\ Executing' \subseteq {g}
    BY <1>0, <1>1 DEF ServerAccepts, Status, Terminal, Executing
  <2>3. QED
    BY <1>0, <1>1, <2>1, <2>2, ServerStepPreserves DEF ServerAccepts
<1>2. ASSUME NEW g \in Goals, ServerRejects(g)
      PROVE  NavInv'
  <2>1. g \in Outstanding
    BY <1>2, NextRequestIsOutstanding DEF ServerRejects
  <2>2. server' \in [Goals -> Status] /\ Executing' \subseteq Executing
    BY <1>0, <1>2 DEF ServerRejects, Status, Executing
  <2>3. QED
    BY <1>0, <1>2, <2>1, <2>2, ServerStepPreserves DEF ServerRejects
<1>3. ASSUME NEW g \in Goals, ServerCancels(g)
      PROVE  NavInv'
  <2>1. server' \in [Goals -> Status] /\ Executing' \subseteq Executing
    BY <1>0, <1>3 DEF ServerCancels, Status, Terminal, Executing
  <2>2. server' = server \/ Outstanding # {}
    BY <1>0, <1>3 DEF ServerCancels
  <2>3. cancels' \subseteq Goals
    BY <1>0, <1>3 DEF ServerCancels
  <2>4. QED
    BY <1>0, <1>3, <2>1, <2>2, <2>3, ServerStepPreserves DEF ServerCancels
<1>4. ASSUME NEW g \in Goals, ServerFinishes(g)
      PROVE  NavInv'
  <2>1. server' \in [Goals -> Status] /\ Executing' \subseteq Executing
    BY <1>0, <1>4 DEF ServerFinishes, Status, Terminal, Executing
  <2>2. Outstanding # {}
    BY <1>0, <1>4 DEF ServerFinishes
  <2>3. QED
    BY <1>0, <1>4, <2>1, <2>2, ServerStepPreserves DEF ServerFinishes
<1>5. QED
  BY <1>1, <1>2, <1>3, <1>4 DEF Server

LEMMA NavInvStep == NavInv /\ [NavNext]_navVars => NavInv'
<1> SUFFICES ASSUME NavInv, [NavNext]_navVars PROVE NavInv'
  OBVIOUS
<1>1. CASE Caller
  BY <1>1, SendPreserves, CancelThenSendPreserves, CancelPreserves DEF Caller
<1>2. CASE Callback
  BY <1>2, OnGoalAcceptedPreserves, OnNavResultPreserves DEF Callback
<1>3. CASE Server
  BY <1>3, ServerPreserves
<1>4. CASE UNCHANGED navVars
  BY <1>4 DEF navVars, NavInv, NavTypeOK, NoGoalTwice, NoLostAnswer,
              HandleIsLive, ExecutingIsOutstanding, OnlyLatest,
              SuccessIsTruthful, Outstanding, Executing
<1>5. QED
  BY <1>1, <1>2, <1>3, <1>4 DEF NavNext

(* Whatever goals cross in the network, the client and the server keep the *)
(* whole invariant (nav_client.py:36-79).                                  *)
THEOREM NavInvHolds == NavSpec => []NavInv
BY NavInvInit, NavInvStep, PTL DEF NavSpec

(* The client's flags and the server's table keep their types: cancel()    *)
(* in particular never asks for a goal that is no goal (nav_client.py:55). *)
THEOREM NavTypesHold == NavSpec => []NavTypeOK
<1>1. NavInv => NavTypeOK
  BY DEF NavInv
<1>2. QED
  BY <1>1, NavInvHolds, PTL

(* A client that says it is active is owed the answer to its last goal,    *)
(* whatever answers of earlier goals came in between (nav_client.py:47-69).*)
THEOREM NoAnswerIsLost == NavSpec => []NoLostAnswer
<1>1. NavInv => NoLostAnswer
  BY DEF NavInv
<1>2. QED
  BY <1>1, NavInvHolds, PTL

(* cancel() names only goals whose result is still to come, and Nav2 never *)
(* drives to a goal of which the client has heard the end                  *)
(* (nav_client.py:54-74).                                                  *)
THEOREM NobodyDrivesUnheard == NavSpec => []GoalsInPlayAreHeard
<1>1. NavInv => GoalsInPlayAreHeard
  BY DEF NavInv, GoalsInPlayAreHeard
<1>2. QED
  BY <1>1, NavInvHolds, PTL

(* Without overlapping goals `succeeded` speaks of the last goal sent, and *)
(* Nav2 has come to rest (nav_client.py:28-30, 71-74).                     *)
THEOREM SuccessMeansArrival == NavSpec => []SuccessIsTruthful
<1>1. NavInv => SuccessIsTruthful
  BY DEF NavInv
<1>2. QED
  BY <1>1, NavInvHolds, PTL
=============================================================================
