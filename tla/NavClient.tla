----------------------------- MODULE NavClient -----------------------------
(***************************************************************************)
(* explorer/nav_client.py: the thin wrapper around Nav2's NavigateToPose   *)
(* action client, together with the Nav2 action server it talks to.        *)
(*                                                                         *)
(* The wrapper keeps three flags (_active, _succeeded and the handle of    *)
(* the accepted goal) and updates them from two callbacks.  The callbacks  *)
(* do not know which goal they answer, so what matters here is the order   *)
(* in which requests, responses, cancels and results of DIFFERENT goals    *)
(* cross between the client and the server.                                *)
(*                                                                         *)
(* _canceled is left out: it only selects whether a warning is logged      *)
(* (nav_client.py:76-79).  The server is external (Nav2's bt_navigator):   *)
(* one goal executes at a time, a newly accepted goal preempts and aborts  *)
(* the executing one, a cancel request stops the goal it names.            *)
(***************************************************************************)
EXTENDS Sequences, Functions

CONSTANTS
  Goals,   (* Goal identifiers; an identifier is used again once nothing   *)
           (* of its previous goal is in flight.                           *)
  Places,  (* What a goal asks for: the poses the caller sends.            *)
  None     (* Python's None.                                               *)

ASSUME NoneAssumption == None \notin Goals \cup Places

VARIABLES
  active,      (* NavClient._active                                        *)
  handle,      (* NavClient._handle: the goal whose handle is held         *)
  succeeded,   (* NavClient._succeeded                                     *)
  inFlight,    (* goals sent whose response is not handled, in send order  *)
  waiting,     (* goals accepted, their result asked for and not handled   *)
  cancels,     (* cancel requests the server has not processed             *)
  server,      (* the server's status of every goal                        *)
  place,       (* the pose every goal was sent for                         *)
  latest,      (* history: the goal of the last send()                     *)
  overlapped   (* history: some send() found an earlier goal unanswered    *)

clientVars == <<active, handle, succeeded>>
navVars == <<active, handle, succeeded, inFlight, waiting, cancels, server,
             place, latest, overlapped>>

Terminal == {"succeeded", "aborted", "canceled"}
Status == {"idle", "queued", "executing", "rejected"} \cup Terminal

(* Goals the client has sent and not heard the end of. *)
Outstanding == Range(inFlight) \cup waiting

(* Goals Nav2 is driving to. *)
Executing == {g \in Goals : server[g] = "executing"}

Free == Goals \ (Outstanding \cup cancels)

NavTypeOK ==
  /\ active \in BOOLEAN
  /\ handle \in Goals \cup {None}
  /\ succeeded \in BOOLEAN
  /\ inFlight \in Seq(Goals)
  /\ waiting \subseteq Goals
  /\ cancels \subseteq Goals
  /\ server \in [Goals -> Status]
  /\ place \in [Goals -> Places \cup {None}]
  /\ latest \in Goals \cup {None}
  /\ overlapped \in BOOLEAN

NavInit ==
  /\ active = FALSE
  /\ handle = None
  /\ succeeded = FALSE
  /\ inFlight = <<>>
  /\ waiting = {}
  /\ cancels = {}
  /\ server = [g \in Goals |-> "idle"]
  /\ place = [g \in Goals |-> None]
  /\ latest = None
  /\ overlapped = FALSE

----------------------------------------------------------------------------
(* The methods of NavClient. *)

(* The request half of send(): a goal request enters the network.  What    *)
(* became of goals whose identifiers are free is forgotten.                *)
Request(p) ==
  \E g \in Free :
    /\ inFlight' = Append(inFlight, g)
    /\ server' = [h \in Goals |-> IF h = g THEN "queued"
                                  ELSE IF h \in Free THEN "idle"
                                  ELSE server[h]]
    /\ place' = [h \in Goals |-> IF h = g THEN p
                                 ELSE IF h \in Free THEN None
                                 ELSE place[h]]
    /\ latest' = g
    /\ overlapped' = (overlapped \/ Outstanding # {})

(* The request half of cancel(): only a goal whose handle is held can be   *)
(* cancelled; one still in flight is not.                                  *)
Revoke == cancels' = cancels \cup ({handle} \ {None})

(* send(): the server is up (when it is not, send() changes nothing).      *)
Send(p) ==
  /\ Request(p)
  /\ active' = TRUE
  /\ succeeded' = FALSE
  /\ UNCHANGED <<handle, waiting, cancels>>

(* cancel() *)
Cancel ==
  /\ Revoke
  /\ active' = FALSE
  /\ handle' = None
  /\ succeeded' = FALSE
  /\ UNCHANGED <<inFlight, waiting, server, place, latest, overlapped>>

(* cancel() and send() in one callback, as the FSM calls them when it      *)
(* changes from one navigation state to the next.                          *)
CancelThenSend(p) ==
  /\ Revoke
  /\ Request(p)
  /\ active' = TRUE
  /\ handle' = None
  /\ succeeded' = FALSE
  /\ UNCHANGED waiting

(* Mutant of OnGoalAccepted: the rejection branch does not clear _active. *)
OnGoalAcceptedKeepsActive ==
  /\ inFlight # <<>>
  /\ server[Head(inFlight)] # "queued"
  /\ inFlight' = Tail(inFlight)
  /\ IF server[Head(inFlight)] = "rejected"
       THEN UNCHANGED <<handle, waiting>>
       ELSE handle' = Head(inFlight) /\ waiting' = waiting \cup {Head(inFlight)}
  /\ UNCHANGED <<active, succeeded, cancels, server, place, latest, overlapped>>

(* Mutant of OnGoalAccepted: an answer that comes after cancel() is        *)
(* dropped, and the result of the goal is never asked for.                 *)
OnGoalAcceptedDropsLate ==
  /\ inFlight # <<>>
  /\ server[Head(inFlight)] # "queued"
  /\ inFlight' = Tail(inFlight)
  /\ IF ~active THEN UNCHANGED <<active, handle, waiting>>
     ELSE IF server[Head(inFlight)] = "rejected"
       THEN active' = FALSE /\ UNCHANGED <<handle, waiting>>
       ELSE /\ handle' = Head(inFlight)
            /\ waiting' = waiting \cup {Head(inFlight)}
            /\ UNCHANGED active
  /\ UNCHANGED <<succeeded, cancels, server, place, latest, overlapped>>

(* _on_goal_accepted(): responses arrive in the order of the requests. *)
OnGoalAccepted ==
  /\ inFlight # <<>>
  /\ server[Head(inFlight)] # "queued"
  /\ inFlight' = Tail(inFlight)
  /\ IF server[Head(inFlight)] = "rejected"
       THEN /\ active' = FALSE
            /\ UNCHANGED <<handle, waiting>>
       ELSE /\ handle' = Head(inFlight)
            /\ waiting' = waiting \cup {Head(inFlight)}
            /\ UNCHANGED active
  /\ UNCHANGED <<succeeded, cancels, server, place, latest, overlapped>>

(* Mutant of OnNavResult: _active is not cleared. *)
OnNavResultKeepsActive(g) ==
  /\ g \in waiting
  /\ server[g] \in Terminal
  /\ waiting' = waiting \ {g}
  /\ active' = active
  /\ handle' = None
  /\ succeeded' = (server[g] = "succeeded")
  /\ UNCHANGED <<inFlight, cancels, server, place, latest, overlapped>>

(* Mutant of OnNavResult: any result counts as success. *)
OnNavResultAnyStatus(g) ==
  /\ g \in waiting
  /\ server[g] \in Terminal
  /\ waiting' = waiting \ {g}
  /\ active' = FALSE
  /\ handle' = None
  /\ succeeded' = TRUE
  /\ UNCHANGED <<inFlight, cancels, server, place, latest, overlapped>>

(* _on_nav_result(): the result of any goal whose result was asked for. *)
OnNavResult(g) ==
  /\ g \in waiting
  /\ server[g] \in Terminal
  /\ waiting' = waiting \ {g}
  /\ active' = FALSE
  /\ handle' = None
  /\ succeeded' = (server[g] = "succeeded")
  /\ UNCHANGED <<inFlight, cancels, server, place, latest, overlapped>>

----------------------------------------------------------------------------
(* The Nav2 action server. *)

(* The oldest request the server has not looked at. *)
NextRequest(g) ==
  \E i \in DOMAIN inFlight :
    /\ inFlight[i] = g
    /\ server[g] = "queued"
    /\ \A j \in DOMAIN inFlight : j < i => server[inFlight[j]] # "queued"

ServerAccepts(g) ==
  /\ NextRequest(g)
  /\ server' = [h \in Goals |-> IF h = g THEN "executing"
                                ELSE IF h \in Executing THEN "aborted"
                                ELSE server[h]]
  /\ UNCHANGED <<clientVars, inFlight, waiting, cancels, place, latest,
                 overlapped>>

ServerRejects(g) ==
  /\ NextRequest(g)
  /\ server' = [server EXCEPT ![g] = "rejected"]
  /\ UNCHANGED <<clientVars, inFlight, waiting, cancels, place, latest,
                 overlapped>>

(* A cancel that arrives after the goal ended is ignored. *)
ServerCancels(g) ==
  /\ g \in cancels
  /\ cancels' = cancels \ {g}
  /\ server' = IF g \in Executing THEN [server EXCEPT ![g] = "canceled"]
                                  ELSE server
  /\ UNCHANGED <<clientVars, inFlight, waiting, place, latest, overlapped>>

ServerFinishes(g) ==
  /\ g \in Executing
  /\ \E s \in {"succeeded", "aborted"} : server' = [server EXCEPT ![g] = s]
  /\ UNCHANGED <<clientVars, inFlight, waiting, cancels, place, latest,
                 overlapped>>

----------------------------------------------------------------------------
(* The caller sends only while no goal is active (or right after cancel),  *)
(* and cancels whenever it likes.                                          *)
Caller ==
  \/ \E p \in Places : ~active /\ Send(p)
  \/ \E p \in Places : CancelThenSend(p)
  \/ Cancel

Callback == OnGoalAccepted \/ \E g \in Goals : OnNavResult(g)

Server ==
  \E g \in Goals : \/ ServerAccepts(g)
                   \/ ServerRejects(g)
                   \/ ServerCancels(g)
                   \/ ServerFinishes(g)

NavNext == Caller \/ Callback \/ Server

NavSpec == NavInit /\ [][NavNext]_navVars

(* The executor keeps running callbacks, and Nav2 answers every request    *)
(* and ends every goal (its behaviour tree bounds its recoveries).  The    *)
(* caller is not assumed to do anything.                                   *)
NavFairness ==
  /\ WF_navVars(OnGoalAccepted)
  /\ \A g \in Goals : /\ WF_navVars(OnNavResult(g))
                      /\ WF_navVars(ServerAccepts(g) \/ ServerRejects(g))
                      /\ WF_navVars(ServerFinishes(g))

FairNavSpec == NavSpec /\ NavFairness

----------------------------------------------------------------------------
(* The FSM waits for as long as `active` is set (explorer_node.py:214,     *)
(* 236, 250), so an active client must be owed an answer: the last goal    *)
(* sent is still to be responded to or its result is still to come,        *)
(* whatever answers of older goals came in between.                        *)
NoLostAnswer == active => latest \in Outstanding

(* cancel() is only ever issued for a goal the client still waits for: a   *)
(* handle does not survive the result of its goal (nav_client.py:54-60     *)
(* against 71-79).                                                         *)
HandleIsLive == handle # None => handle \in waiting

(* Nav2 drives for nobody: a goal that executes is one whose end the       *)
(* client will still be told, even when it was cancelled or preempted.     *)
ExecutingIsOutstanding == Executing \subseteq Outstanding

(* Whatever is left of a goal, at the client or at Nav2, is still owed the *)
(* goal's end (nav_client.py:54-74).                                       *)
GoalsInPlayAreHeard == HandleIsLive /\ ExecutingIsOutstanding

(* While sends never overlap an unanswered goal, `succeeded` means what    *)
(* the FSM takes it for: the last goal sent reached its pose, and Nav2 no  *)
(* longer moves the robot (nav_client.py:28-30).                           *)
SuccessIsTruthful ==
  ~overlapped /\ succeeded =>
    /\ latest \in Goals
    /\ server[latest] = "succeeded"
    /\ Outstanding = {}
    /\ Executing = {}

(* The caller's wait ends: an active client is eventually answered.        *)
EventuallyAnswered == active ~> ~active

=============================================================================
