------------------------- MODULE RosInterfaceProofs -------------------------
(***************************************************************************)
(* Proofs about RosInterface, for every number of scripts, goals and       *)
(* handles and every kind of proxy.                                        *)
(*                                                                         *)
(* Most actions leave the handle tables alone: those go on with what the   *)
(* stack and the goals permit (Proceeds), and the invariant follows from   *)
(* that alone.  The four that change the tables are looked at one by one.  *)
(***************************************************************************)
EXTENDS RosInterface, TLAPS

(* A script with a function on the stack lives, and so does the owner of   *)
(* every proxy.                                                            *)
ScriptsInv ==
  /\ running \in alive \cup {None}
  /\ \A h \in Live : table[h].owner \in alive

(* Handles that were not given out yet are nowhere. *)
IssuedInv ==
  /\ \A h \in Live : h =< issued
  /\ spin # None /\ spin.proxy # None => spin.proxy =< issued
  /\ callback # None => callback.proxy =< issued
  /\ \A g \in Goals : goals[g].server # None => goals[g].server =< issued

(* The frames of the stack know whose proxies they use. *)
StackInv ==
  /\ spin = None => callback = None
  /\ spin # None /\ spin.proxy \in Live => table[spin.proxy].owner = spin.owner
  /\ callback # None =>
       /\ callback.script \in alive
       /\ callback.proxy \in Live =>
            table[callback.proxy].owner = callback.script

(* What a callback about a goal is about, that was sent to the server that *)
(* the callback is of.                                                     *)
About(g, h) ==
  g \in Goals /\ goals[g].phase # "unsent" /\ goals[g].server = h

AboutInv ==
  callback # None /\ callback.what \in {"goal", "cancel"} =>
    About(callback.goal, callback.proxy)

ToldInv == \A g \in told : goals[g].phase # "unsent"

RosInv ==
  /\ RosTypeOK
  /\ ScriptsInv /\ IssuedInv /\ StackInv /\ AboutInv /\ ToldInv
  /\ StackKeepsItsProxies
  /\ ToldGoalsAreFound

-----------------------------------------------------------------------------
(* What every action but those that change the tables does to the stack    *)
(* and to the goals.                                                       *)

(* A function of a script is called, or returns. *)
CallStep ==
  /\ spin = None
  /\ running' \in alive \cup {None}
  /\ UNCHANGED <<spin, callback>>

(* A command spins, gets its answer, or returns. *)
SpinStep ==
  /\ callback = None
  /\ UNCHANGED <<running, callback>>
  /\ \/ spin' = None
     \/ spin # None /\ spin' = [spin EXCEPT !.done = TRUE]
     \/ /\ spin' \in Spins
        /\ spin'.proxy # None =>
             spin'.proxy \in Live /\ spin'.owner = table[spin'.proxy].owner

(* A callback is dispatched. *)
DispatchStep ==
  /\ spin # None /\ callback = None
  /\ running' = running
  /\ spin' \in {spin, [spin EXCEPT !.done = TRUE]}
  /\ callback' \in Callbacks
  /\ callback'.proxy \in Live \cup {spin.proxy}
  /\ callback'.script \in alive
  /\ callback'.script = IF callback'.proxy \in Live
                        THEN table[callback'.proxy].owner ELSE spin.owner
  /\ AboutInv'

(* A callback is over, or goes on to tell its script of a goal. *)
CallbackStep ==
  /\ callback # None
  /\ UNCHANGED <<running, spin>>
  /\ \/ callback' = None
     \/ callback' = [callback EXCEPT !.what = "accepted"]

ThreadStep ==
  UNCHANGED threadVars \/ CallStep \/ SpinStep \/ DispatchStep \/ CallbackStep

(* A goal that was sent stays so, and stays its server's. *)
GoalsStep ==
  /\ goals' \in [Goals -> GoalRecords]
  /\ \A g \in Goals :
       /\ goals[g].phase # "unsent" =>
            goals'[g].phase # "unsent" /\ goals'[g].server = goals[g].server
       /\ goals'[g].server # None => goals'[g].server =< issued

(* Handles of goals are only added; a goal that a script is told of is     *)
(* added.                                                                  *)
HandlesStep ==
  /\ last' \in [Handles -> Goals \cup {None, "null"}]
  /\ goalHandles' \in [Handles -> SUBSET Goals]
  /\ \A h \in Handles : goalHandles[h] \subseteq goalHandles'[h]
  /\ \/ told' = told
     \/ /\ callback # None /\ callback.what = "goal"
        /\ told' = told \cup {callback.goal}
        /\ callback.proxy \in Live =>
             callback.goal \in goalHandles'[callback.proxy]

Proceeds ==
  /\ UNCHANGED tableVars
  /\ ok' \in BOOLEAN
  /\ process' \in {"up", "hung", "crashed", "closed"}
  /\ ThreadStep /\ GoalsStep /\ HandlesStep

-----------------------------------------------------------------------------
(* The invariant follows from that. *)

LEMMA InitRos == RosInit => RosInv
BY RosAssumption
DEF RosInit, RosInv, RosTypeOK, ScriptsInv, IssuedInv, StackInv, AboutInv, ToldInv,
    StackKeepsItsProxies, ToldGoalsAreFound, Live, OnStack, Handles, GoalRecords,
    Unsent, Peers, Phases

LEMMA ProceedingKeepsTypes ==
  ASSUME RosInv, Proceeds
  PROVE  RosTypeOK'
<1> USE DEF RosInv, RosTypeOK, Proceeds
<1>1. running' \in Scripts \cup {None}
  BY DEF ThreadStep, CallStep, SpinStep, DispatchStep, CallbackStep, threadVars
<1>2. spin' \in Spins \cup {None}
  <2>1. spin # None => [spin EXCEPT !.done = TRUE] \in Spins
    BY DEF Spins
  <2>2. QED
    BY <2>1 DEF ThreadStep, CallStep, SpinStep, DispatchStep, CallbackStep, threadVars
<1>3. callback' \in Callbacks \cup {None}
  <2>1. callback # None => [callback EXCEPT !.what = "accepted"] \in Callbacks
    BY DEF Callbacks
  <2>2. QED
    BY <2>1 DEF ThreadStep, CallStep, SpinStep, DispatchStep, CallbackStep, threadVars
<1>4. told' \subseteq Goals
  BY DEF HandlesStep, AboutInv, About
<1>5. QED
  BY <1>1, <1>2, <1>3, <1>4 DEF HandlesStep, GoalsStep, tableVars

LEMMA ProceedingKeepsScripts ==
  ASSUME RosInv, Proceeds
  PROVE  ScriptsInv'
BY DEF RosInv, Proceeds, ScriptsInv, tableVars, Live, ThreadStep, CallStep, SpinStep,
       DispatchStep, CallbackStep, threadVars

LEMMA ProceedingKeepsStack ==
  ASSUME RosInv, Proceeds
  PROVE  StackInv' /\ IssuedInv'
<1> USE RosAssumption DEF RosInv, RosTypeOK, Proceeds, tableVars, Live
<1>1. GoalsStep /\ StackInv /\ IssuedInv
  OBVIOUS
<1>2. CASE UNCHANGED threadVars
  BY <1>1, <1>2 DEF threadVars, StackInv, IssuedInv, GoalsStep
<1>3. CASE CallStep
  BY <1>1, <1>3 DEF CallStep, StackInv, IssuedInv, GoalsStep
<1>4. CASE SpinStep
  BY <1>1, <1>4 DEF SpinStep, StackInv, IssuedInv, GoalsStep, Spins
<1>5. CASE DispatchStep
  <2>1. spin'.proxy = spin.proxy /\ spin'.owner = spin.owner /\ spin' # None
    <3>1. spin \in Spins /\ None \notin Spins
      BY <1>5, NothingAssumption DEF DispatchStep
    <3>2. spin' \in {spin, [spin EXCEPT !.done = TRUE]}
      BY <1>5 DEF DispatchStep
    <3>3. /\ [spin EXCEPT !.done = TRUE] \in Spins
          /\ [spin EXCEPT !.done = TRUE].proxy = spin.proxy
          /\ [spin EXCEPT !.done = TRUE].owner = spin.owner
      BY <3>1 DEF Spins
    <3>4. QED
      BY <3>1, <3>2, <3>3
  <2>2. spin.proxy \in Live => table[spin.proxy].owner = spin.owner
    BY <1>1, <1>5 DEF DispatchStep, StackInv
  <2>3. StackInv'
    BY <1>5, <2>1, <2>2 DEF DispatchStep, StackInv
  <2>4. callback'.proxy =< issued
    BY <1>1, <1>5 DEF DispatchStep, IssuedInv, Callbacks
  <2>5. IssuedInv'
    BY <1>1, <2>1, <2>4, <1>5 DEF DispatchStep, IssuedInv, GoalsStep
  <2>6. QED
    BY <2>3, <2>5
<1>6. CASE CallbackStep
  BY <1>1, <1>6 DEF CallbackStep, StackInv, IssuedInv, GoalsStep, Callbacks
<1>7. QED
  BY <1>2, <1>3, <1>4, <1>5, <1>6 DEF ThreadStep

LEMMA ProceedingKeepsGoals ==
  ASSUME RosInv, Proceeds
  PROVE  AboutInv' /\ ToldInv' /\ ToldGoalsAreFound'
<1> USE RosAssumption DEF RosInv, RosTypeOK, Proceeds, tableVars, Live
<1>1. ToldInv' /\ ToldGoalsAreFound'
  BY DEF HandlesStep, GoalsStep, AboutInv, About, ToldInv, ToldGoalsAreFound
<1>2. AboutInv'
  <2>1. CASE callback' = callback \/ callback' = None
    BY <2>1 DEF AboutInv, About, GoalsStep
  <2>2. CASE DispatchStep
    BY <2>2 DEF DispatchStep
  <2>3. CASE callback # None /\ callback' = [callback EXCEPT !.what = "accepted"]
    BY <2>3 DEF Callbacks, AboutInv
  <2>4. QED
    BY <2>1, <2>2, <2>3 DEF ThreadStep, CallStep, SpinStep, CallbackStep, threadVars
<1>3. QED
  BY <1>1, <1>2

LEMMA ProceedingKeepsProxies ==
  ASSUME RosInv, Proceeds
  PROVE  StackKeepsItsProxies'
<1> USE RosAssumption DEF RosInv, RosTypeOK, Proceeds, tableVars, Live,
                          StackKeepsItsProxies, OnStack
<1>1. CASE UNCHANGED threadVars
  BY <1>1 DEF threadVars
<1>2. CASE CallStep
  BY <1>2 DEF CallStep, StackInv
<1>3. CASE SpinStep
  BY <1>3 DEF SpinStep, Spins
<1>4. CASE DispatchStep
  BY <1>4 DEF DispatchStep, Spins, Callbacks
<1>5. CASE CallbackStep
  BY <1>5 DEF CallbackStep, Callbacks
<1>6. QED
  BY <1>1, <1>2, <1>3, <1>4, <1>5 DEF ThreadStep

LEMMA ProceedingKeepsInv ==
  ASSUME RosInv, Proceeds
  PROVE  RosInv'
BY ProceedingKeepsTypes, ProceedingKeepsScripts, ProceedingKeepsStack,
   ProceedingKeepsGoals, ProceedingKeepsProxies DEF RosInv

-----------------------------------------------------------------------------
(* The actions that leave the tables alone. *)

(* The simulator's state stays one. *)
LEMMA UsingKeepsProcess ==
  ASSUME RosTypeOK, NEW h, Uses(h)
  PROVE  process' \in {"up", "hung", "crashed", "closed"}
BY DEF RosTypeOK, Uses

LEMMA NothingDispatched ==
  ASSUME RosTypeOK, spin # None, callback = None, callback' = None,
         running' = running, spin' \in {spin, [spin EXCEPT !.done = TRUE]}
  PROVE  ThreadStep
BY DEF ThreadStep, SpinStep, threadVars

LEMMA ServingDispatches ==
  ASSUME RosTypeOK, Dispatching, running' = running,
         spin' \in {spin, [spin EXCEPT !.done = TRUE]},
         NEW h \in Handles, h \in Live \cup {spin.proxy},
         NEW g \in Goals \cup {None},
         NEW what \in {"message", "request", "goal", "accepted", "cancel",
                       "response", "feedback", "result"},
         what \in {"goal", "cancel"} => About(g, h)',
         Serves(h, what, g)
  PROVE  ThreadStep /\ process' \in {"up", "hung", "crashed", "closed"}
<1> DEFINE script == IF h \in Live THEN table[h].owner ELSE spin.owner
           frame == [proxy |-> h, script |-> script, what |-> what, goal |-> g]
<1>1. spin # None /\ callback = None
  BY DEF Dispatching
<1>2. callback' = IF script \notin alive THEN None ELSE frame
  BY DEF Serves
<1>3. process' \in {"up", "hung", "crashed", "closed"}
  BY UsingKeepsProcess DEF Serves
<1>4. CASE script \notin alive
  BY <1>1, <1>2, <1>3, <1>4, NothingDispatched
<1>5. CASE script \in alive
  <2>1. frame \in Callbacks
    BY <1>5 DEF Callbacks, RosTypeOK
  <2>2. /\ callback' = frame
        /\ callback'.proxy = h /\ callback'.script = script
        /\ callback'.what = what /\ callback'.goal = g
    BY <1>2, <1>5
  <2>3. AboutInv'
    BY <2>2 DEF AboutInv, About
  <2>4. DispatchStep
    BY <1>1, <1>5, <2>1, <2>2, <2>3 DEF DispatchStep
  <2>5. QED
    BY <1>3, <2>4 DEF ThreadStep
<1>6. QED
  BY <1>4, <1>5

(* Nothing happens to the goals. *)
LEMMA GoalsRest ==
  ASSUME RosInv, UNCHANGED goalVars
  PROVE  GoalsStep /\ HandlesStep
BY DEF RosInv, RosTypeOK, IssuedInv, goalVars, GoalsStep, HandlesStep

(* What becomes of a goal's record. *)
LEMMA AskedChanges ==
  ASSUME NEW r \in GoalRecords, NEW a \in BOOLEAN
  PROVE  /\ [r EXCEPT !.asked = a] \in GoalRecords
         /\ [r EXCEPT !.asked = a].phase = r.phase
         /\ [r EXCEPT !.asked = a].server = r.server
BY DEF GoalRecords

LEMMA PhaseChanges ==
  ASSUME NEW r \in GoalRecords, NEW p \in Phases
  PROVE  /\ [r EXCEPT !.phase = p] \in GoalRecords
         /\ [r EXCEPT !.phase = p].phase = p
         /\ [r EXCEPT !.phase = p].server = r.server
BY DEF GoalRecords

LEMMA ServerChanges ==
  ASSUME NEW r \in GoalRecords, NEW h \in Peers
  PROVE  /\ [r EXCEPT !.phase = "requested", !.server = h] \in GoalRecords
         /\ [r EXCEPT !.phase = "requested", !.server = h].phase = "requested"
         /\ [r EXCEPT !.phase = "requested", !.server = h].server = h
BY DEF GoalRecords, Phases

LEMMA HeardChanges ==
  ASSUME NEW r \in GoalRecords, NEW p \in Phases,
         NEW d \in {"nothing", "response", "result"}
  PROVE  /\ [r EXCEPT !.phase = p, !.heard = d] \in GoalRecords
         /\ [r EXCEPT !.phase = p, !.heard = d].phase = p
         /\ [r EXCEPT !.phase = p, !.heard = d].server = r.server
BY DEF GoalRecords

(* Something happens to a goal: it was sent before, or a server gets it. *)
LEMMA GoalMoves ==
  ASSUME RosInv, NEW g \in Goals, NEW r \in GoalRecords,
         goals' = [goals EXCEPT ![g] = r],
         goals[g].phase # "unsent" =>
           r.phase # "unsent" /\ r.server = goals[g].server,
         r.server # None => r.server =< issued
  PROVE  GoalsStep
BY DEF RosInv, RosTypeOK, IssuedInv, GoalsStep

LEMMA HandlesRest ==
  ASSUME RosInv, UNCHANGED <<last, goalHandles, told>>
  PROVE  HandlesStep
BY DEF RosInv, RosTypeOK, HandlesStep

LEMMA CallsProceed ==
  ASSUME RosInv,
         \/ \E s \in Scripts : CallsScript(s)
         \/ ScriptReturns \/ PassBegins \/ PassEnds \/ Interrupted \/ Closes
  PROVE  Proceeds
<1> USE DEF RosInv, RosTypeOK, Proceeds, ThreadStep
<1>1. CASE \E s \in Scripts : CallsScript(s)
  BY <1>1, GoalsRest DEF CallsScript, CallStep
<1>2. CASE ScriptReturns
  BY <1>2, GoalsRest DEF ScriptReturns, CallStep
<1>3. CASE PassBegins
  <2>1. callback = None
    BY <1>3 DEF PassBegins, StackInv
  <2>2. spin' \in Spins /\ spin'.proxy = None
    BY <1>3 DEF PassBegins, Spinning, Spins, Peers
  <2>3. SpinStep
    BY <1>3, <2>1, <2>2 DEF PassBegins, SpinStep
  <2>4. QED
    BY <1>3, <2>3, GoalsRest DEF PassBegins
<1>4. CASE PassEnds
  BY <1>4, GoalsRest DEF PassEnds, SpinStep
<1>5. CASE Interrupted
  BY <1>5, GoalsRest DEF Interrupted
<1>6. CASE Closes
  BY <1>6, GoalsRest DEF Closes
<1>7. QED
  BY <1>1, <1>2, <1>3, <1>4, <1>5, <1>6

LEMMA SpinningIsSpin ==
  ASSUME NEW op \in {"pass", "call", "goal", "cancel", "has", "get", "set"},
         NEW proxy \in Peers, NEW owner \in Scripts \cup {None},
         NEW peer \in Peers, NEW goal \in Goals \cup {None}
  PROVE  /\ Spinning(op, proxy, owner, peer, goal) \in Spins
         /\ Spinning(op, proxy, owner, peer, goal).proxy = proxy
         /\ Spinning(op, proxy, owner, peer, goal).owner = owner
BY DEF Spinning, Spins

(* A command that spins, or tries to, from inside a callback. *)
LEMMA SpinningProceeds ==
  ASSUME RosInv, NEW proxy \in Live \cup {None}, NEW peer \in Peers,
         NEW goal \in Goals \cup {None},
         NEW op \in {"call", "goal", "cancel", "has", "get", "set"},
         SpinsFor(op, proxy, peer, goal), UNCHANGED <<running, callback>>
  PROVE  ThreadStep
<1>1. CASE callback # None
  BY <1>1 DEF ThreadStep, threadVars, SpinsFor
<1>2. CASE callback = None
  <2> DEFINE whose == IF proxy = None THEN None ELSE table[proxy].owner
  <2>1. whose \in Scripts \cup {None} /\ proxy \in Peers
    BY DEF Live, Proxies, Peers, RosInv, RosTypeOK
  <2>2. spin' = Spinning(op, proxy, whose, peer, goal)
    BY <1>2 DEF SpinsFor
  <2> HIDE DEF whose
  <2>3. /\ spin' \in Spins
        /\ spin'.proxy = proxy /\ spin'.owner = whose
    BY <2>1, <2>2, SpinningIsSpin
  <2>4. SpinStep
    BY <1>2, <2>3 DEF SpinStep, whose
  <2>5. QED
    BY <2>4 DEF ThreadStep
<1>3. QED
  BY <1>1, <1>2

LEMMA AsksProceed ==
  ASSUME RosInv, Asks
  PROVE  Proceeds
<1> USE RosAssumption DEF RosInv, RosTypeOK, Proceeds
<1>1. CASE CallService
  <2>1. PICK c \in Of("client"), peer \in {None} \cup Of("service") :
          SpinsFor("call", c, peer, None)
    BY <1>1 DEF CallService
  <2>2. c \in Live /\ peer \in Peers
    BY DEF Of, Live, Peers
  <2>3. ThreadStep
    BY <1>1, <2>1, <2>2, SpinningProceeds DEF CallService
  <2>4. QED
    BY <1>1, <2>3, GoalsRest DEF CallService
<1>2. CASE CancelLastGoal
  <2>1. PICK c \in Of("actionClient") :
          \/ /\ last[c] = "null"
             /\ process' = "crashed"
             /\ UNCHANGED <<goals, spin>>
          \/ /\ last[c] \in Goals
             /\ goals' = [goals EXCEPT ![last[c]].asked = TRUE]
             /\ SpinsFor("cancel", c, goals[last[c]].server, last[c])
             /\ process' = process
    BY <1>2 DEF CancelLastGoal
  <2>2. UNCHANGED <<tableVars, running, callback, ok, last, goalHandles, told>>
    BY <1>2 DEF CancelLastGoal
  <2>3. CASE last[c] = "null" /\ process' = "crashed" /\ UNCHANGED <<goals, spin>>
    BY <2>2, <2>3, GoalsRest DEF goalVars, ThreadStep, threadVars
  <2>4. CASE /\ last[c] \in Goals
             /\ goals' = [goals EXCEPT ![last[c]].asked = TRUE]
             /\ SpinsFor("cancel", c, goals[last[c]].server, last[c])
             /\ process' = process
    <3>1. c \in Live /\ goals[last[c]].server \in Peers
      BY <2>4 DEF Of, Live, GoalRecords
    <3>2. ThreadStep
      BY <2>2, <2>4, <3>1, SpinningProceeds
    <3>3. GoalsStep
      <4> DEFINE r == [goals[last[c]] EXCEPT !.asked = TRUE]
      <4>1. r \in GoalRecords /\ r.phase = goals[last[c]].phase
                              /\ r.server = goals[last[c]].server
        BY <2>4, AskedChanges
      <4>2. goals' = [goals EXCEPT ![last[c]] = r]
        BY <2>4
      <4> HIDE DEF r
      <4>3. QED
        BY <2>4, <4>1, <4>2, GoalMoves DEF IssuedInv
    <3>4. QED
      BY <2>2, <2>4, <3>2, <3>3, HandlesRest
  <2>5. QED
    BY <2>1, <2>3, <2>4
<1>3. CASE UseParameter
  <2>1. PICK op \in {"has", "set"} : SpinsFor(op, None, None, None)
    BY <1>3 DEF UseParameter
  <2>2. ThreadStep
    BY <1>3, <2>1, SpinningProceeds DEF UseParameter, Peers
  <2>3. QED
    BY <1>3, <2>2, GoalsRest DEF UseParameter
<1>4. ASSUME NEW g \in Goals, SendGoal(g)
      PROVE  Proceeds
  <2>1. PICK c \in Of("actionClient"), peer \in {None} \cup Of("actionServer") :
          /\ goals' = [goals EXCEPT ![g] =
                         [Unsent EXCEPT !.phase = "requested",
                                        !.client = c, !.server = peer]]
          /\ SpinsFor("goal", c, peer, g)
    BY <1>4 DEF SendGoal
  <2>2. c \in Live /\ c \in Peers /\ peer \in Peers /\ (peer # None => peer =< issued)
    BY DEF Of, Live, Peers, IssuedInv
  <2>3. ThreadStep
    BY <1>4, <2>1, <2>2, SpinningProceeds DEF SendGoal
  <2>4. GoalsStep
    BY <1>4, <2>1, <2>2 DEF SendGoal, GoalsStep, GoalRecords, IssuedInv, Unsent, Phases
  <2>5. QED
    BY <1>4, <2>3, <2>4, HandlesRest DEF SendGoal
<1>5. QED
  BY <1>1, <1>2, <1>3, <1>4 DEF Asks

LEMMA ReturnsProceed ==
  ASSUME RosInv, Returns
  PROVE  Proceeds
<1> USE RosAssumption DEF RosInv, RosTypeOK, Proceeds
<1>1. CASE CallReturns
  BY <1>1, GoalsRest DEF CallReturns, Spun, ThreadStep, SpinStep
<1>2. CASE GoalReturns
  <2>1. callback = None /\ spin # None /\ spin \in Spins
    BY <1>2 DEF GoalReturns, Spun
  <2>2. UNCHANGED <<tableVars, running, callback, ok, goals, goalHandles, told>>
    BY <1>2 DEF GoalReturns
  <2>3. process' \in {"up", "hung", "crashed", "closed"}
    BY <1>2, UsingKeepsProcess DEF GoalReturns
  <2>4. ThreadStep
    BY <1>2, <2>1 DEF GoalReturns, ThreadStep, SpinStep, threadVars
  <2>5. last' \in [Handles -> Goals \cup {None, "null"}]
    BY <1>2, <2>1 DEF GoalReturns, Spins, Live
  <2>6. GoalsStep /\ HandlesStep
    BY <2>2, <2>5 DEF GoalsStep, HandlesStep, IssuedInv
  <2>7. QED
    BY <2>2, <2>3, <2>4, <2>6
<1>3. CASE CancelReturns
  BY <1>3, GoalsRest DEF CancelReturns, Spun, ThreadStep, SpinStep
<1>4. CASE ParameterReturns
  <2>1. \A op \in {"get", "set"} :
          /\ Spinning(op, None, None, None, None) \in Spins
          /\ Spinning(op, None, None, None, None).proxy = None
    BY SpinningIsSpin DEF Peers
  <2>2. callback = None /\ UNCHANGED <<tableVars, running, callback, ok, goalVars>>
    BY <1>4 DEF ParameterReturns, Spun
  <2>3. \/ spin' = None
        \/ \E op \in {"get", "set"} :
             spin' = Spinning(op, None, None, None, None)
    BY <1>4 DEF ParameterReturns
  <2>4. ThreadStep
    BY <2>1, <2>2, <2>3 DEF ThreadStep, SpinStep
  <2>5. process' \in {"up", "hung", "crashed", "closed"}
    BY <1>4 DEF ParameterReturns
  <2>6. QED
    BY <2>2, <2>4, <2>5, GoalsRest
<1>5. QED
  BY <1>1, <1>2, <1>3, <1>4 DEF Returns

LEMMA ServerDispatchesProceed ==
  ASSUME RosInv, NEW h \in Handles,
         \/ Message(h) \/ Request(h) \/ AwaitedRequest(h)
         \/ \E g \in Goals : GoalRequest(h, g) \/ CancelRequest(h, g)
  PROVE  Proceeds
<1> USE RosAssumption DEF RosInv, Proceeds
<1>1. CASE Message(h)
  <2>1. h \in Live
    BY <1>1 DEF Message, Of
  <2>2. QED
    BY <1>1, <2>1, ServingDispatches, GoalsRest DEF Message, RosTypeOK
<1>2. CASE Request(h) \/ AwaitedRequest(h)
  <2>1. h \in Live /\ spin' \in {spin, [spin EXCEPT !.done = TRUE]}
    BY <1>2 DEF Request, AwaitedRequest, Of, Completes
  <2>2. QED
    BY <1>2, <2>1, ServingDispatches, GoalsRest DEF Request, AwaitedRequest, RosTypeOK
<1>3. ASSUME NEW g \in Goals, GoalRequest(h, g)
      PROVE  Proceeds
  <2>1. h \in Live /\ h =< issued /\ h \in Peers
    BY <1>3 DEF GoalRequest, Of, IssuedInv, Peers
  <2>2. GoalsStep /\ goals'[g].phase # "unsent" /\ goals'[g].server = h
    <3>1. CASE goals' = goals
      <4>1. goals[g].phase = "requested" /\ goals[g].server = h
        BY <1>3, <3>1 DEF GoalRequest, RosTypeOK, GoalRecords
      <4>2. GoalsStep
        BY <3>1 DEF GoalsStep, RosTypeOK, IssuedInv
      <4>3. QED
        BY <3>1, <4>1, <4>2
    <3>2. CASE goals[g].phase = "unsent" /\
               goals' = [goals EXCEPT ![g].phase = "requested", ![g].server = h]
      <4> DEFINE r == [goals[g] EXCEPT !.phase = "requested", !.server = h]
      <4>1. r \in GoalRecords /\ r.phase = "requested" /\ r.server = h
        BY <2>1, ServerChanges DEF RosTypeOK
      <4>2. goals' = [goals EXCEPT ![g] = r]
        BY <3>2 DEF RosTypeOK
      <4> HIDE DEF r
      <4>3. GoalsStep
        BY <2>1, <3>2, <4>1, <4>2, GoalMoves
      <4>4. QED
        BY <4>1, <4>2, <4>3 DEF RosTypeOK
    <3>3. QED
      BY <1>3, <3>1, <3>2 DEF GoalRequest
  <2>3. ThreadStep /\ process' \in {"up", "hung", "crashed", "closed"}
    BY <1>3, <2>1, <2>2, ServingDispatches DEF GoalRequest, About
  <2>4. QED
    BY <1>3, <2>2, <2>3, HandlesRest DEF GoalRequest, RosTypeOK
<1>4. ASSUME NEW g \in Goals, CancelRequest(h, g)
      PROVE  Proceeds
  <2>1. h \in Live
    BY <1>4 DEF CancelRequest, Of
  <2>2. GoalsStep /\ goals'[g].phase # "unsent" /\ goals'[g].server = h
    <3> DEFINE r == [goals[g] EXCEPT !.asked = FALSE]
    <3>1. r \in GoalRecords /\ r.phase = goals[g].phase /\ r.server = goals[g].server
      BY AskedChanges DEF RosTypeOK
    <3>2. goals' = [goals EXCEPT ![g] = r]
      BY <1>4 DEF CancelRequest, RosTypeOK
    <3>3. goals[g].phase # "unsent" /\ goals[g].server = h
      BY <1>4 DEF CancelRequest, Active
    <3> HIDE DEF r
    <3>4. GoalsStep
      BY <3>1, <3>2, <3>3, GoalMoves DEF IssuedInv
    <3>5. QED
      BY <3>1, <3>2, <3>3, <3>4 DEF RosTypeOK
  <2>3. spin' \in {spin, [spin EXCEPT !.done = TRUE]}
    BY <1>4 DEF CancelRequest, Completes
  <2>4. ThreadStep /\ process' \in {"up", "hung", "crashed", "closed"}
    BY <1>4, <2>1, <2>2, <2>3, ServingDispatches DEF CancelRequest, About
  <2>5. QED
    BY <1>4, <2>2, <2>4, HandlesRest DEF CancelRequest, RosTypeOK
<1>5. QED
  BY <1>1, <1>2, <1>3, <1>4

(* A goal is answered, or ends, and its client hears of it. *)
LEMMA HearingProceeds ==
  ASSUME RosInv, NEW g \in Goals, NEW p \in Phases, NEW d \in {"response", "result"},
         goals' = [goals EXCEPT ![g].phase = p, ![g].heard = d],
         p = goals[g].phase \/ p # "unsent"
  PROVE  GoalsStep
<1>1. goals[g] \in GoalRecords /\ d \in {"nothing", "response", "result"}
  BY DEF RosInv, RosTypeOK
<1> DEFINE r == [goals[g] EXCEPT !.phase = p, !.heard = d]
<1>2. r \in GoalRecords /\ r.phase = p /\ r.server = goals[g].server
  BY <1>1, HeardChanges
<1>3. goals' = [goals EXCEPT ![g] = r]
  BY DEF RosInv, RosTypeOK
<1> HIDE DEF r
<1>4. QED
  BY <1>2, <1>3, GoalMoves DEF RosInv, IssuedInv

(* Only the phase of a goal changes. *)
LEMMA PhaseProceeds ==
  ASSUME RosInv, NEW g \in Goals, NEW p \in Phases \ {"unsent"},
         goals' = [goals EXCEPT ![g].phase = p]
  PROVE  GoalsStep
<1>1. goals[g] \in GoalRecords /\ p \in Phases
  BY DEF RosInv, RosTypeOK
<1> DEFINE r == [goals[g] EXCEPT !.phase = p]
<1>2. r \in GoalRecords /\ r.phase = p /\ r.server = goals[g].server
  BY <1>1, PhaseChanges
<1>3. goals' = [goals EXCEPT ![g] = r]
  BY DEF RosInv, RosTypeOK
<1> HIDE DEF r
<1>4. QED
  BY <1>2, <1>3, GoalMoves DEF RosInv, IssuedInv

LEMMA ClientDispatchesProceed ==
  ASSUME RosInv, NEW g \in Goals, Response(g) \/ Feedback(g) \/ Result(g)
  PROVE  Proceeds
<1> USE RosAssumption DEF Proceeds
<1>1. RosTypeOK
  BY DEF RosInv
<1> DEFINE c == goals[g].client
<1>2. Dispatching /\ Reaches(c)
  BY DEF Response, Feedback, Result
<1>3. c \in Handles /\ c \in Live \cup {spin.proxy}
  BY <1>1, <1>2 DEF Reaches, RosTypeOK, GoalRecords, Peers, Live
<1>4. goals[g].phase \in Phases
  BY <1>1 DEF RosTypeOK, GoalRecords
<1> HIDE DEF c
<1>5. CASE Response(g)
  <2>1. PICK p \in IF goals[g].phase # "requested" THEN {goals[g].phase}
                   ELSE IF goals[g].server = None THEN {"rejected", "executing"}
                   ELSE {} :
          goals' = [goals EXCEPT ![g].phase = p, ![g].heard = "response"]
    BY <1>5 DEF Response
  <2>2. p \in Phases /\ (p = goals[g].phase \/ p # "unsent")
    BY <1>4 DEF Phases, Active
  <2>3. GoalsStep
    BY <2>1, <2>2, HearingProceeds
  <2>4. spin' \in {spin, [spin EXCEPT !.done = TRUE]}
    BY <1>5 DEF Response, Completes
  <2>5. ThreadStep /\ process' \in {"up", "hung", "crashed", "closed"}
    BY <1>1, <1>2, <1>3, <1>5, <2>4, ServingDispatches DEF Response, c
  <2>6. QED
    BY <1>1, <1>5, <2>3, <2>5, HandlesRest DEF Response, RosTypeOK
<1>6. CASE Feedback(g)
  <2>1. ThreadStep /\ process' \in {"up", "hung", "crashed", "closed"}
    BY <1>1, <1>2, <1>3, <1>6, ServingDispatches DEF Feedback, c
  <2>2. QED
    BY <1>1, <1>6, <2>1, GoalsRest DEF Feedback, RosTypeOK
<1>7. CASE Result(g)
  <2>1. PICK p \in IF goals[g].phase \in Ends THEN {goals[g].phase}
                   ELSE IF goals[g].server = None /\ goals[g].phase \in Active
                   THEN Ends
                   ELSE {} :
          goals' = [goals EXCEPT ![g].phase = p, ![g].heard = "result"]
    BY <1>7 DEF Result
  <2>2. p \in Phases /\ (p = goals[g].phase \/ p # "unsent")
    BY <1>4 DEF Phases, Ends
  <2>3. GoalsStep
    BY <2>1, <2>2, HearingProceeds
  <2>4. ThreadStep /\ process' \in {"up", "hung", "crashed", "closed"}
    BY <1>1, <1>2, <1>3, <1>7, ServingDispatches DEF Result, c
  <2>5. QED
    BY <1>1, <1>7, <2>3, <2>4, HandlesRest DEF Result, RosTypeOK
<1>8. QED
  BY <1>5, <1>6, <1>7

LEMMA AnswersProceed == RosInv /\ Answered => Proceeds
BY GoalsRest DEF RosInv, RosTypeOK, Answered, Dispatching, Proceeds, ThreadStep, SpinStep

LEMMA CallbackEndsProceed ==
  ASSUME RosInv, CallbackEnds
  PROVE  Proceeds
<1> USE RosAssumption DEF Proceeds
<1>1. RosTypeOK
  BY DEF RosInv
<1>2. ASSUME NEW what, Answers(what)
      PROVE  callback # None /\ process' \in {"up", "hung", "crashed", "closed"}
  BY <1>1, <1>2, UsingKeepsProcess DEF Answers
<1>3. ASSUME NEW what, Over(what)
      PROVE  Proceeds
  BY <1>1, <1>2, <1>3, GoalsRest DEF Over, ThreadStep, CallbackStep, RosTypeOK
<1>4. ASSUME GoalRejected \/ GoalAccepted \/ CancelAnswered
      PROVE  callback # None /\ process' \in {"up", "hung", "crashed", "closed"}
             /\ callback.goal \in Goals
  BY <1>2, <1>4 DEF GoalRejected, GoalAccepted, CancelAnswered, Answers, RosInv,
                    AboutInv, About
<1>5. CASE GoalRejected
  <2>1. GoalsStep
    BY <1>4, <1>5, PhaseProceeds DEF GoalRejected, Phases
  <2>2. QED
    BY <1>1, <1>4, <1>5, <2>1, HandlesRest
       DEF GoalRejected, ThreadStep, CallbackStep, RosTypeOK
<1>6. CASE GoalAccepted
  <2>1. PICK p \in Active : goals' = [goals EXCEPT ![callback.goal].phase = p]
    BY <1>6 DEF GoalAccepted
  <2>2. GoalsStep
    BY <1>4, <1>6, <2>1, PhaseProceeds DEF Active, Phases
  <2>3. HandlesStep
    BY <1>1, <1>4, <1>6 DEF GoalAccepted, Answers, HandlesStep, RosTypeOK, Live
  <2>4. QED
    BY <1>1, <1>4, <1>6, <2>2, <2>3 DEF GoalAccepted, ThreadStep, CallbackStep, RosTypeOK
<1>7. CASE CancelAnswered
  <2>1. GoalsStep
    <3>1. CASE goals' = goals
      BY <1>1, <3>1 DEF GoalsStep, RosTypeOK, RosInv, IssuedInv
    <3>2. CASE goals' # goals
      <4> DEFINE p == IF goals[callback.goal].phase \in Active THEN "canceling"
                      ELSE goals[callback.goal].phase
      <4>1. goals' = [goals EXCEPT ![callback.goal].phase = p]
        BY <1>7, <3>2 DEF CancelAnswered
      <4>2. p \in Phases \ {"unsent"}
        BY <1>1, <1>4, <1>7
           DEF CancelAnswered, Answers, RosTypeOK, GoalRecords, Phases, RosInv, AboutInv,
               About
      <4> HIDE DEF p
      <4>3. QED
        BY <1>4, <1>7, <4>1, <4>2, PhaseProceeds
    <3>3. QED
      BY <3>1, <3>2
  <2>2. QED
    BY <1>1, <1>4, <1>7, <2>1, HandlesRest
       DEF CancelAnswered, ThreadStep, CallbackStep, RosTypeOK
<1>8. QED
  BY <1>3, <1>5, <1>6, <1>7
     DEF CallbackEnds, MessageOver, RequestOver, ResponseOver, FeedbackOver, ResultOver,
         AcceptedOver

LEMMA ServingGoalsProceeds ==
  ASSUME RosInv, ServesGoals
  PROVE  Proceeds
<1>1. PICK g \in Goals, to \in Phases \ {"unsent"} :
        \E from : Moves(g, from, to)
  BY DEF ServesGoals, ActionExecute, ActionSucceed, ActionAbort, ActionCanceled, Phases,
         Active, Ends
<1>2. PICK from : Moves(g, from, to)
  BY <1>1
<1>3. goals' = [goals EXCEPT ![g].phase = to]
  BY <1>2 DEF Moves
<1>4. GoalsStep
  BY <1>3, PhaseProceeds
<1>5. HandlesStep
  BY <1>2 DEF Moves, KeptHandles, HandlesStep, RosInv, RosTypeOK
<1>6. QED
  BY <1>2, <1>4, <1>5 DEF Moves, Proceeds, ThreadStep, RosInv, RosTypeOK

-----------------------------------------------------------------------------
(* The actions that change the tables.                                     *)

LEMMA StartsKeepInv ==
  ASSUME RosInv, NEW s \in Scripts, ScriptStarts(s)
  PROVE  RosInv'
<1> USE DEF RosInv, ScriptStarts, threadVars, goalVars
<1>1. RosTypeOK' /\ ScriptsInv' /\ IssuedInv' /\ StackInv'
  BY DEF RosTypeOK, ScriptsInv, IssuedInv, StackInv, Live
<1>2. AboutInv' /\ ToldInv' /\ StackKeepsItsProxies' /\ ToldGoalsAreFound'
  BY DEF AboutInv, About, ToldInv, StackKeepsItsProxies, ToldGoalsAreFound, Live, OnStack
<1>3. QED
  BY <1>1, <1>2

(* Whichever proxies are freed, the goals lose nothing but their handles   *)
(* of servers that are gone.                                               *)
LEMMA FreeingKeepsGoals ==
  ASSUME RosInv, NEW H \in SUBSET Handles, Free(H), UNCHANGED <<threadVars, issued>>,
         alive' \subseteq alive, cutShort' \subseteq Handles, UNCHANGED <<ok, process>>
  PROVE  /\ RosTypeOK' /\ IssuedInv' /\ AboutInv' /\ ToldInv' /\ ToldGoalsAreFound'
         /\ Live' = Live \ H
         /\ \A h \in Live' : table'[h] = table[h]
<1> USE RosAssumption DEF RosInv, RosTypeOK, Free, threadVars
<1>1. Live' = Live \ H /\ \A h \in Live' : table'[h] = table[h]
  BY DEF Live
<1>2. RosTypeOK'
  OBVIOUS
<1>3. IssuedInv'
  BY <1>1 DEF IssuedInv
<1>4. AboutInv' /\ ToldInv'
  BY DEF AboutInv, About, ToldInv
<1>5. ToldGoalsAreFound'
  BY <1>1 DEF ToldGoalsAreFound, Live
<1>6. QED
  BY <1>1, <1>2, <1>3, <1>4, <1>5

(* A script that ends is not on the stack: neither the script of a frame   *)
(* nor the owner of a proxy that the frame uses is gone.                   *)
LEMMA EndsKeepInv ==
  ASSUME RosInv, NEW s \in Scripts, ScriptEnds(s)
  PROVE  RosInv'
<1> USE RosAssumption, NothingAssumption
<1> DEFINE H == {h \in Live : table[h].owner = s}
<1>1. /\ RosTypeOK' /\ IssuedInv' /\ AboutInv' /\ ToldInv' /\ ToldGoalsAreFound'
      /\ Live' = Live \ H
      /\ \A h \in Live' : table'[h] = table[h]
  BY FreeingKeepsGoals DEF ScriptEnds, Live, RosInv, RosTypeOK
<1>2. /\ s \in alive \ Busy /\ alive' = alive \ {s}
      /\ UNCHANGED <<running, spin, callback, cutShort>>
  BY DEF ScriptEnds, threadVars
<1>3. ScriptsInv'
  BY <1>1, <1>2 DEF RosInv, ScriptsInv, Busy
<1>4. StackInv'
  BY <1>1, <1>2 DEF RosInv, StackInv, Busy
<1>5. StackKeepsItsProxies'
  <2>1. SUFFICES ASSUME NEW h \in OnStack, h \in Live, h \in H
                 PROVE  h = spin.proxy /\ spin.owner # running
    BY <1>1, <1>2 DEF RosInv, StackKeepsItsProxies, OnStack
  <2>2. callback # None => h # callback.proxy
    BY <1>2, <2>1 DEF RosInv, StackInv, Busy
  <2>3. spin # None /\ h = spin.proxy
    BY <2>1, <2>2 DEF OnStack
  <2>4. spin.owner = s
    BY <2>1, <2>3 DEF RosInv, StackInv
  <2>5. QED
    BY <1>2, <2>3, <2>4 DEF Busy
<1>6. QED
  BY <1>1, <1>3, <1>4, <1>5 DEF RosInv

LEMMA ShutdownKeepsInv ==
  ASSUME RosInv, NEW kinds, Shutdown(kinds)
  PROVE  RosInv'
<1>1. PICK h \in Live : /\ Free({h})
                        /\ cutShort' = cutShort \cup ({h} \cap OnStack)
                        /\ UNCHANGED <<alive, issued, threadVars, ok, process>>
  BY DEF Shutdown
<1>2. /\ RosTypeOK' /\ IssuedInv' /\ AboutInv' /\ ToldInv' /\ ToldGoalsAreFound'
      /\ Live' = Live \ {h}
      /\ \A k \in Live' : table'[k] = table[k]
  BY <1>1, FreeingKeepsGoals DEF Live, RosInv, RosTypeOK
<1>3. ScriptsInv' /\ StackInv'
  BY <1>1, <1>2 DEF RosInv, ScriptsInv, StackInv, threadVars
<1>4. StackKeepsItsProxies'
  BY <1>1, <1>2 DEF RosInv, StackKeepsItsProxies, OnStack, threadVars
<1>5. QED
  BY <1>2, <1>3, <1>4 DEF RosInv

(* The caller lives. *)
LEMMA CurrentLives ==
  ASSUME RosInv, CanCommand
  PROVE  Current \in alive
BY DEF RosInv, ScriptsInv, StackInv, CanCommand, Current

(* A new handle was nowhere before.                                        *)
LEMMA CreateKeepsInv ==
  ASSUME RosInv, NEW kind \in Kinds, Create(kind)
  PROVE  RosInv'
<1> USE RosAssumption, NothingAssumption
<1> DEFINE n == issued + 1
<1>1. Current \in alive /\ Current \in Scripts
  BY CurrentLives DEF Create, RosInv, RosTypeOK
<1>2. n \in Handles /\ issued \in Nat /\ n \in Nat
  BY DEF Create, RosInv, RosTypeOK, Handles
<1>3. [kind |-> kind, owner |-> Current] \in Proxies
  BY <1>1 DEF Proxies
<1>4. /\ issued' = n
      /\ table' = [table EXCEPT ![n] = [kind |-> kind, owner |-> Current]]
      /\ UNCHANGED <<alive, cutShort, running, spin, callback, ok, process,
                     goals, last, goalHandles, told>>
  BY DEF Create, threadVars, goalVars
<1>5. \A h \in Handles : h =< issued => h # n
  BY <1>2 DEF Handles
<1>6. /\ Live' = Live \cup {n} /\ n \notin Live
      /\ table'[n].owner = Current
      /\ \A h \in Live : table'[h] = table[h]
  BY <1>2, <1>3, <1>4, <1>5 DEF Live, RosInv, RosTypeOK, IssuedInv
<1>7. RosTypeOK'
  BY <1>2, <1>3, <1>4 DEF RosInv, RosTypeOK, Handles
<1>8. ScriptsInv'
  BY <1>1, <1>4, <1>6 DEF RosInv, ScriptsInv
<1> HIDE DEF n
<1>9. IssuedInv'
  <2>1. \A h \in Handles : h =< issued => h =< n
    BY <1>2 DEF Handles, n
  <2>2. \A h \in Live' : h =< n
    BY <1>2, <1>6, <2>1 DEF RosInv, IssuedInv, Live
  <2>3. (spin # None /\ spin.proxy # None => spin.proxy \in Handles)
        /\ (callback # None => callback.proxy \in Handles)
        /\ \A g \in Goals : goals[g].server # None => goals[g].server \in Handles
    BY DEF RosInv, RosTypeOK, Spins, Callbacks, GoalRecords, Peers
  <2>4. QED
    BY <1>4, <2>1, <2>2, <2>3 DEF RosInv, IssuedInv
<1>10. StackInv'
  <2>1. /\ spin # None /\ spin.proxy # None => spin.proxy # n
        /\ callback # None => callback.proxy # n
    BY <1>5 DEF RosInv, IssuedInv, RosTypeOK, Spins, Callbacks, Peers
  <2>2. n # None
    BY <1>2
  <2>3. QED
    BY <1>4, <1>6, <2>1, <2>2 DEF RosInv, StackInv
<1>11. AboutInv' /\ ToldInv'
  BY <1>4 DEF RosInv, AboutInv, About, ToldInv
<1>12. StackKeepsItsProxies'
  BY <1>4, <1>6 DEF RosInv, StackKeepsItsProxies, OnStack
<1>13. ToldGoalsAreFound'
  <2>1. \A g \in told : goals[g].server # n
    BY <1>2, <1>5 DEF RosInv, IssuedInv, RosTypeOK, GoalRecords, Peers
  <2>2. QED
    BY <1>4, <1>6, <2>1 DEF RosInv, ToldGoalsAreFound
<1>14. QED
  BY <1>7, <1>8, <1>9, <1>10, <1>11, <1>12, <1>13 DEF RosInv

-----------------------------------------------------------------------------
(* All actions together.                                                   *)

LEMMA NextChangesOrProceeds ==
  ASSUME RosInv, RosNext
  PROVE  \/ \E s \in Scripts : ScriptStarts(s) \/ ScriptEnds(s)
         \/ \E kind \in Kinds : Create(kind)
         \/ \E kinds : Shutdown(kinds)
         \/ Proceeds
<1>1. CASE Creates
  BY <1>1 DEF Creates, CreateSubscription, CreatePublisher, CreateClient, CreateService,
              CreateActionClient, CreateActionServer, CreateImageSubscription,
              CreateImagePublisher, Kinds
<1>2. CASE Shutdowns
  BY <1>2 DEF Shutdowns, ShutdownSubscription, ShutdownPublisher, ShutdownClient,
              ShutdownService, ShutdownActionClient, ShutdownActionServer,
              ShutdownImageSubscription, ShutdownImagePublisher
<1>3. CASE Dispatches
  BY <1>3, ServerDispatchesProceed, ClientDispatchesProceed, AnswersProceed
     DEF Dispatches
<1>4. CASE Asks \/ Returns \/ CallbackEnds \/ ServesGoals
  BY <1>4, AsksProceed, ReturnsProceed, CallbackEndsProceed, ServingGoalsProceeds
<1>5. QED
  BY <1>1, <1>2, <1>3, <1>4, CallsProceed DEF RosNext

LEMMA StutterProceeds == RosInv /\ UNCHANGED rosVars => Proceeds
BY DEF RosInv, RosTypeOK, IssuedInv, rosVars, tableVars, threadVars, goalVars, Proceeds,
       ThreadStep, GoalsStep, HandlesStep

THEOREM RosInvariant == RosSpec => []RosInv
<1>1. RosInv /\ RosNext => RosInv'
  BY NextChangesOrProceeds, StartsKeepInv, EndsKeepInv, CreateKeepsInv,
     ShutdownKeepsInv, ProceedingKeepsInv
<1>2. RosInv /\ UNCHANGED rosVars => RosInv'
  BY StutterProceeds, ProceedingKeepsInv
<1>3. QED
  BY InitRos, <1>1, <1>2, PTL DEF RosSpec

(* The state keeps its types (sim_ros2_interface.h, the proxies), and      *)
(* frames of the stack always are of proxies that were once made.          *)
THEOREM RosTypesHold == RosSpec => []RosTypeOK
<1>1. RosInv => RosTypeOK
  BY DEF RosInv
<1>2. QED
  BY <1>1, RosInvariant, PTL

(* However scripts, commands and callbacks nest, the end of a script frees *)
(* no proxy that a frame of the stack uses (onScriptStateDestroyed).       *)
THEOREM FramesKeepTheirProxies == RosSpec => []StackKeepsItsProxies
<1>1. RosInv => StackKeepsItsProxies
  BY DEF RosInv
<1>2. QED
  BY <1>1, RosInvariant, PTL

(* A goal that a script was told of is found until its server is gone      *)
(* (handle_accepted, getGoalHandle, cleanupTerminalGoalHandles).           *)
THEOREM ToldGoalsStay == RosSpec => []ToldGoalsAreFound
<1>1. RosInv => ToldGoalsAreFound
  BY DEF RosInv
<1>2. QED
  BY <1>1, RosInvariant, PTL

-----------------------------------------------------------------------------
(* The handle tables implement HandleTable.                                *)

Holder == [h \in Handles |-> IF table[h] = None THEN None ELSE table[h].owner]

LEMMA TablesStart == RosInit => Tables!TableInit
BY DEF RosInit, Tables!TableInit, Tables!Handles, Handles

LEMMA TablesStep ==
  ASSUME RosInv, [RosNext]_rosVars
  PROVE  [Tables!TableNext]_(Tables!tableVars)
<1> USE RosAssumption, NothingAssumption
        DEF Tables!TableNext, Tables!tableVars, Tables!Handles
<1>1. ASSUME UNCHANGED <<alive, table, issued>>
      PROVE  UNCHANGED Tables!tableVars
  BY <1>1
<1>2. CASE UNCHANGED rosVars
  BY <1>1, <1>2 DEF rosVars, tableVars
<1>3. CASE Proceeds
  BY <1>1, <1>3 DEF Proceeds, tableVars
<1>4. ASSUME NEW s \in Scripts, ScriptStarts(s)
      PROVE  Tables!Starts(s)
  BY <1>4 DEF ScriptStarts, Tables!Starts
<1>5. ASSUME NEW s \in Scripts, ScriptEnds(s)
      PROVE  Tables!Ends(s)
  <2>1. s \in alive /\ alive' = alive \ {s} /\ issued' = issued
    BY <1>5 DEF ScriptEnds
  <2>2. table' = [h \in Handles |->
                   IF h \in Live /\ table[h].owner = s THEN None ELSE table[h]]
    BY <1>5 DEF ScriptEnds, Free, Live
  <2>3. Holder' = [h \in Handles |-> IF Holder[h] = s THEN None ELSE Holder[h]]
    <3>1. s # None
      OBVIOUS
    <3>2. \A h \in Handles : Holder'[h] = IF Holder[h] = s THEN None ELSE Holder[h]
      BY <2>2, <3>1 DEF Holder, Live
    <3>3. QED
      BY <3>2 DEF Holder
  <2>4. QED
    BY <2>1, <2>3 DEF Tables!Ends, Holder, Handles
<1>6. ASSUME NEW kind \in Kinds, Create(kind)
      PROVE  \E s \in Scripts : Tables!Issue(s)
  <2>1. PICK s \in Scripts : s = Current /\ s \in alive
    BY <1>6, CurrentLives DEF Create, RosInv, RosTypeOK
  <2>2. /\ issued < MaxHandles /\ issued' = issued + 1 /\ alive' = alive
        /\ table' = [table EXCEPT ![issued + 1] = [kind |-> kind, owner |-> s]]
    BY <1>6, <2>1 DEF Create
  <2>3. [kind |-> kind, owner |-> s] # None
    BY <2>1 DEF Proxies
  <2>4. Holder' = [Holder EXCEPT ![issued + 1] = s]
    <3> DEFINE row == [kind |-> kind, owner |-> s]
    <3>1. row # None /\ row.owner = s /\ table' = [table EXCEPT ![issued + 1] = row]
      BY <2>2, <2>3
    <3> HIDE DEF row
    <3>2. \A h \in Handles : table'[h] = IF h = issued + 1 THEN row ELSE table[h]
      BY <3>1 DEF RosInv, RosTypeOK
    <3>3. \A h \in Handles :
            Holder'[h] = IF h = issued + 1 THEN s ELSE Holder[h]
      BY <3>1, <3>2 DEF Holder
    <3>4. QED
      BY <3>3 DEF Holder
  <2>5. QED
    BY <2>1, <2>2, <2>4 DEF Tables!Issue, Holder, Handles
<1>7. ASSUME NEW kinds, Shutdown(kinds)
      PROVE  \E h \in Handles : Tables!Release(h)
  <2>1. PICK h \in Live : Free({h}) /\ UNCHANGED <<alive, issued>>
    BY <1>7 DEF Shutdown
  <2>2. h \in Handles /\ table[h] # None /\ table[h].owner \in Scripts
    BY DEF Live, RosInv, RosTypeOK, Proxies
  <2>3. Holder[h] # None
    BY <2>2 DEF Holder
  <2>4. Holder' = [Holder EXCEPT ![h] = None]
    BY <2>1, <2>2 DEF Free, Holder
  <2>5. QED
    BY <2>1, <2>2, <2>3, <2>4 DEF Tables!Release, Holder, Handles
<1>8. CASE \E s \in Scripts : ScriptStarts(s) \/ ScriptEnds(s)
  BY <1>4, <1>5, <1>8
<1>9. CASE \E kind \in Kinds : Create(kind)
  <2>1. PICK s \in Scripts : Tables!Issue(s)
    BY <1>6, <1>9
  <2>2. QED
    BY <2>1
<1>10. CASE \E kinds : Shutdown(kinds)
  <2>1. PICK h \in Handles : Tables!Release(h)
    BY <1>7, <1>10
  <2>2. h \in 1 .. MaxHandles
    BY DEF Handles
  <2>3. QED
    BY <2>1, <2>2
<1>11. QED
  BY <1>2, <1>3, <1>8, <1>9, <1>10, NextChangesOrProceeds

(* Handles are given out once, each to a script that lives, and taken back *)
(* alone or with all others of their script (onScriptStateDestroyed, the   *)
(* create and shutdown commands).                                          *)
THEOREM TablesAreAHandleTable == RosSpec => TablesAreSound
<1>1. QED
  BY RosInvariant, TablesStart, TablesStep, PTL
     DEF RosSpec, TablesAreSound, Tables!TableSpec
=============================================================================
