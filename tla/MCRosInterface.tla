--------------------------- MODULE MCRosInterface ---------------------------
(* RosInterface: a server or topic of one script, a client or topic of the *)
(* same or the other, and a subscription whose callback may come in        *)
(* between.  One goal meets everything that can happen to it, for goals    *)
(* only meet through the thread they all wait for.                         *)
EXTENDS RosInterface

CONSTANTS s1, s2, g1

MCMayBe ==
  [h \in Handles |->
     IF h = 1 THEN {"service", "actionServer", "publisher", "imageSubscription"}
     ELSE IF h = 2 THEN {"client", "actionClient", "imagePublisher"}
     ELSE {"subscription"}]
=============================================================================
