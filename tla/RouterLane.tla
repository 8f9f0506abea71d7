----------------------------- MODULE RouterLane -----------------------------
(***************************************************************************)
(* Router implements ThreadLane: the lane of a thread is spread over the    *)
(* request channel, the message about to be sent, and the router's queue.   *)
(***************************************************************************)
EXTENDS Router

RequestOf(t) == CHOOSE m \in Messages : \E i \in DOMAIN reqs :
                                          reqs[i] = m /\ ThreadOf[m] = t

\* In the order in which the worker will see them.  A message that
\* release_or_dispatch_next forwards has not left the queue yet.  Without an
\* agent nothing is served any more.
LaneOf(t) ==
  (IF Requested(t) THEN <<RequestOf(t)>> ELSE <<>>)
  \o (IF Sending(t) THEN <<cur>> ELSE <<>>)
  \o queued[t]

Lanes == [t \in Threads |-> IF alive THEN LaneOf(t) ELSE <<>>]

\* A message is still offered until the router has decided about it.
Offered == undelivered \cup (IF at \in {"resolve", "check"} THEN {cur} ELSE {})

Lane == INSTANCE ThreadLane
          WITH offered <- Offered, waiting <- Lanes, serving <- busy

\* Chats of a thread are served one at a time, each once and in the order in
\* which handle_incoming accepted them, whichever of the three places they
\* wait in and whatever fails.
ImplementsLane == Lane!Spec
=============================================================================
