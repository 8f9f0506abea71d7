----------------------------- MODULE ThreadLane -----------------------------
(***************************************************************************)
(* What the router promises the chats of a thread: a lane per thread, in    *)
(* which accepted messages wait in the order of their acceptance, and one   *)
(* worker that serves the head of some lane at a time.  A message enters a  *)
(* lane at most once.  Only the end of the agent or of the process empties  *)
(* the lanes.                                                               *)
(***************************************************************************)
EXTENDS Sequences

CONSTANTS Threads, Messages, NoMsg, ThreadOf

VARIABLES offered,   \* the messages that may still enter a lane
          waiting,   \* the lane of every thread
          serving    \* the message the worker serves

vars == <<offered, waiting, serving>>

Init ==
  /\ offered = Messages
  /\ waiting = [t \in Threads |-> <<>>]
  /\ serving = NoMsg

Accept(m) ==
  /\ m \in offered
  /\ offered' = offered \ {m}
  /\ waiting' = [waiting EXCEPT ![ThreadOf[m]] = Append(@, m)]
  /\ UNCHANGED serving

\* A duplicate, a command, or a message that a failing call loses.
Ignore(m) ==
  /\ m \in offered
  /\ offered' = offered \ {m}
  /\ UNCHANGED <<waiting, serving>>

Serve(t) ==
  /\ serving = NoMsg /\ waiting[t] # <<>>
  /\ serving' = Head(waiting[t])
  /\ waiting' = [waiting EXCEPT ![t] = Tail(@)]
  /\ UNCHANGED offered

Finish ==
  /\ serving # NoMsg
  /\ serving' = NoMsg
  /\ UNCHANGED <<offered, waiting>>

Crash ==
  /\ offered' \subseteq offered
  /\ waiting' = [t \in Threads |-> <<>>]
  /\ serving' = NoMsg

Next ==
  \/ \E m \in Messages : Accept(m) \/ Ignore(m)
  \/ \E t \in Threads : Serve(t)
  \/ Finish \/ Crash

Spec == Init /\ [][Next]_vars
=============================================================================
