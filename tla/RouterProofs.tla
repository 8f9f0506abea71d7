---------------------------- MODULE RouterProofs ----------------------------
(***************************************************************************)
(* The safety of Router for every number of threads and messages, every     *)
(* capacity of the two channels and every combination of faults.            *)
(***************************************************************************)
EXTENDS RouterLane, FiniteSetTheorems, SequenceTheorems, TLAPS

\* Where the router and the worker stand fits what they hold.
Stationed ==
  /\ at \notin {"select", "stopped"} => cur \in Messages
  /\ stage # "idle" <=> busy # NoMsg
  /\ ~alive => busy = NoMsg /\ reqs = <<>>

\* A thread with a request in flight is pending: try_mark_thread_pending lets
\* no second request of it pass.
InFlightIsPending == \A t \in Threads : InFlight(t) => t \in pending

\* A queue holds messages of its thread, and the message that
\* release_or_dispatch_next forwards is still at the front of its queue.
QueuesByThread ==
  /\ \A t \in Threads : \A i \in DOMAIN queued[t] : ThreadOf[queued[t][i]] = t
  /\ at = "next" =>
       /\ queued[ThreadOf[cur]] # <<>>
       /\ cur = Head(queued[ThreadOf[cur]])

\* An idle-only command goes on only on a thread that is not pending; with
\* InFlightIsPending this is ClearIsExclusive.
ClearOnReleased ==
  at \in {"snapshot", "save", "sync"} /\ KindOf[cur] = "idleOnly" =>
    ThreadOf[cur] \notin pending

\* What the steps between the reception of a message and the end of a turn can
\* disturb.
FlightInv ==
  /\ OneInFlight /\ InFlightIsPending /\ QueuesByThread /\ QueuedBehindPending
  /\ ClearOnReleased /\ PendingHasOwner

RouterInv == TypeOK /\ Stationed /\ FlightInv
-----------------------------------------------------------------------------
\* The router starts in a state that satisfies the inductive invariant.
LEMMA RouterInvInit == Init => RouterInv
<1> SUFFICES ASSUME Init PROVE RouterInv
  OBVIOUS
<1> USE DEF Init
<1>1. TypeOK
  BY RouterAssumption DEF TypeOK, Stations, Stages, RouterAssumption
<1>2. Stationed
  BY DEF Stationed
<1>3. \A t \in Threads : ~InFlight(t)
  BY DEF InFlight, Requested, Running, Reported, Sending, Forwarding
<1>4. OneInFlight
  BY DEF OneInFlight, Requested, Running, Reported
<1>5. InFlightIsPending /\ QueuesByThread /\ QueuedBehindPending
  BY <1>3 DEF InFlightIsPending, QueuesByThread, QueuedBehindPending
<1>6. ClearOnReleased /\ PendingHasOwner
  BY DEF ClearOnReleased, PendingHasOwner
<1> QED
  BY <1>1, <1>2, <1>4, <1>5, <1>6 DEF RouterInv, FlightInv
-----------------------------------------------------------------------------
\* Every step keeps the type invariant and where the tasks stand.
LEMMA TypeStep == RouterInv /\ [Next]_vars => TypeOK' /\ Stationed'
<1> SUFFICES ASSUME TypeOK, Stationed, QueuesByThread, [Next]_vars
             PROVE  TypeOK' /\ Stationed'
  BY DEF RouterInv, FlightInv
<1> USE RouterAssumption DEF RouterAssumption, TypeOK, Stationed, Stations, Stages,
        BackToSelect, GoTo, routerVars, agentVars
<1>1. CASE Incoming
  <2>1. ASSUME NEW m \in Messages, IgnoreSeen(m) PROVE TypeOK' /\ Stationed'
    BY <2>1 DEF IgnoreSeen
  <2>2. ASSUME NEW m \in Messages, Receive(m) PROVE TypeOK' /\ Stationed'
    BY <2>2 DEF Receive
  <2>3. CASE Resolve
    BY <2>3 DEF Resolve
  <2>4. CASE IgnoreProcessed
    BY <2>4 DEF IgnoreProcessed
  <2>5. CASE DropMalformed
    BY <2>5 DEF DropMalformed, Fresh
  <2>6. CASE RefuseRunning
    BY <2>6 DEF RefuseRunning, Fresh
  <2>7. CASE StartCommand
    BY <2>7 DEF StartCommand, Fresh
  <2>8. CASE MarkPending
    BY <2>8 DEF MarkPending, Fresh
  <2>9. CASE Enqueue
    BY <2>9 DEF Enqueue, Fresh
  <2> QED
    BY <1>1, <2>1, <2>2, <2>3, <2>4, <2>5, <2>6, <2>7, <2>8, <2>9 DEF Incoming
<1>2. CASE Command
  <2>1. CASE TakeSnapshot
    BY <2>1 DEF TakeSnapshot
  <2>2. CASE SaveCommand
    BY <2>2 DEF SaveCommand
  <2>3. CASE SyncCommand
    BY <2>3 DEF SyncCommand
  <2>4. CASE Reply
    BY <2>4 DEF Reply
  <2>5. CASE Mark
    BY <2>5 DEF Mark, DedupKey, AllDedupKeys
  <2> QED
    BY <1>2, <2>1, <2>2, <2>3, <2>4, <2>5 DEF Command
<1>3. CASE AgentEvents
  <2>1. CASE HandleProgress
    BY <2>1 DEF HandleProgress, Events
  <2>2. CASE Release
    BY <2>2 DEF Release, Events
  <2>3. CASE PeekNext
    <3> DEFINE t == Head(evs).thread
    <3>1. Head(evs) \in Events /\ Tail(evs) \in Seq(Events)
      BY <2>3 DEF PeekNext
    <3>2. Len(Tail(evs)) <= EvCap
      BY <2>3 DEF PeekNext
    <3>3. t \in Threads /\ queued[t] \in Seq(Messages)
      BY <3>1 DEF Events
    <3>4. cur' \in Messages
      BY <2>3, <3>3 DEF PeekNext
    <3> HIDE DEF t
    <3> QED
      BY <2>3, <3>1, <3>2, <3>4 DEF PeekNext
  <2>4. CASE AgentClosed
    BY <2>4 DEF AgentClosed
  <2> QED
    BY <1>3, <2>1, <2>2, <2>3, <2>4 DEF AgentEvents
<1>4. CASE ToAgent
  <2>1. CASE Dispatch
    BY <2>1 DEF Dispatch
  <2>2. CASE DispatchFails
    BY <2>2 DEF DispatchFails
  <2>3. CASE DispatchNext
    <3>1. cur \in Messages /\ ThreadOf[cur] \in Threads
      BY <2>3 DEF DispatchNext
    <3>2. Tail(queued[ThreadOf[cur]]) \in Seq(Messages)
      BY <2>3, <3>1 DEF DispatchNext, QueuesByThread
    <3>3. queued' \in [Threads -> Seq(Messages)]
      BY <2>3, <3>1, <3>2 DEF DispatchNext
    <3>4. reqs' \in Seq(Messages) /\ Len(reqs') <= ReqCap
      BY <2>3, <3>1 DEF DispatchNext
    <3> QED
      BY <2>3, <3>3, <3>4 DEF DispatchNext
  <2> QED
    BY <1>4, <2>1, <2>2, <2>3 DEF ToAgent
<1>5. CASE AgentStep
  <2>1. CASE Take
    BY <2>1 DEF Take
  <2>2. CASE Lock
    BY <2>2 DEF Lock
  <2>3. CASE Emit
    BY <2>3 DEF Emit, Progress, Events, EventTypes
  <2>4. CASE CommitTurn
    BY <2>4 DEF CommitTurn, DedupKey, AllDedupKeys
  <2>5. CASE Complete
    BY <2>5 DEF Complete, Completed, Events, EventTypes
  <2> QED
    BY <1>5, <2>1, <2>2, <2>3, <2>4, <2>5 DEF AgentStep
<1>6. CASE Fault
  <2>1. CASE StoreFails
    BY <2>1 DEF StoreFails
  <2>2. CASE ReplyFails
    BY <2>2 DEF ReplyFails
  <2>3. CASE Abandon
    BY <2>3 DEF Abandon
  <2>4. CASE AgentDies
    <3>1. reqs' \in Seq(Messages) /\ Len(reqs') <= ReqCap
      BY <2>4 DEF AgentDies
    <3>2. stage' = "idle" /\ busy' = NoMsg
      BY <2>4 DEF AgentDies
    <3> QED
      BY <2>4, <3>1, <3>2 DEF AgentDies
  <2>5. CASE Shutdown
    BY <2>5 DEF Shutdown
  <2>6. CASE Restart
    BY <2>6 DEF Restart
  <2> QED
    BY <1>6, <2>1, <2>2, <2>3, <2>4, <2>5, <2>6 DEF Fault
<1>7. CASE UNCHANGED vars
  BY <1>7 DEF vars
<1> QED
  BY <1>1, <1>2, <1>3, <1>4, <1>5, <1>6, <1>7 DEF Next, RouterStep
-----------------------------------------------------------------------------
\* The steps in which no request and no queue moves, and that neither start nor
\* end at a send to the agent.
QuietStep ==
  /\ UNCHANGED <<pending, queued, reqs, evs, busy, stage, alive, abandoned>>
  /\ at \notin {"dispatch", "next"} /\ at' \notin {"dispatch", "next"}

\* A quiet step keeps the invariant, if an idle-only command that it lets go on
\* is on a thread that is not pending.
LEMMA QuietKeeps ==
  RouterInv /\ QuietStep /\ ClearOnReleased' => FlightInv'
<1> SUFFICES ASSUME RouterInv, QuietStep, ClearOnReleased' PROVE FlightInv'
  OBVIOUS
<1> USE DEF QuietStep, RouterInv, FlightInv
<1>1. \A t \in Threads : /\ Requested(t)' <=> Requested(t)
                         /\ Running(t)' <=> Running(t)
                         /\ Reported(t)' <=> Reported(t)
                         /\ Sending(t)' <=> Sending(t)
                         /\ Forwarding(t)' <=> Forwarding(t)
  BY DEF Requested, Running, Reported, Sending, Forwarding
<1>2. OneInFlight'
  BY <1>1 DEF OneInFlight
<1>3. InFlightIsPending'
  BY <1>1 DEF InFlightIsPending, InFlight
<1>4. QueuesByThread' /\ QueuedBehindPending'
  BY DEF QueuesByThread, QueuedBehindPending
<1>5. PendingHasOwner'
  BY <1>1 DEF PendingHasOwner, InFlight, TypeOK
<1> QED
  BY <1>2, <1>3, <1>4, <1>5

\* The router's steps that read from a channel, call the session store or answer
\* a command are quiet.
LEMMA QuietSteps ==
  ASSUME RouterInv,
         \/ \E m \in Messages : IgnoreSeen(m) \/ Receive(m)
         \/ Resolve \/ IgnoreProcessed \/ DropMalformed \/ RefuseRunning
         \/ StartCommand \/ Command \/ AgentClosed \/ StoreFails \/ ReplyFails
         \/ Shutdown
  PROVE  FlightInv'
<1> USE DEF BackToSelect, GoTo, routerVars, agentVars
<1>1. QuietStep
  BY DEF QuietStep, IgnoreSeen, Receive, Resolve, IgnoreProcessed, DropMalformed,
     RefuseRunning, StartCommand, Fresh, Command, TakeSnapshot, SaveCommand,
     SyncCommand, Reply, Mark, AgentClosed, StoreFails, ReplyFails, Shutdown
<1>2. CASE StartCommand
  BY <1>1, <1>2, QuietKeeps
     DEF StartCommand, Fresh, ClearOnReleased, RouterInv, FlightInv
<1>3. CASE TakeSnapshot \/ SaveCommand \/ SyncCommand
  <2>1. ClearOnReleased'
    BY <1>3 DEF TakeSnapshot, SaveCommand, SyncCommand, ClearOnReleased,
       RouterInv, FlightInv
  <2> QED
    BY <1>1, <2>1, QuietKeeps
<1>4. CASE at' \notin {"snapshot", "save", "sync"}
  BY <1>1, <1>4, QuietKeeps DEF ClearOnReleased
<1> QED
  BY <1>2, <1>3, <1>4 DEF IgnoreSeen, Receive, Resolve, IgnoreProcessed,
     DropMalformed, RefuseRunning, Command, Reply, Mark, AgentClosed, StoreFails,
     ReplyFails, Shutdown
-----------------------------------------------------------------------------
(* The steps that move a request *)

\* try_mark_thread_pending inserts a thread that has nothing in flight.
LEMMA MarkPendingKeeps ==
  ASSUME RouterInv, MarkPending PROVE FlightInv'
<1> USE DEF RouterInv, FlightInv, MarkPending, Fresh, GoTo, agentVars
<1>1. cur \in Messages /\ ThreadOf[cur] \in Threads /\ cur' = cur
  BY RouterAssumption DEF RouterAssumption, Stationed
<1>2. \A t \in Threads :
        /\ Requested(t)' <=> Requested(t)
        /\ Running(t)' <=> Running(t)
        /\ Reported(t)' <=> Reported(t)
        /\ Sending(t)' <=> t = ThreadOf[cur]
        /\ ~Sending(t) /\ ~Forwarding(t) /\ ~Forwarding(t)'
  BY <1>1 DEF Requested, Running, Reported, Sending, Forwarding
<1>3. ~InFlight(ThreadOf[cur])
  BY <1>1 DEF InFlightIsPending
<1>4. OneInFlight'
  BY <1>1, <1>2, <1>3 DEF OneInFlight, InFlight
<1>5. InFlightIsPending'
  BY <1>1, <1>2 DEF InFlightIsPending, InFlight
<1>6. QueuesByThread' /\ QueuedBehindPending' /\ ClearOnReleased'
  BY DEF QueuesByThread, QueuedBehindPending, ClearOnReleased
<1>7. PendingHasOwner'
  <2>1. pending' = pending \cup {ThreadOf[cur]} /\ pending \subseteq Threads
    BY DEF TypeOK
  <2> QED
    BY <1>1, <1>2, <2>1 DEF PendingHasOwner, InFlight
<1> QED
  BY <1>4, <1>5, <1>6, <1>7

\* enqueue_message leaves the thread pending.
LEMMA EnqueueKeeps ==
  ASSUME RouterInv, Enqueue PROVE FlightInv'
<1> USE DEF RouterInv, FlightInv, Enqueue, Fresh, BackToSelect, agentVars
<1>1. cur \in Messages /\ ThreadOf[cur] \in Threads
  BY RouterAssumption DEF RouterAssumption, Stationed
<1>2. \A t \in Threads :
        /\ Requested(t)' <=> Requested(t)
        /\ Running(t)' <=> Running(t)
        /\ Reported(t)' <=> Reported(t)
        /\ ~Sending(t) /\ ~Sending(t)' /\ ~Forwarding(t) /\ ~Forwarding(t)'
  BY <1>1 DEF Requested, Running, Reported, Sending, Forwarding
<1>3. OneInFlight' /\ InFlightIsPending'
  BY <1>2 DEF OneInFlight, InFlightIsPending, InFlight
<1>4. QueuesByThread'
  <2> SUFFICES ASSUME NEW t \in Threads, NEW i \in DOMAIN queued'[t]
               PROVE  ThreadOf[queued'[t][i]] = t
    BY DEF QueuesByThread
  <2>1. queued[t] \in Seq(Messages) /\ queued[ThreadOf[cur]] \in Seq(Messages)
    BY <1>1 DEF TypeOK
  <2>2. CASE t = ThreadOf[cur]
    <3>1. queued'[t] = Append(queued[t], cur)
      BY <2>2, <1>1 DEF TypeOK
    <3> QED
      BY <3>1, <2>1, <2>2, <1>1 DEF QueuesByThread
  <2>3. CASE t # ThreadOf[cur]
    BY <2>3 DEF QueuesByThread, TypeOK
  <2> QED
    BY <2>2, <2>3
<1>5. QueuedBehindPending' /\ ClearOnReleased'
  BY <1>1 DEF QueuedBehindPending, ClearOnReleased, TypeOK
<1>6. PendingHasOwner'
  <2>1. pending \subseteq Threads
    BY DEF TypeOK
  <2> QED
    BY <1>2, <2>1 DEF PendingHasOwner, InFlight
<1> QED
  BY <1>3, <1>4, <1>5, <1>6

\* Threads other than the one whose event the router handles keep what they
\* have in flight; Completed(t) leaves the event channel, which holds it once.
LEMMA HeadReported ==
  ASSUME RouterInv, evs # <<>>, evs' = Tail(evs), NEW t \in Threads
  PROVE  IF Head(evs) = Completed(t)
         THEN Reported(t) /\ ~Reported(t)'
         ELSE Reported(t)' <=> Reported(t)
<1> USE DEF RouterInv, FlightInv, Reported
<1>1. evs \in Seq(Events) /\ Len(evs) > 0
  BY DEF TypeOK
<1>2. /\ DOMAIN evs' = 1 .. (Len(evs) - 1)
      /\ DOMAIN evs = 1 .. Len(evs)
      /\ \A i \in DOMAIN evs' : evs'[i] = evs[i + 1]
      /\ Head(evs) = evs[1]
  BY <1>1
<1>3. CASE Head(evs) = Completed(t)
  <2>1. Reported(t)
    BY <1>1, <1>2, <1>3
  <2>2. ~Reported(t)'
    <3> SUFFICES ASSUME NEW i \in DOMAIN evs', evs'[i] = Completed(t) PROVE FALSE
      OBVIOUS
    <3>1. i + 1 \in DOMAIN evs /\ 1 \in DOMAIN evs /\ evs[i + 1] = evs[1]
      BY <1>1, <1>2, <1>3
    <3>2. evs[1].type = "completed"
      BY <1>2, <1>3 DEF Completed
    <3> QED
      BY <1>2, <3>1, <3>2 DEF OneInFlight
  <2> QED
    BY <1>3, <2>1, <2>2
<1>4. CASE Head(evs) # Completed(t)
  <2>1. \A i \in DOMAIN evs : evs[i] = Completed(t) => i # 1 /\ i - 1 \in DOMAIN evs'
    BY <1>1, <1>2, <1>4
  <2>2. \A i \in DOMAIN evs : i # 1 => evs[i] = evs'[i - 1]
    BY <1>1, <1>2
  <2>3. Reported(t) => Reported(t)'
    BY <2>1, <2>2
  <2>4. Reported(t)' => Reported(t)
    BY <1>1, <1>2
  <2> QED
    BY <1>4, <2>3, <2>4
<1> QED
  BY <1>3, <1>4

\* The event channel keeps one Completed event of a thread when it loses its head.
LEMMA TailEvents ==
  ASSUME RouterInv, evs # <<>>, evs' = Tail(evs)
  PROVE  \A i, j \in DOMAIN evs' :
           evs'[i].type = "completed" /\ evs'[i] = evs'[j] => i = j
<1> USE DEF RouterInv, FlightInv
<1>1. evs \in Seq(Events) /\ Len(evs) > 0
  BY DEF TypeOK
<1>2. /\ DOMAIN evs' = 1 .. (Len(evs) - 1)
      /\ DOMAIN evs = 1 .. Len(evs)
      /\ \A i \in DOMAIN evs' : evs'[i] = evs[i + 1]
  BY <1>1
<1> SUFFICES ASSUME NEW i \in DOMAIN evs', NEW j \in DOMAIN evs',
                    evs'[i].type = "completed", evs'[i] = evs'[j]
             PROVE  i = j
  OBVIOUS
<1>3. i + 1 \in DOMAIN evs /\ j + 1 \in DOMAIN evs
  BY <1>1, <1>2
<1>4. evs[i + 1].type = "completed" /\ evs[i + 1] = evs[j + 1]
  BY <1>2
<1>5. i + 1 = j + 1
  BY <1>3, <1>4 DEF OneInFlight
<1> QED
  BY <1>1, <1>2, <1>5

\* What a sequence holds once an element is appended.
LEMMA AppendHolds ==
  ASSUME NEW S, NEW s \in Seq(S), NEW e \in S
  PROVE  /\ DOMAIN Append(s, e) = DOMAIN s \cup {Len(s) + 1}
         /\ Len(s) + 1 \notin DOMAIN s
         /\ Append(s, e)[Len(s) + 1] = e
         /\ \A i \in DOMAIN s : Append(s, e)[i] = s[i]
OBVIOUS

\* A message sent to the agent is requested, once, and nothing else changes.
LEMMA SendRequest ==
  ASSUME RouterInv, at \in {"dispatch", "next"}, reqs' = Append(reqs, cur)
  PROVE  /\ \A t \in Threads : Requested(t)' <=> Requested(t) \/ t = ThreadOf[cur]
         /\ \A i, j \in DOMAIN reqs' : ThreadOf[reqs'[i]] = ThreadOf[reqs'[j]] => i = j
<1> USE DEF RouterInv, FlightInv
<1>1. cur \in Messages /\ ThreadOf[cur] \in Threads /\ reqs \in Seq(Messages)
  BY RouterAssumption DEF RouterAssumption, Stationed, TypeOK
<1>2. /\ DOMAIN reqs' = DOMAIN reqs \cup {Len(reqs) + 1}
      /\ reqs'[Len(reqs) + 1] = cur
      /\ \A i \in DOMAIN reqs : reqs'[i] = reqs[i]
  BY <1>1, AppendHolds
<1>3. \A i \in DOMAIN reqs : ThreadOf[reqs[i]] # ThreadOf[cur]
  BY <1>1 DEF OneInFlight, Requested, Sending, Forwarding
<1>4. \A t \in Threads : Requested(t)' <=> Requested(t) \/ t = ThreadOf[cur]
  BY <1>2 DEF Requested
<1>5. \A i, j \in DOMAIN reqs : ThreadOf[reqs[i]] = ThreadOf[reqs[j]] => i = j
  BY DEF OneInFlight
<1> QED
  BY <1>2, <1>3, <1>4, <1>5

\* dispatch_to_agent hands the message over.
LEMMA DispatchKeeps ==
  ASSUME RouterInv, Dispatch PROVE FlightInv'
<1> USE DEF RouterInv, FlightInv, Dispatch, BackToSelect, agentVars
<1>1. cur \in Messages /\ ThreadOf[cur] \in Threads
  BY RouterAssumption DEF RouterAssumption, Stationed
<1>2. \A t \in Threads :
        /\ Requested(t)' <=> Requested(t) \/ t = ThreadOf[cur]
        /\ Running(t)' <=> Running(t)
        /\ Reported(t)' <=> Reported(t)
        /\ Sending(t) <=> t = ThreadOf[cur]
        /\ ~Forwarding(t) /\ ~Sending(t)' /\ ~Forwarding(t)'
  BY <1>1, SendRequest DEF Running, Reported, Sending, Forwarding
<1>3. OneInFlight'
  <2>1. \A i, j \in DOMAIN evs :
          evs[i].type = "completed" /\ evs[i] = evs[j] => i = j
    BY DEF OneInFlight
  <2> QED
    BY <1>2, <2>1, SendRequest DEF OneInFlight
<1>4. InFlightIsPending'
  BY <1>1, <1>2 DEF InFlightIsPending, InFlight
<1>5. QueuesByThread' /\ QueuedBehindPending' /\ ClearOnReleased'
  BY DEF QueuesByThread, QueuedBehindPending, ClearOnReleased
<1>6. PendingHasOwner'
  BY <1>2 DEF PendingHasOwner, InFlight, TypeOK
<1> QED
  BY <1>3, <1>4, <1>5, <1>6

\* release_or_dispatch_next sends the front of the queue and pops it.
LEMMA DispatchNextKeeps ==
  ASSUME RouterInv, DispatchNext PROVE FlightInv'
<1> USE DEF RouterInv, FlightInv, DispatchNext, BackToSelect, agentVars
<1>1. cur \in Messages /\ ThreadOf[cur] \in Threads
  BY RouterAssumption DEF RouterAssumption, Stationed
<1>2. \A t \in Threads :
        /\ Requested(t)' <=> Requested(t) \/ t = ThreadOf[cur]
        /\ Running(t)' <=> Running(t)
        /\ Reported(t)' <=> Reported(t)
        /\ Forwarding(t) <=> t = ThreadOf[cur]
        /\ ~Sending(t) /\ ~Sending(t)' /\ ~Forwarding(t)'
  BY <1>1, SendRequest DEF Running, Reported, Sending, Forwarding
<1>3. OneInFlight'
  <2>1. \A i, j \in DOMAIN evs :
          evs[i].type = "completed" /\ evs[i] = evs[j] => i = j
    BY DEF OneInFlight
  <2> QED
    BY <1>2, <2>1, SendRequest DEF OneInFlight
<1>4. InFlightIsPending'
  BY <1>1, <1>2 DEF InFlightIsPending, InFlight
<1>5. QueuesByThread'
  <2> SUFFICES ASSUME NEW t \in Threads, NEW i \in DOMAIN queued'[t]
               PROVE  ThreadOf[queued'[t][i]] = t
    BY DEF QueuesByThread
  <2>1. CASE t = ThreadOf[cur]
    <3>1. queued'[t] = Tail(queued[t]) /\ queued[t] # <<>>
      BY <2>1, <1>1 DEF TypeOK, QueuesByThread
    <3>2. queued[t] \in Seq(Messages)
      BY DEF TypeOK
    <3>3. /\ DOMAIN queued[t] = 1 .. Len(queued[t])
          /\ DOMAIN Tail(queued[t]) = 1 .. (Len(queued[t]) - 1)
          /\ \A k \in DOMAIN Tail(queued[t]) : Tail(queued[t])[k] = queued[t][k + 1]
      BY <3>1, <3>2
    <3>4. i \in DOMAIN Tail(queued[t])
      BY <3>1
    <3>5. i + 1 \in DOMAIN queued[t]
      BY <3>2, <3>3, <3>4
    <3> QED
      BY <3>1, <3>3, <3>4, <3>5 DEF QueuesByThread
  <2>2. CASE t # ThreadOf[cur]
    BY <2>2 DEF QueuesByThread, TypeOK
  <2> QED
    BY <2>1, <2>2
<1>6. QueuedBehindPending'
  <2>1. ThreadOf[cur] \in pending
    BY <1>1, <1>2 DEF InFlightIsPending, InFlight
  <2> QED
    BY <1>1, <2>1 DEF QueuedBehindPending, TypeOK
<1>7. ClearOnReleased'
  BY DEF ClearOnReleased
<1>8. PendingHasOwner'
  BY <1>2 DEF PendingHasOwner, InFlight, TypeOK
<1> QED
  BY <1>3, <1>4, <1>5, <1>6, <1>7, <1>8

\* With the agent gone dispatch_to_agent takes the pending mark back.
LEMMA DispatchFailsKeeps ==
  ASSUME RouterInv, DispatchFails PROVE FlightInv'
<1> USE DEF RouterInv, FlightInv, DispatchFails, BackToSelect, agentVars
<1>1. cur \in Messages /\ ThreadOf[cur] \in Threads
  BY RouterAssumption DEF RouterAssumption, Stationed
<1>2. \A t \in Threads :
        /\ Requested(t)' <=> Requested(t)
        /\ Running(t)' <=> Running(t)
        /\ Reported(t)' <=> Reported(t)
        /\ t = ThreadOf[cur] => Sending(t) \/ Forwarding(t)
        /\ ~Sending(t)' /\ ~Forwarding(t)'
  BY <1>1 DEF Requested, Running, Reported, Sending, Forwarding
<1>3. OneInFlight'
  BY <1>2 DEF OneInFlight
<1>4. InFlightIsPending'
  BY <1>1, <1>2 DEF InFlightIsPending, InFlight, OneInFlight
<1>5. QueuesByThread' /\ QueuedBehindPending' /\ ClearOnReleased' /\ PendingHasOwner'
  BY DEF QueuesByThread, QueuedBehindPending, ClearOnReleased, PendingHasOwner
<1> QED
  BY <1>3, <1>4, <1>5
-----------------------------------------------------------------------------
(* handle_agent_event *)

\* MessageCommitted and TurnFinalized release nothing.
LEMMA HandleProgressKeeps ==
  ASSUME RouterInv, HandleProgress PROVE FlightInv'
<1> USE DEF RouterInv, FlightInv, HandleProgress, routerVars, agentVars
<1>1. \A t \in Threads : Reported(t)' <=> Reported(t)
  <2>1. \A t \in Threads : Head(evs) # Completed(t)
    BY DEF Completed
  <2> QED
    BY <2>1, HeadReported
<1>2. \A t \in Threads :
        /\ Requested(t)' <=> Requested(t)
        /\ Running(t)' <=> Running(t)
        /\ Sending(t)' <=> Sending(t)
        /\ Forwarding(t)' <=> Forwarding(t)
  BY DEF Requested, Running, Sending, Forwarding
<1>3. OneInFlight'
  BY <1>1, <1>2, TailEvents DEF OneInFlight
<1>4. InFlightIsPending'
  BY <1>1, <1>2 DEF InFlightIsPending, InFlight
<1>5. QueuesByThread' /\ QueuedBehindPending' /\ ClearOnReleased'
  BY DEF QueuesByThread, QueuedBehindPending, ClearOnReleased
<1>6. PendingHasOwner'
  BY <1>1, <1>2 DEF PendingHasOwner, InFlight, TypeOK
<1> QED
  BY <1>3, <1>4, <1>5, <1>6

\* A completed event at the head of the channel names a thread, and is its
\* Completed event.
LEMMA CompletedHead ==
  ASSUME TypeOK, evs # <<>>, Head(evs).type = "completed"
  PROVE  Head(evs).thread \in Threads /\ Head(evs) = Completed(Head(evs).thread)
<1>1. Head(evs) \in Events
  BY DEF TypeOK
<1> QED
  BY <1>1 DEF Events, Completed

\* The thread of a RequestCompleted has nothing else in flight, so that it can be
\* released.
LEMMA ReleaseKeeps ==
  ASSUME RouterInv, Release PROVE FlightInv'
<1> USE DEF RouterInv, FlightInv, Release, agentVars
<1>1. PICK r \in Threads : Head(evs).thread = r /\ Head(evs) = Completed(r)
  BY CompletedHead
<1>2. \A t \in Threads : t # r => (Reported(t)' <=> Reported(t))
  <2>1. \A t \in Threads : t # r => Head(evs) # Completed(t)
    BY <1>1 DEF Completed
  <2> QED
    BY <2>1, HeadReported
<1>3. Reported(r) /\ ~Reported(r)'
  BY <1>1, HeadReported
<1>4. \A t \in Threads :
        /\ Requested(t)' <=> Requested(t)
        /\ Running(t)' <=> Running(t)
        /\ ~Sending(t) /\ ~Sending(t)' /\ ~Forwarding(t) /\ ~Forwarding(t)'
  BY DEF Requested, Running, Sending, Forwarding
<1>5. OneInFlight'
  BY <1>2, <1>3, <1>4, TailEvents DEF OneInFlight
<1>6. ~InFlight(r)'
  BY <1>1, <1>3, <1>4 DEF OneInFlight, InFlight
<1>7. pending' = pending \ {r} /\ queued[r] = <<>>
  BY <1>1
<1>8. InFlightIsPending'
  BY <1>2, <1>4, <1>6, <1>7 DEF InFlightIsPending, InFlight
<1>9. QueuesByThread' /\ QueuedBehindPending' /\ ClearOnReleased'
  BY <1>7 DEF QueuesByThread, QueuedBehindPending, ClearOnReleased
<1>10. PendingHasOwner'
  BY <1>2, <1>4, <1>7 DEF PendingHasOwner, InFlight, TypeOK
<1> QED
  BY <1>5, <1>8, <1>9, <1>10

\* The next message of that thread is forwarded instead.
LEMMA PeekNextKeeps ==
  ASSUME RouterInv, PeekNext PROVE FlightInv'
<1> USE DEF RouterInv, FlightInv, PeekNext, agentVars
<1>1. PICK r \in Threads : Head(evs).thread = r /\ Head(evs) = Completed(r)
  BY CompletedHead
<1>2. \A t \in Threads : t # r => (Reported(t)' <=> Reported(t))
  <2>1. \A t \in Threads : t # r => Head(evs) # Completed(t)
    BY <1>1 DEF Completed
  <2> QED
    BY <2>1, HeadReported
<1>3. Reported(r) /\ ~Reported(r)'
  BY <1>1, HeadReported
<1>4. ThreadOf[cur'] = r /\ cur' = Head(queued[r]) /\ queued[r] # <<>>
  <2>1. /\ queued[r] \in Seq(Messages) /\ queued[r] # <<>>
        /\ cur' = Head(queued[r])
    BY <1>1 DEF TypeOK
  <2>2. 1 \in DOMAIN queued[r] /\ Head(queued[r]) = queued[r][1]
    BY <2>1
  <2>3. ThreadOf[queued[r][1]] = r
    BY <1>1, <2>2 DEF QueuesByThread
  <2> QED
    BY <2>1, <2>2, <2>3
<1>5. at' = "next" /\ UNCHANGED <<pending, queued, reqs, busy, stage, alive, abandoned>>
  OBVIOUS
<1>6. \A t \in Threads :
        /\ Requested(t)' <=> Requested(t)
        /\ Running(t)' <=> Running(t)
        /\ Forwarding(t)' <=> t = r
        /\ ~Sending(t) /\ ~Sending(t)' /\ ~Forwarding(t)
  BY <1>4, <1>5 DEF Requested, Running, Sending, Forwarding
<1>7. \A i, j \in DOMAIN evs' :
        evs'[i].type = "completed" /\ evs'[i] = evs'[j] => i = j
  BY TailEvents
<1> HIDE DEF PeekNext
<1>8. OneInFlight'
  <2>1. \A i, j \in DOMAIN reqs' :
          ThreadOf[reqs'[i]] = ThreadOf[reqs'[j]] => i = j
    BY <1>5 DEF OneInFlight
  <2> QED
    BY <1>2, <1>3, <1>6, <1>7, <2>1 DEF OneInFlight
<1>9. InFlightIsPending'
  BY <1>2, <1>3, <1>5, <1>6 DEF InFlightIsPending, InFlight
<1>10. QueuesByThread' /\ QueuedBehindPending' /\ ClearOnReleased'
  BY <1>4, <1>5 DEF QueuesByThread, QueuedBehindPending, ClearOnReleased
<1>11. PendingHasOwner'
  BY <1>2, <1>5, <1>6 DEF PendingHasOwner, InFlight, TypeOK
<1> QED
  BY <1>8, <1>9, <1>10, <1>11
-----------------------------------------------------------------------------
(* The worker and the crash *)

\* The worker takes the oldest request.
LEMMA TakeKeeps ==
  ASSUME RouterInv, Take PROVE FlightInv'
<1> USE DEF RouterInv, FlightInv, Take, routerVars
<1>1. reqs \in Seq(Messages) /\ Len(reqs) > 0
  BY DEF TypeOK
<1>2. /\ DOMAIN reqs' = 1 .. (Len(reqs) - 1)
      /\ DOMAIN reqs = 1 .. Len(reqs)
      /\ \A i \in DOMAIN reqs' : reqs'[i] = reqs[i + 1] /\ i + 1 \in DOMAIN reqs
      /\ busy' = reqs[1] /\ 1 \in DOMAIN reqs
      /\ busy' \in Messages
  BY <1>1
<1>3. busy' # NoMsg
  BY <1>2, RouterAssumption DEF RouterAssumption
<1>4. \A i, j \in DOMAIN reqs : ThreadOf[reqs[i]] = ThreadOf[reqs[j]] => i = j
  BY DEF OneInFlight
<1>5. \A i, j \in DOMAIN reqs' :
        ThreadOf[reqs'[i]] = ThreadOf[reqs'[j]] => i = j
  <2> SUFFICES ASSUME NEW i \in DOMAIN reqs', NEW j \in DOMAIN reqs',
                      ThreadOf[reqs'[i]] = ThreadOf[reqs'[j]]
               PROVE  i = j
    OBVIOUS
  <2>1. i + 1 = j + 1
    BY <1>2, <1>4
  <2> QED
    BY <1>1, <1>2, <2>1
<1>6. \A t \in Threads : Running(t)' <=> t = ThreadOf[reqs[1]]
  BY <1>2, <1>3 DEF Running
<1>7. \A t \in Threads : Requested(t)' <=> Requested(t) /\ t # ThreadOf[reqs[1]]
  <2>1. \A i \in DOMAIN reqs' : ThreadOf[reqs'[i]] # ThreadOf[reqs[1]]
    <3> SUFFICES ASSUME NEW i \in DOMAIN reqs',
                        ThreadOf[reqs'[i]] = ThreadOf[reqs[1]]
                 PROVE  FALSE
      OBVIOUS
    <3>1. i + 1 = 1
      BY <1>2, <1>4
    <3> QED
      BY <1>1, <1>2, <3>1
  <2>2. \A i \in DOMAIN reqs : i # 1 => i - 1 \in DOMAIN reqs' /\ reqs'[i - 1] = reqs[i]
    BY <1>1, <1>2
  <2>3. ASSUME NEW t \in Threads, Requested(t)'
        PROVE  Requested(t) /\ t # ThreadOf[reqs[1]]
    BY <2>3, <1>2, <2>1 DEF Requested
  <2>4. ASSUME NEW t \in Threads, Requested(t), t # ThreadOf[reqs[1]]
        PROVE  Requested(t)'
    BY <2>4, <2>2 DEF Requested
  <2> QED
    BY <2>3, <2>4
<1>8. \A t \in Threads :
        /\ Reported(t)' <=> Reported(t)
        /\ Sending(t)' <=> Sending(t)
        /\ Forwarding(t)' <=> Forwarding(t)
        /\ ~Running(t)
  BY DEF Reported, Sending, Forwarding, Running
<1>9. \A t \in Threads : t = ThreadOf[reqs[1]] => Requested(t)
  BY <1>2 DEF Requested
<1>10. OneInFlight'
  BY <1>5, <1>6, <1>7, <1>8, <1>9 DEF OneInFlight
<1>11. InFlightIsPending'
  BY <1>6, <1>7, <1>8, <1>9 DEF InFlightIsPending, InFlight
<1>12. QueuesByThread' /\ QueuedBehindPending' /\ ClearOnReleased'
  BY DEF QueuesByThread, QueuedBehindPending, ClearOnReleased
<1>13. PendingHasOwner'
  BY <1>6, <1>7, <1>8 DEF PendingHasOwner, InFlight, TypeOK
<1> QED
  BY <1>10, <1>11, <1>12, <1>13

\* Locking the thread and committing the turn move no request.
LEMMA LockAndCommitKeep ==
  ASSUME RouterInv, Lock \/ CommitTurn PROVE FlightInv'
<1> USE DEF RouterInv, FlightInv, routerVars
<1>1. UNCHANGED <<undelivered, seen, pending, queued, at, cur, reqs, evs, busy, alive,
                  abandoned>>
  BY DEF Lock, CommitTurn
<1>2. \A t \in Threads : /\ Requested(t)' <=> Requested(t)
                         /\ Running(t)' <=> Running(t)
                         /\ Reported(t)' <=> Reported(t)
                         /\ Sending(t)' <=> Sending(t)
                         /\ Forwarding(t)' <=> Forwarding(t)
  BY <1>1 DEF Requested, Running, Reported, Sending, Forwarding
<1>3. OneInFlight' /\ InFlightIsPending'
  BY <1>1, <1>2 DEF OneInFlight, InFlightIsPending, InFlight
<1>4. QueuesByThread' /\ QueuedBehindPending' /\ ClearOnReleased'
  BY <1>1 DEF QueuesByThread, QueuedBehindPending, ClearOnReleased
<1>5. PendingHasOwner'
  BY <1>1, <1>2 DEF PendingHasOwner, InFlight, TypeOK
<1> QED
  BY <1>3, <1>4, <1>5

\* A progress event reports no completion.
LEMMA EmitKeeps ==
  ASSUME RouterInv, Emit PROVE FlightInv'
<1> USE DEF RouterInv, FlightInv, Emit, routerVars, agentVars
<1>1. evs \in Seq(Events) /\ Progress(ThreadOf[busy]) \in Events
  BY RouterAssumption
     DEF RouterAssumption, TypeOK, Stationed, Progress, Events, EventTypes
<1>2. /\ DOMAIN evs' = DOMAIN evs \cup {Len(evs) + 1}
      /\ evs'[Len(evs) + 1].type = "progress"
      /\ \A i \in DOMAIN evs : evs'[i] = evs[i]
  BY <1>1, AppendHolds DEF Progress
<1>3. \A t \in Threads : Reported(t)' <=> Reported(t)
  BY <1>2 DEF Reported, Completed
<1>4. \A i, j \in DOMAIN evs' :
        evs'[i].type = "completed" /\ evs'[i] = evs'[j] => i = j
  BY <1>2 DEF OneInFlight
<1>5. \A t \in Threads : /\ Requested(t)' <=> Requested(t)
                         /\ Running(t)' <=> Running(t)
                         /\ Sending(t)' <=> Sending(t)
                         /\ Forwarding(t)' <=> Forwarding(t)
  BY DEF Requested, Running, Sending, Forwarding
<1>6. OneInFlight'
  BY <1>3, <1>4, <1>5 DEF OneInFlight
<1>7. InFlightIsPending'
  BY <1>3, <1>5 DEF InFlightIsPending, InFlight
<1>8. QueuesByThread' /\ QueuedBehindPending' /\ ClearOnReleased'
  BY DEF QueuesByThread, QueuedBehindPending, ClearOnReleased
<1>9. PendingHasOwner'
  BY <1>3, <1>5 DEF PendingHasOwner, InFlight, TypeOK
<1> QED
  BY <1>6, <1>7, <1>8, <1>9

\* RequestCompleted takes the request's place.
LEMMA CompleteKeeps ==
  ASSUME RouterInv, Complete PROVE FlightInv'
<1> DEFINE r == ThreadOf[busy]
<1> USE DEF RouterInv, FlightInv, Complete, routerVars
<1>1. busy # NoMsg /\ r \in Threads /\ evs \in Seq(Events) /\ Completed(r) \in Events
  BY RouterAssumption
     DEF RouterAssumption, TypeOK, Stationed, Completed, Events, EventTypes
<1>2. /\ DOMAIN evs' = DOMAIN evs \cup {Len(evs) + 1}
      /\ evs'[Len(evs) + 1] = Completed(r)
      /\ \A i \in DOMAIN evs : evs'[i] = evs[i]
  BY <1>1, AppendHolds
<1>3. Running(r) /\ \A t \in Threads : t # r => ~Running(t)
  BY <1>1 DEF Running
<1>4. \A i \in DOMAIN evs : evs[i] # Completed(r)
  BY <1>1, <1>3 DEF OneInFlight, Reported
<1> HIDE DEF r
<1>5. \A t \in Threads : Reported(t)' <=> Reported(t) \/ t = r
  BY <1>2 DEF Reported, Completed
<1>6. \A i, j \in DOMAIN evs' :
        evs'[i].type = "completed" /\ evs'[i] = evs'[j] => i = j
  <2>1. \A i, j \in DOMAIN evs :
          evs[i].type = "completed" /\ evs[i] = evs[j] => i = j
    BY DEF OneInFlight
  <2> QED
    BY <1>2, <1>4, <2>1
<1>7. \A t \in Threads : /\ Requested(t)' <=> Requested(t)
                         /\ ~Running(t)'
                         /\ Sending(t)' <=> Sending(t)
                         /\ Forwarding(t)' <=> Forwarding(t)
  BY DEF Requested, Running, Sending, Forwarding
<1>8. OneInFlight'
  BY <1>1, <1>3, <1>5, <1>6, <1>7 DEF OneInFlight
<1>9. InFlightIsPending'
  BY <1>1, <1>3, <1>5, <1>7 DEF InFlightIsPending, InFlight
<1>10. QueuesByThread' /\ QueuedBehindPending' /\ ClearOnReleased'
  BY DEF QueuesByThread, QueuedBehindPending, ClearOnReleased
<1>11. PendingHasOwner'
  BY <1>3, <1>5, <1>7 DEF PendingHasOwner, InFlight, TypeOK
<1> QED
  BY <1>8, <1>9, <1>10, <1>11

\* A request that the worker abandons, or that the end of its task loses, leaves
\* its thread pending.
LEMMA LostRequestKeeps ==
  ASSUME RouterInv, Abandon \/ AgentDies PROVE FlightInv'
<1> USE DEF RouterInv, FlightInv, routerVars
<1>1. UNCHANGED <<routerVars, evs>> /\ busy' = NoMsg /\ (reqs' = reqs \/ reqs' = <<>>)
  BY DEF Abandon, AgentDies
<1>2. alive' => alive
  BY DEF Abandon, AgentDies
<1>3. \A t \in Threads : /\ Requested(t)' => Requested(t)
                         /\ ~Running(t)'
                         /\ Reported(t)' <=> Reported(t)
                         /\ Sending(t)' <=> Sending(t)
                         /\ Forwarding(t)' <=> Forwarding(t)
  BY <1>1 DEF Requested, Running, Reported, Sending, Forwarding
<1>4. OneInFlight'
  <2>1. \A i, j \in DOMAIN reqs' : ThreadOf[reqs'[i]] = ThreadOf[reqs'[j]] => i = j
    BY <1>1 DEF OneInFlight
  <2>2. \A i, j \in DOMAIN evs' :
          evs'[i].type = "completed" /\ evs'[i] = evs'[j] => i = j
    BY <1>1 DEF OneInFlight
  <2> QED
    BY <1>3, <2>1, <2>2 DEF OneInFlight
<1>5. InFlightIsPending'
  BY <1>1, <1>3 DEF InFlightIsPending, InFlight
<1>6. QueuesByThread' /\ QueuedBehindPending' /\ ClearOnReleased'
  BY <1>1, <1>2 DEF QueuesByThread, QueuedBehindPending, ClearOnReleased
<1>7. PendingHasOwner'
  <2>1. CASE Abandon
    <3>1. \A t \in Threads : Requested(t)' <=> Requested(t)
      BY <2>1 DEF Abandon, Requested
    <3>2. \A t \in Threads : Running(t) => t \in abandoned'
      BY <2>1 DEF Abandon, Running
    <3>3. abandoned \subseteq abandoned' /\ pending' = pending /\ alive' = alive
      BY <2>1 DEF Abandon
    <3> QED
      BY <1>3, <3>1, <3>2, <3>3 DEF PendingHasOwner, InFlight, TypeOK
  <2>2. CASE AgentDies
    BY <2>2 DEF PendingHasOwner, AgentDies
  <2> QED
    BY <2>1, <2>2
<1> QED
  BY <1>4, <1>5, <1>6, <1>7

\* A restarted process has nothing in flight.
LEMMA RestartKeeps ==
  ASSUME Restart PROVE FlightInv'
<1> USE DEF Restart, BackToSelect, FlightInv
<1>1. \A t \in Threads : ~InFlight(t)'
  BY DEF InFlight, Requested, Running, Reported, Sending, Forwarding
<1>2. OneInFlight'
  BY <1>1 DEF OneInFlight, InFlight
<1>3. InFlightIsPending' /\ QueuesByThread' /\ QueuedBehindPending'
  BY <1>1 DEF InFlightIsPending, QueuesByThread, QueuedBehindPending
<1>4. ClearOnReleased' /\ PendingHasOwner'
  BY DEF ClearOnReleased, PendingHasOwner
<1> QED
  BY <1>2, <1>3, <1>4
-----------------------------------------------------------------------------
\* Every step keeps the inductive invariant.
LEMMA RouterInvStep == RouterInv /\ [Next]_vars => RouterInv'
<1> SUFFICES ASSUME RouterInv, [Next]_vars PROVE FlightInv'
  BY TypeStep DEF RouterInv
<1>1. CASE Incoming
  BY <1>1, QuietSteps, MarkPendingKeeps, EnqueueKeeps DEF Incoming
<1>2. CASE Command
  BY <1>2, QuietSteps
<1>3. CASE AgentEvents
  BY <1>3, QuietSteps, HandleProgressKeeps, ReleaseKeeps, PeekNextKeeps
     DEF AgentEvents
<1>4. CASE ToAgent
  BY <1>4, DispatchKeeps, DispatchFailsKeeps, DispatchNextKeeps DEF ToAgent
<1>5. CASE AgentStep
  BY <1>5, TakeKeeps, LockAndCommitKeep, EmitKeeps, CompleteKeeps DEF AgentStep
<1>6. CASE Fault
  BY <1>6, QuietSteps, LostRequestKeeps, RestartKeeps DEF Fault
<1>7. CASE UNCHANGED vars
  <2> USE <1>7 DEF vars, routerVars, agentVars, RouterInv, FlightInv
  <2>1. \A t \in Threads : /\ Requested(t)' <=> Requested(t)
                           /\ Running(t)' <=> Running(t)
                           /\ Reported(t)' <=> Reported(t)
                           /\ Sending(t)' <=> Sending(t)
                           /\ Forwarding(t)' <=> Forwarding(t)
    BY DEF Requested, Running, Reported, Sending, Forwarding
  <2>2. OneInFlight' /\ InFlightIsPending'
    BY <2>1 DEF OneInFlight, InFlightIsPending, InFlight
  <2>3. QueuesByThread' /\ QueuedBehindPending' /\ ClearOnReleased'
    BY DEF QueuesByThread, QueuedBehindPending, ClearOnReleased
  <2>4. PendingHasOwner'
    BY <2>1 DEF PendingHasOwner, InFlight, TypeOK
  <2> QED
    BY <2>2, <2>3, <2>4
<1> QED
  BY <1>1, <1>2, <1>3, <1>4, <1>5, <1>6, <1>7 DEF Next, RouterStep

\* The inductive invariant holds in every reachable state.
LEMMA RouterInvariant == Spec => []RouterInv
  BY RouterInvInit, RouterInvStep, PTL DEF Spec

\* Every variable of the router keeps its type, and no channel overflows.
THEOREM RouterTypeCorrect == Spec => []TypeOK
<1>1. RouterInv => TypeOK
  BY DEF RouterInv
<1> QED
  BY <1>1, RouterInvariant, PTL

\* handle_incoming, release_or_dispatch_next and the worker together never have
\* two requests of a thread in flight, whatever fails.
THEOREM RouterOneInFlight == Spec => []OneInFlight
<1>1. RouterInv => OneInFlight
  BY DEF RouterInv, FlightInv
<1> QED
  BY <1>1, RouterInvariant, PTL

\* No queue is left behind a thread that is not pending, as long as the agent
\* lives.
THEOREM RouterQueuedBehindPending == Spec => []QueuedBehindPending
<1>1. RouterInv => QueuedBehindPending
  BY DEF RouterInv, FlightInv
<1> QED
  BY <1>1, RouterInvariant, PTL

\* Only a request that the worker gave up leaves its thread pending for good.
THEOREM RouterPendingHasOwner == Spec => []PendingHasOwner
<1>1. RouterInv => PendingHasOwner
  BY DEF RouterInv, FlightInv
<1> QED
  BY <1>1, RouterInvariant, PTL

\* /clear and the other idle-only commands never share a thread with a request.
THEOREM RouterClearIsExclusive == Spec => []ClearIsExclusive
<1>1. RouterInv => ClearIsExclusive
  <2> SUFFICES ASSUME RouterInv, at \in {"snapshot", "save", "sync"},
                      KindOf[cur] = "idleOnly"
               PROVE  ThreadOf[cur] \notin pending /\ ~InFlight(ThreadOf[cur])
    BY DEF ClearIsExclusive
  <2>1. ThreadOf[cur] \in Threads
    BY RouterAssumption DEF RouterAssumption, RouterInv, Stationed
  <2> QED
    BY <2>1 DEF RouterInv, FlightInv, ClearOnReleased, InFlightIsPending
<1> QED
  BY <1>1, RouterInvariant, PTL
-----------------------------------------------------------------------------
\* With no more threads than ReqCap the router never waits for the request
\* channel: the threads of the requests in it, and the one the router sends for,
\* are all different.
THEOREM RouterRequestNeverBlocks ==
  ASSUME IsFiniteSet(Threads)
  PROVE  Spec => []RequestNeverBlocks
<1>1. RouterInv => RequestNeverBlocks
  <2> SUFFICES ASSUME RouterInv, Cardinality(Threads) <= ReqCap,
                      at \in {"dispatch", "next"}, ~(Len(reqs) < ReqCap)
               PROVE  FALSE
    BY DEF RequestNeverBlocks
  <2> DEFINE n == Len(reqs)
             S == 1 .. (n + 1)
             f == [i \in S |-> IF i \in 1 .. n THEN ThreadOf[reqs[i]]
                               ELSE ThreadOf[cur]]
  <2>1. /\ reqs \in Seq(Messages) /\ n \in Nat /\ DOMAIN reqs = 1 .. n
        /\ cur \in Messages /\ ThreadOf[cur] \in Threads
        /\ \A i \in 1 .. n : ThreadOf[reqs[i]] \in Threads
        /\ ReqCap \in Nat
    BY RouterAssumption DEF RouterAssumption, RouterInv, TypeOK, Stationed
  <2>2. f \in [S -> Threads]
    BY <2>1
  <2>3. IsFiniteSet(S) /\ Cardinality(S) = n + 1
    BY <2>1, FS_Interval
  <2>4. Cardinality(Threads) < Cardinality(S)
    <3>1. Cardinality(Threads) \in Nat
      BY FS_CardinalityType
    <3> QED
      BY <2>1, <2>3, <3>1
  <2>5. PICK i, j \in S : i # j /\ f[i] = f[j]
    <3> HIDE DEF f, S
    <3> QED
      BY <2>2, <2>3, <2>4, FS_PigeonHole
  <2>6. \A k \in 1 .. n : ThreadOf[reqs[k]] # ThreadOf[cur]
    BY <2>1 DEF RouterInv, FlightInv, OneInFlight, Requested, Sending, Forwarding
  <2>7. \A k, l \in 1 .. n : ThreadOf[reqs[k]] = ThreadOf[reqs[l]] => k = l
    BY <2>1 DEF RouterInv, FlightInv, OneInFlight
  <2> QED
    BY <2>1, <2>5, <2>6, <2>7
<1> QED
  BY <1>1, RouterInvariant, PTL
-----------------------------------------------------------------------------
\* The messages that went past the commands: only chats reach the agent.
Admitted == {m \in Messages \ undelivered : KindOf[m] = "chat"}

\* What the router and the agent hold has left the channels, and a key is marked
\* only after the reply.
HandInv ==
  /\ cur \notin undelivered
  /\ at \in {"dispatch", "next"} => cur \in Admitted
  /\ at = "mark" => cur \in answered
  /\ queued \in [Threads -> Seq(Admitted)]
  /\ reqs \in Seq(Admitted)
  /\ busy \in Admitted \cup {NoMsg}
  /\ RecordedOnlyIfAnswered

\* A message that leaves a channel takes nothing from the hands of the others.
LEMMA DeliverKeeps ==
  ASSUME RouterInv, HandInv, NEW m \in Messages, IgnoreSeen(m) \/ Receive(m)
  PROVE  HandInv'
<1> USE DEF HandInv, BackToSelect, GoTo, agentVars
<1>1. undelivered' \subseteq undelivered /\ m \notin undelivered'
  BY DEF IgnoreSeen, Receive
<1>2. Admitted \subseteq Admitted'
  BY <1>1 DEF Admitted
<1>3. \A s \in Seq(Admitted) : s \in Seq(Admitted')
  BY <1>2
<1>4. UNCHANGED <<queued, reqs, busy, answered, processed>>
  BY DEF IgnoreSeen, Receive
<1>5. queued' \in [Threads -> Seq(Admitted')] /\ reqs' \in Seq(Admitted')
  BY <1>3, <1>4
<1>6. RecordedOnlyIfAnswered'
  BY <1>1, <1>4 DEF RecordedOnlyIfAnswered
<1> QED
  BY <1>1, <1>2, <1>4, <1>5, <1>6 DEF IgnoreSeen, Receive

\* Every other step leaves the channels alone.
LEMMA HandStep == RouterInv /\ HandInv /\ [Next]_vars => HandInv'
<1> SUFFICES ASSUME RouterInv, HandInv, [Next]_vars PROVE HandInv'
  OBVIOUS
<1>1. ASSUME NEW m \in Messages, IgnoreSeen(m) \/ Receive(m) PROVE HandInv'
  BY <1>1, DeliverKeeps
<1>2. CASE UNCHANGED undelivered
  <2>1. Admitted' = Admitted
    BY <1>2 DEF Admitted
  <2>2. cur \in Messages \cup {NoMsg} /\ NoMsg \notin undelivered
    BY RouterAssumption DEF RouterAssumption, RouterInv, TypeOK
  <2> USE <1>2, <2>1, <2>2 DEF HandInv, BackToSelect, GoTo, routerVars, agentVars
  <2>3. CASE Resolve \/ IgnoreProcessed \/ DropMalformed \/ RefuseRunning
             \/ StartCommand \/ TakeSnapshot \/ SaveCommand \/ SyncCommand
             \/ AgentClosed \/ StoreFails \/ ReplyFails \/ Shutdown
    BY <2>3 DEF Resolve, IgnoreProcessed, DropMalformed, RefuseRunning,
       StartCommand, Fresh, TakeSnapshot, SaveCommand, SyncCommand, AgentClosed,
       StoreFails, ReplyFails, Shutdown, RecordedOnlyIfAnswered
  <2>4. CASE MarkPending
    <3>1. cur \in Admitted
      BY <2>4 DEF MarkPending, Fresh, Admitted, RouterInv, Stationed
    <3> QED
      BY <2>4, <3>1 DEF MarkPending, Fresh, RecordedOnlyIfAnswered
  <2>5. CASE Enqueue
    <3>1. cur \in Admitted
      BY <2>5 DEF Enqueue, Fresh, Admitted, RouterInv, Stationed
    <3>2. ThreadOf[cur] \in Threads
      BY <2>5, RouterAssumption
         DEF Enqueue, Fresh, RouterInv, Stationed, RouterAssumption
    <3>3. Append(queued[ThreadOf[cur]], cur) \in Seq(Admitted)
      BY <3>1, <3>2
    <3>4. queued' \in [Threads -> Seq(Admitted)]
      BY <2>5, <3>3 DEF Enqueue
    <3> QED
      BY <2>5, <3>4 DEF Enqueue, RecordedOnlyIfAnswered
  <2>6. CASE Reply
    BY <2>6 DEF Reply, RecordedOnlyIfAnswered
  <2>7. CASE Mark
    <3>1. cur \in answered
      BY <2>7 DEF Mark
    <3>2. RecordedOnlyIfAnswered'
      BY <2>7, <3>1 DEF Mark, RecordedOnlyIfAnswered
    <3> QED
      BY <2>7, <3>2 DEF Mark
  <2>8. CASE Dispatch
    <3>1. reqs' \in Seq(Admitted)
      BY <2>8 DEF Dispatch
    <3> QED
      BY <2>8, <3>1 DEF Dispatch, RecordedOnlyIfAnswered
  <2>9. CASE DispatchFails
    BY <2>9 DEF DispatchFails, RecordedOnlyIfAnswered
  <2>10. CASE HandleProgress \/ Release
    BY <2>10 DEF HandleProgress, Release, RecordedOnlyIfAnswered
  <2>11. CASE PeekNext
    <3>1. PICK r \in Threads : Head(evs).thread = r
      BY <2>11, CompletedHead DEF PeekNext, RouterInv
    <3>2. queued[r] \in Seq(Admitted) /\ queued[r] # <<>>
      BY <2>11, <3>1 DEF PeekNext
    <3>3. cur' = Head(queued[r])
      BY <2>11, <3>1 DEF PeekNext
    <3>4. cur' \in Admitted
      BY <3>2, <3>3
    <3>5. cur' \notin undelivered
      BY <3>4 DEF Admitted
    <3> QED
      BY <2>11, <3>4, <3>5 DEF PeekNext, RecordedOnlyIfAnswered
  <2>12. CASE DispatchNext
    <3>1. reqs' \in Seq(Admitted)
      BY <2>12 DEF DispatchNext
    <3>2. /\ queued[ThreadOf[cur]] \in Seq(Admitted)
          /\ queued[ThreadOf[cur]] # <<>>
          /\ ThreadOf[cur] \in Threads
      BY <2>12, RouterAssumption
         DEF DispatchNext, RouterInv, Stationed, FlightInv, QueuesByThread, RouterAssumption
    <3>3. Tail(queued[ThreadOf[cur]]) \in Seq(Admitted)
      BY <3>2
    <3>4. queued' \in [Threads -> Seq(Admitted)]
      BY <2>12, <3>3 DEF DispatchNext
    <3> QED
      BY <2>12, <3>1, <3>4 DEF DispatchNext, RecordedOnlyIfAnswered
  <2>13. CASE Take
    <3>1. reqs' \in Seq(Admitted) /\ busy' \in Admitted
      BY <2>13 DEF Take
    <3> QED
      BY <2>13, <3>1 DEF Take, RecordedOnlyIfAnswered
  <2>14. CASE CommitTurn
    <3>1. RecordedOnlyIfAnswered'
      BY <2>14 DEF CommitTurn, RecordedOnlyIfAnswered
    <3> QED
      BY <2>14, <3>1 DEF CommitTurn
  <2>15. CASE Lock \/ Emit \/ Complete \/ Abandon
    BY <2>15 DEF Lock, Emit, Complete, Abandon, RecordedOnlyIfAnswered
  <2>16. CASE AgentDies \/ Restart
    <3>1. reqs' = <<>> /\ busy' = NoMsg /\ UNCHANGED <<processed, answered>>
      BY <2>16 DEF AgentDies, Restart
    <3>2. reqs' \in Seq(Admitted)
      BY <3>1
    <3>3. RecordedOnlyIfAnswered'
      BY <3>1 DEF RecordedOnlyIfAnswered
    <3>4. queued' \in [Threads -> Seq(Admitted)]
      <4>1. CASE AgentDies
        BY <4>1 DEF AgentDies
      <4>2. CASE Restart
        <5>1. <<>> \in Seq(Admitted)
          OBVIOUS
        <5> QED
          BY <4>2, <5>1 DEF Restart
      <4> QED
        BY <2>16, <4>1, <4>2
    <3> QED
      BY <2>16, <3>1, <3>2, <3>3, <3>4 DEF AgentDies, Restart
  <2>17. CASE UNCHANGED vars
    BY <2>17 DEF vars, RecordedOnlyIfAnswered
  <2> QED
    BY <1>1, <2>3, <2>4, <2>5, <2>6, <2>7, <2>8, <2>9, <2>10, <2>11, <2>12,
       <2>13, <2>14, <2>15, <2>16, <2>17
       DEF Next, RouterStep, Incoming, Command, AgentEvents, ToAgent, AgentStep,
       Fault
<1>3. UNCHANGED undelivered \/ \E m \in Messages : IgnoreSeen(m) \/ Receive(m)
  BY DEF Next, RouterStep, Incoming, Command, AgentEvents, ToAgent, AgentStep,
     Fault, vars, routerVars, agentVars, Resolve, IgnoreProcessed, DropMalformed,
     RefuseRunning, StartCommand, MarkPending, Enqueue, Fresh, TakeSnapshot,
     SaveCommand, SyncCommand, Reply, Mark, HandleProgress, Release, PeekNext,
     AgentClosed, Dispatch, DispatchFails, DispatchNext, Take, Lock, Emit,
     CommitTurn, Complete, StoreFails, ReplyFails, Abandon, AgentDies, Shutdown,
     Restart
<1> QED
  BY <1>1, <1>2, <1>3

\* Every chat in work was admitted, in every reachable state.
LEMMA HandInvariant == Spec => []HandInv
<1>1. Init => HandInv
  <2> SUFFICES ASSUME Init PROVE HandInv
    OBVIOUS
  <2>1. reqs \in Seq(Admitted) /\ queued \in [Threads -> Seq(Admitted)]
    BY DEF Init
  <2> QED
    BY <2>1, RouterAssumption
       DEF Init, HandInv, RecordedOnlyIfAnswered, RouterAssumption
<1> QED
  BY <1>1, HandStep, RouterInvariant, PTL DEF Spec

\* mark_external_message_processed and commit_finalized_turn record a key only
\* once a message with that key was answered, across every crash.
THEOREM RouterRecordedOnlyIfAnswered == Spec => []RecordedOnlyIfAnswered
<1>1. HandInv => RecordedOnlyIfAnswered
  BY DEF HandInv
<1> QED
  BY <1>1, HandInvariant, PTL
-----------------------------------------------------------------------------
\* No deduplication record is one of both messages.
Apart(m, n) == DedupKey(m) \cap DedupKey(n) = {}

\* The messages that wait in queued_messages, that the agent has or is about to
\* get, and that handle_incoming has not decided about.
Behind == {m \in Messages : \E t \in Threads : \E i \in DOMAIN queued[t] : queued[t][i] = m}
Asked == {m \in Messages : \/ \E i \in DOMAIN reqs : reqs[i] = m
                           \/ at = "dispatch" /\ cur = m}
Flying == Asked \cup {m \in Messages : busy = m}
Handling ==
  {m \in Messages : m = cur /\ at \in {"resolve", "check", "refuse", "snapshot",
                                       "save", "sync", "reply", "mark"}}

\* With in-process deduplication a key is in one place at a time, and has no
\* record as long as the worker has not begun with it.
KeysSeen == \A m \in Behind \cup Flying \cup Handling : KeyOf[m] \in seen \cup {NoKey}
Unrecorded == \A m \in Behind \cup Asked : DedupKey(m) \cap processed = {}
QueuesApart ==
  \A t \in Threads : \A i, j \in DOMAIN queued[t] :
    i # j => Apart(queued[t][i], queued[t][j])
PlacesApart ==
  /\ \A m \in Behind, n \in Flying : Apart(m, n)
  /\ \A m \in Behind \cup Flying, n \in Handling : Apart(m, n)
KeyInv == KeysSeen /\ Unrecorded /\ QueuesApart /\ PlacesApart

\* Two messages have no record in common if their threads or their keys differ.
LEMMA ApartIf ==
  ASSUME NEW m, NEW n,
         ThreadOf[m] # ThreadOf[n] \/ KeyOf[m] # KeyOf[n] \/ KeyOf[m] = NoKey
  PROVE  Apart(m, n)
  BY DEF Apart, DedupKey

\* Apart is symmetric.
LEMMA ApartEitherWay == ASSUME NEW m, NEW n, Apart(m, n) PROVE Apart(n, m)
  BY DEF Apart

\* A step that leaves messages where they are, or takes them away.
LEMMA FewerKeepKeys ==
  ASSUME KeyInv, seen \subseteq seen', UNCHANGED processed, QueuesApart',
         Behind' \subseteq Behind, Asked' \subseteq Asked, Flying' \subseteq Flying,
         Handling' \subseteq Handling
  PROVE  KeyInv'
<1>1. KeysSeen' /\ PlacesApart'
  BY DEF KeyInv, KeysSeen, PlacesApart, Apart, DedupKey
<1>2. Unrecorded'
  BY DEF KeyInv, Unrecorded, DedupKey
<1> QED
  BY <1>1, <1>2 DEF KeyInv

\* handle_incoming takes a message of a key it has not seen.
LEMMA ReceiveKeepsKeys ==
  ASSUME RouterInv, KeyInv, MessageDedup, NEW m \in Messages, Receive(m)
  PROVE  KeyInv'
<1>1. /\ at = "select" /\ at' = "resolve" /\ cur' = m /\ KeyOf[m] \notin seen
      /\ seen' = IF KeyOf[m] # NoKey THEN seen \cup {KeyOf[m]} ELSE seen
      /\ UNCHANGED <<queued, reqs, busy, processed>>
  BY DEF Receive, agentVars
<1>2. Behind' = Behind /\ Asked' = Asked /\ Flying' = Flying /\ Handling' = {m}
  BY <1>1 DEF Behind, Asked, Flying, Handling
<1>3. \A n \in Behind \cup Flying : Apart(n, m)
  <2> SUFFICES ASSUME NEW n \in Behind \cup Flying PROVE Apart(n, m)
    OBVIOUS
  <2>1. KeyOf[n] \in seen \cup {NoKey}
    BY DEF KeyInv, KeysSeen
  <2> QED
    BY <1>1, <2>1, ApartIf
<1>4. KeysSeen' /\ Unrecorded' /\ QueuesApart'
  BY <1>1, <1>2 DEF KeyInv, KeysSeen, Unrecorded, QueuesApart, Apart, DedupKey
<1>5. PlacesApart'
  BY <1>2, <1>3 DEF KeyInv, PlacesApart, Apart, DedupKey
<1> QED
  BY <1>4, <1>5 DEF KeyInv

\* What try_mark_thread_pending decides about a message: it goes to the agent, or
\* behind the others of its thread.
LEMMA AcceptKeepsKeys ==
  ASSUME RouterInv, KeyInv, MarkPending \/ Enqueue
  PROVE  KeyInv'
<1> USE DEF Fresh, BackToSelect, GoTo, agentVars
<1>1. /\ cur \in Messages /\ at = "check" /\ ThreadOf[cur] \in Threads
      /\ DedupKey(cur) \cap processed = {}
      /\ UNCHANGED <<seen, reqs, busy, processed>>
  BY RouterAssumption DEF RouterAssumption, MarkPending, Enqueue, RouterInv, Stationed
<1>2. Handling = {cur} /\ Handling' = {}
  BY <1>1 DEF MarkPending, Enqueue, Handling
<1>3. \A m \in Behind \cup Flying : Apart(m, cur) /\ Apart(cur, m)
  BY <1>2, ApartEitherWay DEF KeyInv, PlacesApart
<1>4. KeyOf[cur] \in seen \cup {NoKey}
  BY <1>2 DEF KeyInv, KeysSeen
<1>5. CASE MarkPending
  <2>1. /\ Behind' = Behind /\ Asked' = Asked \cup {cur} /\ Flying' = Flying \cup {cur}
        /\ UNCHANGED queued
    BY <1>1, <1>5 DEF MarkPending, Behind, Asked, Flying
  <2>2. KeysSeen' /\ Unrecorded' /\ QueuesApart'
    BY <1>1, <1>2, <1>4, <2>1 DEF KeyInv, KeysSeen, Unrecorded, QueuesApart, Apart, DedupKey
  <2>3. PlacesApart'
    BY <1>2, <1>3, <2>1 DEF KeyInv, PlacesApart, Apart, DedupKey
  <2> QED
    BY <2>2, <2>3 DEF KeyInv
<1>6. CASE Enqueue
  <2> DEFINE t == ThreadOf[cur]
             new == Append(queued[t], cur)
  <2>1. queued[t] \in Seq(Messages) /\ queued' = [queued EXCEPT ![t] = new]
    BY <1>1, <1>6 DEF RouterInv, TypeOK, Enqueue
  <2>2. /\ DOMAIN new = DOMAIN queued[t] \cup {Len(queued[t]) + 1}
        /\ Len(queued[t]) + 1 \notin DOMAIN queued[t]
        /\ new[Len(queued[t]) + 1] = cur
        /\ \A i \in DOMAIN queued[t] : new[i] = queued[t][i] /\ queued[t][i] \in Behind
    <3>1. \A i \in DOMAIN queued[t] : queued[t][i] \in Messages
      BY <2>1
    <3> QED
      BY <1>1, <2>1, <3>1, AppendHolds DEF Behind
  <2>3. /\ queued'[t] = new
        /\ \A u \in Threads \ {t} : queued'[u] = queued[u]
    BY <1>1, <2>1 DEF RouterInv, TypeOK
  <2> HIDE DEF new
  <2>4. Behind' \subseteq Behind \cup {cur}
    <3> SUFFICES ASSUME NEW u \in Threads, NEW i \in DOMAIN queued'[u]
                 PROVE  queued'[u][i] \in Messages => queued'[u][i] \in Behind \cup {cur}
      BY DEF Behind
    <3>1. CASE u = t
      BY <2>2, <2>3, <3>1
    <3>2. CASE u # t
      BY <2>3, <3>2 DEF Behind
    <3> QED
      BY <3>1, <3>2
  <2>5. Asked' = Asked /\ Flying' = Flying
    BY <1>1, <1>6 DEF Enqueue, Asked, Flying
  <2>6. QueuesApart'
    <3> SUFFICES ASSUME NEW u \in Threads, NEW i \in DOMAIN queued'[u],
                        NEW j \in DOMAIN queued'[u], i # j
                 PROVE  Apart(queued'[u][i], queued'[u][j])
      BY DEF QueuesApart, Apart, DedupKey
    <3>1. CASE u # t
      BY <2>3, <3>1 DEF KeyInv, QueuesApart
    <3>2. CASE u = t /\ i \in DOMAIN queued[t] /\ j \in DOMAIN queued[t]
      BY <1>1, <2>2, <2>3, <3>2 DEF KeyInv, QueuesApart
    <3>3. CASE u = t /\ (i = Len(queued[t]) + 1 \/ j = Len(queued[t]) + 1)
      BY <1>3, <2>2, <2>3, <3>3
    <3> QED
      BY <2>2, <2>3, <3>1, <3>2, <3>3
  <2>7. KeysSeen' /\ Unrecorded'
    BY <1>1, <1>2, <1>4, <2>4, <2>5 DEF KeyInv, KeysSeen, Unrecorded, DedupKey
  <2>8. PlacesApart'
    BY <1>2, <1>3, <2>4, <2>5 DEF KeyInv, PlacesApart, Apart, DedupKey
  <2> QED
    BY <2>6, <2>7, <2>8 DEF KeyInv
<1> QED
  BY <1>5, <1>6

\* release_or_dispatch_next moves the head of a queue, which has no record in
\* common with what stays behind.
LEMMA ForwardKeepsKeys ==
  ASSUME RouterInv, KeyInv, DispatchNext
  PROVE  KeyInv'
<1> DEFINE t == ThreadOf[cur]
           q == queued[t]
<1> USE DEF BackToSelect, agentVars
<1>1. /\ at = "next" /\ cur \in Messages /\ t \in Threads
      /\ q \in Seq(Messages) /\ q # <<>> /\ cur = Head(q)
      /\ queued' = [queued EXCEPT ![t] = Tail(q)]
      /\ reqs \in Seq(Messages) /\ reqs' = Append(reqs, cur)
      /\ UNCHANGED <<seen, busy, processed>> /\ at' = "select"
  BY RouterAssumption
     DEF RouterAssumption, RouterInv, Stationed, FlightInv, QueuesByThread, TypeOK,
         DispatchNext
<1>2. /\ Len(q) > 0 /\ DOMAIN q = 1 .. Len(q) /\ cur = q[1]
      /\ DOMAIN Tail(q) = 1 .. Len(q) - 1
      /\ \A i \in DOMAIN Tail(q) : Tail(q)[i] = q[i + 1] /\ i + 1 \in DOMAIN q /\ i + 1 # 1
      /\ 1 \in DOMAIN q
  BY <1>1
<1>3. /\ DOMAIN queued'[t] = 1 .. Len(q) - 1
      /\ \A i \in DOMAIN queued'[t] :
           queued'[t][i] = queued[t][i + 1] /\ i + 1 \in DOMAIN queued[t] /\ i + 1 # 1
      /\ \A u \in Threads \ {t} : queued'[u] = queued[u]
  <2>1. queued'[t] = Tail(q) /\ \A u \in Threads \ {t} : queued'[u] = queued[u]
    BY <1>1 DEF RouterInv, TypeOK
  <2> QED
    BY <1>2, <2>1
<1> HIDE DEF q
<1>4. ASSUME NEW u \in Threads, NEW i \in DOMAIN queued'[u]
      PROVE  \E j \in DOMAIN queued[u] : queued'[u][i] = queued[u][j] /\ (u = t => j # 1)
  <2>1. CASE u = t
    BY <1>3, <1>4, <2>1
  <2>2. CASE u # t
    BY <1>3, <1>4, <2>2
  <2> QED
    BY <2>1, <2>2
<1>5. Behind' \subseteq Behind /\ cur \in Behind
  <2>1. Behind' \subseteq Behind
    BY <1>4 DEF Behind
  <2>2. cur \in Behind
    BY <1>1, <1>2 DEF Behind, q
  <2> QED
    BY <2>1, <2>2
<1>6. \A m \in Behind' : Apart(m, cur)
  <2> SUFFICES ASSUME NEW u \in Threads, NEW i \in DOMAIN queued'[u]
               PROVE  Apart(queued'[u][i], cur)
    BY DEF Behind
  <2>1. PICK j \in DOMAIN queued[u] : queued'[u][i] = queued[u][j] /\ (u = t => j # 1)
    BY <1>4
  <2>2. CASE u = t
    BY <1>1, <1>2, <2>1, <2>2 DEF KeyInv, QueuesApart, q
  <2>3. CASE u # t
    <3>1. ThreadOf[queued[u][j]] = u
      BY DEF RouterInv, FlightInv, QueuesByThread
    <3> QED
      BY <2>1, <2>3, <3>1, ApartIf
  <2> QED
    BY <2>2, <2>3
<1>7. /\ Asked' \subseteq Asked \cup {cur} /\ Flying' \subseteq Flying \cup {cur}
      /\ Handling' = {}
  <2>1. \A i \in DOMAIN reqs' : reqs'[i] = cur \/ \E j \in DOMAIN reqs : reqs'[i] = reqs[j]
    BY <1>1, AppendHolds
  <2>2. Asked' \subseteq Asked \cup {cur}
    BY <1>1, <2>1 DEF Asked
  <2> QED
    BY <1>1, <2>2 DEF Flying, Handling
<1>8. KeysSeen' /\ Unrecorded'
  BY <1>1, <1>5, <1>7 DEF KeyInv, KeysSeen, Unrecorded, DedupKey
<1>9. PlacesApart'
  BY <1>5, <1>6, <1>7 DEF KeyInv, PlacesApart, Apart, DedupKey
<1>10. QueuesApart'
  <2> SUFFICES ASSUME NEW u \in Threads, NEW i \in DOMAIN queued'[u],
                      NEW j \in DOMAIN queued'[u], i # j
               PROVE  Apart(queued'[u][i], queued'[u][j])
    BY DEF QueuesApart, Apart, DedupKey
  <2>1. CASE u = t
    <3>1. /\ queued[u][i + 1] = queued'[u][i] /\ i + 1 \in DOMAIN queued[u]
          /\ queued[u][j + 1] = queued'[u][j] /\ j + 1 \in DOMAIN queued[u]
      BY <1>3, <2>1
    <3>2. i \in 1 .. Len(q) - 1 /\ j \in 1 .. Len(q) - 1
      BY <1>3, <2>1
    <3>3. i + 1 # j + 1
      BY <1>1, <3>2
    <3> QED
      BY <3>1, <3>3 DEF KeyInv, QueuesApart
  <2>2. CASE u # t
    BY <1>3, <2>2 DEF KeyInv, QueuesApart
  <2> QED
    BY <2>1, <2>2
<1> QED
  BY <1>8, <1>9, <1>10 DEF KeyInv

\* A record is stored for the message the worker has finished, or for the command
\* the router has answered; no other message in hand has this key.
LEMMA RecordKeepsKeys ==
  ASSUME RouterInv, KeyInv, CommitTurn \/ Mark
  PROVE  KeyInv'
<1> USE DEF BackToSelect, routerVars, agentVars
<1>1. PICK k \in Messages :
        /\ processed' = processed \cup DedupKey(k)
        /\ (CommitTurn /\ k = busy) \/ (Mark /\ k = cur)
  <2>1. CASE CommitTurn
    <3>1. busy \in Messages
      BY <2>1 DEF CommitTurn, RouterInv, Stationed, TypeOK
    <3>2. processed' = processed \cup DedupKey(busy)
      BY <2>1 DEF CommitTurn
    <3> QED
      BY <2>1, <3>1, <3>2
  <2>2. CASE Mark
    <3>1. cur \in Messages
      BY <2>2 DEF Mark, RouterInv, Stationed
    <3>2. processed' = processed \cup DedupKey(cur)
      BY <2>2 DEF Mark
    <3> QED
      BY <2>2, <3>1, <3>2
  <2> QED
    BY <2>1, <2>2
<1>2. /\ Behind' = Behind /\ Asked' \subseteq Asked /\ Flying' \subseteq Flying
      /\ Handling' \subseteq Handling /\ UNCHANGED <<seen, queued>>
  BY DEF CommitTurn, Mark, Behind, Asked, Flying, Handling
<1>3. \A m \in Behind' \cup Asked' : DedupKey(m) \cap DedupKey(k) = {}
  <2>1. CASE Mark
    <3>1. k \in Handling /\ Asked \subseteq Flying
      BY <1>1, <2>1 DEF Mark, CommitTurn, Handling, Flying, RouterInv, Stationed
    <3> QED
      BY <1>2, <3>1 DEF KeyInv, PlacesApart, Apart
  <2>2. CASE CommitTurn /\ k = busy
    <3>1. k \in Flying /\ Running(ThreadOf[k]) /\ ThreadOf[k] \in Threads
      BY <2>2, RouterAssumption DEF RouterAssumption, Flying, Running
    <3>2. \A m \in Behind : Apart(m, k)
      BY <3>1 DEF KeyInv, PlacesApart
    <3>3. \A m \in Asked : Apart(m, k)
      <4> SUFFICES ASSUME NEW m \in Asked PROVE ThreadOf[m] # ThreadOf[k]
        BY ApartIf
      <4>1. ~Requested(ThreadOf[k]) /\ ~Sending(ThreadOf[k])
        BY <3>1 DEF RouterInv, FlightInv, OneInFlight
      <4> QED
        BY <4>1 DEF Asked, Requested, Sending
    <3> QED
      BY <1>2, <3>2, <3>3 DEF Apart
  <2> QED
    BY <1>1, <2>1, <2>2
<1>4. Unrecorded'
  BY <1>1, <1>2, <1>3 DEF KeyInv, Unrecorded, DedupKey
<1>5. KeysSeen' /\ QueuesApart' /\ PlacesApart'
  BY <1>2 DEF KeyInv, KeysSeen, QueuesApart, PlacesApart, Apart, DedupKey
<1> QED
  BY <1>4, <1>5 DEF KeyInv

\* Every other step keeps the queues, or empties them.
LEMMA SameQueuesKeepKeys ==
  ASSUME KeyInv, UNCHANGED <<seen, queued, processed>>,
         Asked' \subseteq Asked, Flying' \subseteq Flying, Handling' \subseteq Handling
  PROVE  KeyInv'
<1>1. Behind' = Behind /\ QueuesApart'
  BY DEF Behind, KeyInv, QueuesApart, Apart, DedupKey
<1> QED
  BY <1>1, FewerKeepKeys

\* Every step keeps the messages in work apart and without a record.
LEMMA KeyStep == RouterInv /\ KeyInv /\ MessageDedup /\ [Next]_vars => KeyInv'
<1> SUFFICES ASSUME RouterInv, KeyInv, MessageDedup, [Next]_vars PROVE KeyInv'
  OBVIOUS
<1> USE DEF Fresh, BackToSelect, GoTo, routerVars, agentVars
<1>1. CASE \E m \in Messages : IgnoreSeen(m) \/ Receive(m)
  <2>1. ASSUME NEW m \in Messages, IgnoreSeen(m) PROVE KeyInv'
    BY <2>1, SameQueuesKeepKeys DEF IgnoreSeen, Asked, Flying, Handling
  <2> QED
    BY <1>1, <2>1, ReceiveKeepsKeys
<1>2. CASE \/ Resolve \/ IgnoreProcessed \/ DropMalformed \/ RefuseRunning \/ StartCommand
           \/ TakeSnapshot \/ SaveCommand \/ SyncCommand \/ Reply \/ StoreFails \/ ReplyFails
  <2>1. /\ UNCHANGED <<seen, queued, reqs, busy, processed>>
        /\ at \in {"resolve", "check", "refuse", "snapshot", "save", "sync", "reply", "mark"}
        /\ at' # "dispatch"
        /\ at' = "select" \/ cur' = cur
    BY <1>2 DEF Resolve, IgnoreProcessed, DropMalformed, RefuseRunning, StartCommand,
       TakeSnapshot, SaveCommand, SyncCommand, Reply, StoreFails, ReplyFails
  <2>2. Asked' \subseteq Asked /\ Flying' \subseteq Flying /\ Handling' \subseteq Handling
    BY <2>1 DEF Asked, Flying, Handling
  <2> QED
    BY <2>1, <2>2, SameQueuesKeepKeys
<1>3. CASE MarkPending \/ Enqueue
  BY <1>3, AcceptKeepsKeys
<1>4. CASE Mark \/ CommitTurn
  BY <1>4, RecordKeepsKeys
<1>5. CASE HandleProgress \/ Release \/ PeekNext \/ AgentClosed \/ Lock \/ Emit \/ Shutdown
           \/ UNCHANGED vars
  <2>1. /\ UNCHANGED <<seen, queued, reqs, busy, processed>>
        /\ \/ UNCHANGED <<at, cur>>
           \/ at = "select" /\ at' \in {"next", "stopped"}
    BY <1>5 DEF HandleProgress, Release, PeekNext, AgentClosed, Lock, Emit, Shutdown, vars
  <2>2. Asked' \subseteq Asked /\ Flying' \subseteq Flying /\ Handling' \subseteq Handling
    BY <2>1 DEF Asked, Flying, Handling
  <2> QED
    BY <2>1, <2>2, SameQueuesKeepKeys
<1>6. CASE Dispatch
  <2>1. \A i \in DOMAIN reqs' : reqs'[i] = cur \/ \E j \in DOMAIN reqs : reqs'[i] = reqs[j]
    BY <1>6, AppendHolds DEF Dispatch, RouterInv, TypeOK, Stationed
  <2>2. Asked' \subseteq Asked
    BY <1>6, <2>1 DEF Dispatch, Asked
  <2>3. Flying' \subseteq Flying /\ Handling' \subseteq Handling
    BY <1>6, <2>2 DEF Dispatch, Flying, Handling
  <2> QED
    BY <1>6, <2>2, <2>3, SameQueuesKeepKeys DEF Dispatch
<1>7. CASE DispatchFails
  BY <1>7, SameQueuesKeepKeys DEF DispatchFails, Asked, Flying, Handling
<1>8. CASE DispatchNext
  BY <1>8, ForwardKeepsKeys
<1>9. CASE Take
  <2>1. /\ UNCHANGED <<seen, queued, processed, at, cur>>
        /\ busy' = Head(reqs) /\ reqs' = Tail(reqs)
    BY <1>9 DEF Take
  <2>2. \A i \in DOMAIN reqs' : \E j \in DOMAIN reqs : reqs'[i] = reqs[j]
    BY <1>9 DEF Take, RouterInv, TypeOK
  <2>3. \E j \in DOMAIN reqs : busy' = reqs[j]
    BY <1>9 DEF Take, RouterInv, TypeOK
  <2>4. Asked' \subseteq Asked
    BY <2>1, <2>2 DEF Asked
  <2>5. Flying' \subseteq Flying /\ Handling' \subseteq Handling
    BY <2>1, <2>3, <2>4 DEF Flying, Asked, Handling
  <2> QED
    BY <2>1, <2>4, <2>5, SameQueuesKeepKeys
<1>10. CASE Complete \/ Abandon
  <2>1. UNCHANGED <<seen, queued, reqs, processed, at, cur>> /\ busy' = NoMsg
    BY <1>10 DEF Complete, Abandon
  <2>2. Asked' = Asked /\ Handling' = Handling
    BY <2>1 DEF Asked, Handling
  <2>3. Flying' \subseteq Flying
    BY <2>1, <2>2, RouterAssumption DEF Flying, RouterAssumption
  <2> QED
    BY <2>1, <2>2, <2>3, SameQueuesKeepKeys
<1>11. CASE AgentDies
  <2>1. /\ UNCHANGED <<seen, queued, processed, at, cur>>
        /\ busy' = NoMsg /\ DOMAIN reqs' = {}
    BY <1>11 DEF AgentDies
  <2>2. Asked' \subseteq Asked /\ Handling' = Handling
    BY <2>1 DEF Asked, Handling
  <2>3. Flying' \subseteq Flying
    BY <2>1, <2>2, RouterAssumption DEF Flying, RouterAssumption
  <2> QED
    BY <2>1, <2>2, <2>3, SameQueuesKeepKeys
<1>12. CASE Restart
  <2>1. /\ \A t \in Threads : DOMAIN queued'[t] = {}
        /\ DOMAIN reqs' = {} /\ busy' = NoMsg /\ at' = "select"
    BY <1>12 DEF Restart
  <2>2. Behind' = {} /\ Asked' = {} /\ Handling' = {}
    BY <2>1 DEF Behind, Asked, Handling
  <2>3. Flying' = {}
    BY <2>1, <2>2, RouterAssumption DEF Flying, RouterAssumption
  <2>4. QueuesApart'
    BY <2>1 DEF QueuesApart
  <2> QED
    BY <2>2, <2>3, <2>4 DEF KeyInv, KeysSeen, Unrecorded, PlacesApart
<1> QED
  BY <1>1, <1>2, <1>3, <1>4, <1>5, <1>6, <1>7, <1>8, <1>9, <1>10, <1>11, <1>12
     DEF Next, RouterStep, Incoming, Command, AgentEvents, ToAgent, AgentStep, Fault

\* With in-process deduplication the worker never begins with a message whose key
\* has a record: is_external_message_processed is asked when the message arrives
\* and not again when it leaves queued_messages, but seen_messages lets no second
\* message of the key come that far in between.
THEOREM RouterNoReprocess == ASSUME MessageDedup PROVE Spec => NoReprocess
<1>1. Init => KeyInv
  <2> SUFFICES ASSUME Init PROVE KeyInv
    OBVIOUS
  <2>1. Behind = {} /\ Asked = {} /\ Handling = {} /\ QueuesApart
    BY DEF Init, Behind, Asked, Handling, QueuesApart
  <2>2. Flying = {}
    BY <2>1, RouterAssumption DEF Init, Flying, RouterAssumption
  <2> QED
    BY <2>1, <2>2 DEF KeyInv, KeysSeen, Unrecorded, PlacesApart
<1>2. RouterInv /\ KeyInv /\ [Next]_vars =>
        [busy' # busy /\ busy' # NoMsg => DedupKey(busy') \cap processed = {}]_vars
  <2> SUFFICES ASSUME RouterInv, KeyInv, Next, busy' # busy, busy' # NoMsg
               PROVE  DedupKey(busy') \cap processed = {}
    BY DEF vars
  <2>1. Take
    BY DEF Next, RouterStep, Incoming, Command, AgentEvents, ToAgent, AgentStep,
       Fault, routerVars, agentVars, IgnoreSeen, Receive, Resolve, IgnoreProcessed,
       DropMalformed, RefuseRunning, StartCommand, MarkPending, Enqueue, Fresh,
       TakeSnapshot, SaveCommand, SyncCommand, Reply, Mark, HandleProgress, Release,
       PeekNext, AgentClosed, Dispatch, DispatchFails, DispatchNext, Lock, Emit,
       CommitTurn, Complete, StoreFails, ReplyFails, Abandon, AgentDies, Shutdown,
       Restart
  <2>2. busy' \in Asked
    BY <2>1 DEF Take, Asked, RouterInv, TypeOK
  <2> QED
    BY <2>2 DEF KeyInv, Unrecorded
<1>3. RouterInv /\ KeyInv /\ [Next]_vars => KeyInv'
  BY KeyStep
<1> QED
  BY <1>1, <1>2, <1>3, RouterInvariant, PTL DEF Spec, NoReprocess
-----------------------------------------------------------------------------
(* Router implements ThreadLane *)

\* What the lane of a thread is: the request the agent has or is about to get, in
\* front of the queue.
LaneFacts ==
  \A t \in Threads :
    /\ queued[t] \in Seq(Messages)
    /\ \A i \in DOMAIN reqs : ThreadOf[reqs[i]] = t => LaneOf(t) = <<reqs[i]>> \o queued[t]
    /\ Sending(t) => LaneOf(t) = <<cur>> \o queued[t]
    /\ ~Requested(t) /\ ~Sending(t) => LaneOf(t) = queued[t]

\* The lanes that the refinement mapping reads off the router's state.
LEMMA LaneIs == RouterInv => LaneFacts
<1> SUFFICES ASSUME RouterInv, NEW t \in Threads
             PROVE  /\ queued[t] \in Seq(Messages)
                    /\ \A i \in DOMAIN reqs :
                         ThreadOf[reqs[i]] = t => LaneOf(t) = <<reqs[i]>> \o queued[t]
                    /\ Sending(t) => LaneOf(t) = <<cur>> \o queued[t]
                    /\ ~Requested(t) /\ ~Sending(t) => LaneOf(t) = queued[t]
  BY DEF LaneFacts
<1>1. queued[t] \in Seq(Messages) /\ reqs \in Seq(Messages)
  BY DEF RouterInv, TypeOK
<1>2. ASSUME NEW i \in DOMAIN reqs, ThreadOf[reqs[i]] = t
      PROVE  LaneOf(t) = <<reqs[i]>> \o queued[t]
  <2>1. reqs[i] \in Messages /\ Requested(t) /\ ~Sending(t)
    BY <1>1, <1>2 DEF Requested, RouterInv, FlightInv, OneInFlight
  <2>2. \A m \in Messages :
          (\E j \in DOMAIN reqs : reqs[j] = m /\ ThreadOf[m] = t) <=> m = reqs[i]
    BY <1>2, <2>1 DEF RouterInv, FlightInv, OneInFlight
  <2>3. RequestOf(t) = reqs[i]
    BY <2>1, <2>2 DEF RequestOf
  <2> QED
    BY <1>1, <2>1, <2>3, ConcatEmptySeq DEF LaneOf
<1>3. ASSUME Sending(t) PROVE LaneOf(t) = <<cur>> \o queued[t]
  <2>1. cur \in Messages /\ ~Requested(t)
    BY <1>3 DEF Sending, RouterInv, Stationed, FlightInv, OneInFlight
  <2> QED
    BY <1>3, <2>1, ConcatEmptySeq DEF LaneOf
<1>4. ASSUME ~Requested(t), ~Sending(t) PROVE LaneOf(t) = queued[t]
  <2>1. LaneOf(t) = (<<>> \o <<>>) \o queued[t]
    BY <1>4 DEF LaneOf
  <2> QED
    BY <1>1, <2>1, ConcatEmptySeq
<1> QED
  BY <1>1, <1>2, <1>3, <1>4

\* The lanes of two states with the same requests, queues and message to send.
LEMMA SameLanes ==
  ASSUME LaneFacts, LaneFacts', UNCHANGED <<reqs, queued, alive>>,
         at' = "dispatch" <=> at = "dispatch", at = "dispatch" => cur' = cur
  PROVE  Lanes' = Lanes
<1>1. ASSUME NEW t \in Threads PROVE LaneOf(t)' = LaneOf(t)
  <2>1. (Requested(t)' <=> Requested(t)) /\ (Sending(t)' <=> Sending(t))
    BY DEF Requested, Sending
  <2>2. CASE Requested(t)
    <3>1. PICK i \in DOMAIN reqs : ThreadOf[reqs[i]] = t
      BY <2>2 DEF Requested
    <3> QED
      BY <3>1 DEF LaneFacts
  <2>3. CASE Sending(t)
    BY <2>1, <2>3 DEF LaneFacts, Sending
  <2>4. CASE ~Requested(t) /\ ~Sending(t)
    BY <2>1, <2>4 DEF LaneFacts
  <2> QED
    BY <2>2, <2>3, <2>4
<1> QED
  BY <1>1 DEF Lanes

\* handle_incoming decides about the message it holds.
LEMMA IgnoreSteps ==
  ASSUME RouterInv, HandInv, LaneFacts, LaneFacts',
         \/ \E m \in Messages : IgnoreSeen(m)
         \/ IgnoreProcessed \/ DropMalformed \/ RefuseRunning \/ StartCommand
         \/ StoreFails /\ at \in {"resolve", "check"}
         \/ ~alive /\ (MarkPending \/ Enqueue)
  PROVE  \E m \in Messages : Lane!Ignore(m)
<1> USE DEF Fresh, BackToSelect, GoTo, agentVars
<1>1. CASE \E m \in Messages : IgnoreSeen(m)
  <2>1. PICK m \in Messages : IgnoreSeen(m)
    BY <1>1
  <2>2. Lanes' = Lanes
    BY <2>1, SameLanes DEF IgnoreSeen
  <2> QED
    BY <2>1, <2>2 DEF IgnoreSeen, Lane!Ignore, Offered
<1>2. CASE ~(\E m \in Messages : IgnoreSeen(m))
  <2>1. /\ cur \in Messages /\ cur \notin undelivered
        /\ at \in {"resolve", "check"} /\ at' \notin {"resolve", "check"}
        /\ UNCHANGED <<undelivered, busy>>
    BY <1>2 DEF IgnoreProcessed, DropMalformed, RefuseRunning, StartCommand, StoreFails,
       MarkPending, Enqueue, RouterInv, Stationed, HandInv
  <2>2. Lanes' = Lanes
    <3>1. CASE ~alive /\ (MarkPending \/ Enqueue)
      BY <3>1 DEF MarkPending, Enqueue, Lanes
    <3>2. CASE ~(~alive /\ (MarkPending \/ Enqueue))
      BY <1>2, <3>2, SameLanes
         DEF IgnoreProcessed, DropMalformed, RefuseRunning, StartCommand, StoreFails
    <3> QED
      BY <3>1, <3>2
  <2> QED
    BY <2>1, <2>2 DEF Lane!Ignore, Offered
<1> QED
  BY <1>1, <1>2

\* A chat goes to the end of its lane, whether its thread is free or pending.
LEMMA AcceptSteps ==
  ASSUME RouterInv, HandInv, LaneFacts, LaneFacts', alive, MarkPending \/ Enqueue
  PROVE  Lane!Accept(cur) /\ cur \in Messages
<1> USE DEF Fresh, BackToSelect, GoTo, agentVars
<1>1. /\ cur \in Messages /\ cur \notin undelivered
      /\ at = "check" /\ at' \notin {"resolve", "check"}
      /\ UNCHANGED <<undelivered, busy, reqs, alive>>
  BY DEF MarkPending, Enqueue, RouterInv, Stationed, HandInv
<1>0. PICK t \in Threads : t = ThreadOf[cur]
  BY <1>1, RouterAssumption DEF RouterAssumption
<1>2. Offered' = Offered \ {cur} /\ cur \in Offered
  BY <1>1 DEF Offered
<1>3. LaneOf(t)' = Append(LaneOf(t), cur)
  <2>1. CASE MarkPending
    <3>1. ~Requested(t) /\ ~Sending(t) /\ queued[t] = <<>> /\ Sending(t)'
      BY <1>0, <1>1, <2>1 DEF MarkPending, Sending, RouterInv, FlightInv, InFlightIsPending,
         InFlight, QueuedBehindPending
    <3>2. LaneOf(t) = <<>> /\ LaneOf(t)' = <<cur>> \o <<>>
      BY <1>0, <1>1, <2>1, <3>1 DEF MarkPending, LaneFacts
    <3>3. <<cur>> \o <<>> = Append(<<>>, cur)
      BY <1>1
    <3> QED
      BY <3>2, <3>3
  <2>2. CASE Enqueue
    <3>1. queued'[t] = Append(queued[t], cur) /\ queued[t] \in Seq(Messages)
      BY <1>0, <1>1, <2>2 DEF Enqueue, RouterInv, TypeOK
    <3>2. ~Sending(t) /\ ~Sending(t)' /\ (Requested(t)' <=> Requested(t))
      BY <1>0, <1>1, <2>2 DEF Enqueue, Sending, Requested
    <3>3. CASE Requested(t)
      <4>1. PICK i \in DOMAIN reqs : ThreadOf[reqs[i]] = t
        BY <3>3 DEF Requested
      <4>2. /\ LaneOf(t) = <<reqs[i]>> \o queued[t]
            /\ LaneOf(t)' = <<reqs[i]>> \o Append(queued[t], cur)
            /\ reqs[i] \in Messages
        <5>1. i \in DOMAIN reqs' /\ ThreadOf[reqs'[i]] = t /\ reqs'[i] = reqs[i]
          BY <1>1, <4>1
        <5>2. LaneOf(t)' = <<reqs'[i]>> \o queued'[t]
          BY <5>1 DEF LaneFacts
        <5> QED
          BY <3>1, <4>1, <5>1, <5>2 DEF LaneFacts, RouterInv, TypeOK
      <4>3. <<reqs[i]>> \o Append(queued[t], cur) = Append(<<reqs[i]>> \o queued[t], cur)
        BY <1>0, <1>1, <3>1, <4>2
      <4> QED
        BY <4>2, <4>3
    <3>4. CASE ~Requested(t)
      BY <1>0, <1>1, <3>1, <3>2, <3>4 DEF LaneFacts
    <3> QED
      BY <3>3, <3>4
  <2> QED
    BY <2>1, <2>2
<1>4. ASSUME NEW u \in Threads, u # t PROVE LaneOf(u)' = LaneOf(u)
  <2>1. /\ queued'[u] = queued[u] /\ ~Sending(u) /\ ~Sending(u)'
        /\ (Requested(u)' <=> Requested(u))
    BY <1>0, <1>1, <1>4 DEF MarkPending, Enqueue, Sending, Requested, RouterInv, TypeOK
  <2>2. CASE Requested(u)
    <3>1. PICK i \in DOMAIN reqs : ThreadOf[reqs[i]] = u
      BY <2>2 DEF Requested
    <3>2. i \in DOMAIN reqs' /\ ThreadOf[reqs'[i]] = u /\ reqs'[i] = reqs[i]
      BY <1>1, <3>1
    <3>3. LaneOf(u)' = <<reqs'[i]>> \o queued'[u]
      BY <3>2 DEF LaneFacts
    <3> QED
      BY <2>1, <3>1, <3>2, <3>3 DEF LaneFacts
  <2> QED
    BY <2>1, <2>2 DEF LaneFacts
<1>5. Lanes' = [Lanes EXCEPT ![t] = Append(@, cur)]
  BY <1>0, <1>1, <1>3, <1>4 DEF Lanes
<1> QED
  BY <1>0, <1>1, <1>2, <1>5 DEF Lane!Accept

\* A message that moves from the router's hand to the request channel stays where
\* it is in its lane.
LEMMA SendSteps ==
  ASSUME RouterInv, LaneFacts, LaneFacts', Dispatch \/ DispatchNext
  PROVE  UNCHANGED Lane!vars
<1> USE DEF BackToSelect, agentVars
<1>1. /\ cur \in Messages /\ at \in {"dispatch", "next"} /\ at' = "select"
      /\ reqs' = Append(reqs, cur) /\ reqs \in Seq(Messages)
      /\ UNCHANGED <<undelivered, busy, alive>>
  BY DEF Dispatch, DispatchNext, RouterInv, Stationed, TypeOK
<1>2. PICK t \in Threads : t = ThreadOf[cur]
  BY <1>1, RouterAssumption DEF RouterAssumption
<1>3. LaneOf(t)' = LaneOf(t)
  <2>1. PICK i \in DOMAIN reqs' : reqs'[i] = cur
    BY <1>1, AppendHolds
  <2>2. LaneOf(t)' = <<cur>> \o queued'[t]
    BY <1>2, <2>1 DEF LaneFacts
  <2>3. CASE Dispatch
    BY <1>1, <1>2, <2>2, <2>3 DEF Dispatch, Sending, LaneFacts
  <2>4. CASE DispatchNext
    <3>1. ~Requested(t) /\ ~Sending(t)
      BY <1>1, <1>2, <2>4
         DEF DispatchNext, Sending, Forwarding, RouterInv, FlightInv, OneInFlight
    <3>2. /\ queued[t] \in Seq(Messages) /\ queued[t] # <<>> /\ cur = Head(queued[t])
          /\ queued'[t] = Tail(queued[t])
      BY <1>1, <1>2, <2>4
         DEF DispatchNext, RouterInv, TypeOK, FlightInv, QueuesByThread
    <3>3. <<cur>> \o Tail(queued[t]) = queued[t]
      BY <3>2
    <3> QED
      BY <2>2, <3>1, <3>2, <3>3 DEF LaneFacts
  <2> QED
    BY <2>3, <2>4
<1>4. ASSUME NEW u \in Threads, u # t PROVE LaneOf(u)' = LaneOf(u)
  <2>1. queued'[u] = queued[u] /\ ~Sending(u) /\ ~Sending(u)'
    BY <1>1, <1>2, <1>4 DEF Dispatch, DispatchNext, Sending, RouterInv, TypeOK
  <2>2. /\ \A i \in DOMAIN reqs : i \in DOMAIN reqs' /\ reqs'[i] = reqs[i]
        /\ \A i \in DOMAIN reqs' :
             ThreadOf[reqs'[i]] = u => i \in DOMAIN reqs /\ reqs'[i] = reqs[i]
    BY <1>1, <1>2, <1>4, AppendHolds
  <2>3. CASE Requested(u)
    <3>1. PICK i \in DOMAIN reqs : ThreadOf[reqs[i]] = u
      BY <2>3 DEF Requested
    <3>2. i \in DOMAIN reqs' /\ reqs'[i] = reqs[i]
      BY <2>2
    <3>3. LaneOf(u)' = <<reqs'[i]>> \o queued'[u]
      BY <3>1, <3>2 DEF LaneFacts
    <3> QED
      BY <2>1, <3>1, <3>2, <3>3 DEF LaneFacts
  <2>4. CASE ~Requested(u)
    <3>1. ~Requested(u)'
      BY <2>2, <2>4 DEF Requested
    <3> QED
      BY <2>1, <2>4, <3>1 DEF LaneFacts
  <2> QED
    BY <2>3, <2>4
<1>5. Lanes' = Lanes
  BY <1>1, <1>2, <1>3, <1>4 DEF Lanes
<1> QED
  BY <1>1, <1>5 DEF Lane!vars, Offered

\* The worker takes the head of the lane of the oldest request.
LEMMA TakeSteps ==
  ASSUME RouterInv, LaneFacts, LaneFacts', Take
  PROVE  \E t \in Threads : Lane!Serve(t)
<1>1. /\ alive /\ alive' /\ busy = NoMsg /\ busy' = Head(reqs)
      /\ reqs \in Seq(Messages) /\ reqs # <<>> /\ reqs' = Tail(reqs)
      /\ UNCHANGED <<undelivered, queued, at, cur>>
  BY DEF Take, RouterInv, TypeOK, routerVars
<1>2. /\ 1 \in DOMAIN reqs /\ Head(reqs) = reqs[1] /\ reqs[1] \in Messages
      /\ \A i \in DOMAIN reqs' :
           i + 1 \in DOMAIN reqs /\ reqs'[i] = reqs[i + 1] /\ i + 1 # 1
      /\ \A i \in DOMAIN reqs : i = 1 \/ (i - 1 \in DOMAIN reqs' /\ reqs'[i - 1] = reqs[i])
  BY <1>1
<1>3. PICK t \in Threads : t = ThreadOf[reqs[1]]
  BY <1>2, RouterAssumption DEF RouterAssumption
<1>4. LaneOf(t) = <<reqs[1]>> \o queued[t] /\ queued[t] \in Seq(Messages)
  BY <1>2, <1>3 DEF LaneFacts
<1>5. LaneOf(t)' = queued[t]
  <2>1. ~Sending(t) /\ \A i \in DOMAIN reqs : i # 1 => ThreadOf[reqs[i]] # t
    BY <1>2, <1>3 DEF Requested, RouterInv, FlightInv, OneInFlight
  <2>2. ~Requested(t)' /\ ~Sending(t)'
    BY <1>1, <1>2, <2>1 DEF Requested, Sending
  <2> QED
    BY <1>1, <2>2 DEF LaneFacts
<1>6. LaneOf(t) # <<>> /\ Head(LaneOf(t)) = busy' /\ Tail(LaneOf(t)) = LaneOf(t)'
  <2>1. /\ <<reqs[1]>> \o queued[t] # <<>>
        /\ Head(<<reqs[1]>> \o queued[t]) = reqs[1]
        /\ Tail(<<reqs[1]>> \o queued[t]) = queued[t]
    BY <1>2, <1>4
  <2> QED
    BY <1>1, <1>2, <1>4, <1>5, <2>1
<1>7. ASSUME NEW u \in Threads, u # t PROVE LaneOf(u)' = LaneOf(u)
  <2>1. Sending(u)' <=> Sending(u)
    BY <1>1 DEF Sending
  <2>2. CASE Requested(u)
    <3>1. PICK i \in DOMAIN reqs : ThreadOf[reqs[i]] = u
      BY <2>2 DEF Requested
    <3>2. PICK j \in DOMAIN reqs' : reqs'[j] = reqs[i]
      BY <1>2, <1>3, <1>7, <3>1
    <3>3. LaneOf(u)' = <<reqs'[j]>> \o queued'[u]
      BY <3>1, <3>2 DEF LaneFacts
    <3> QED
      BY <1>1, <3>1, <3>2, <3>3 DEF LaneFacts
  <2>3. CASE ~Requested(u)
    <3>1. ~Requested(u)'
      BY <1>2, <2>3 DEF Requested
    <3>2. CASE Sending(u)
      BY <1>1, <2>1, <3>2 DEF LaneFacts
    <3>3. CASE ~Sending(u)
      BY <1>1, <2>1, <2>3, <3>1, <3>3 DEF LaneFacts
    <3> QED
      BY <3>2, <3>3
  <2> QED
    BY <2>2, <2>3
<1>8. Lanes' = [Lanes EXCEPT ![t] = Tail(@)] /\ Lanes[t] = LaneOf(t)
  BY <1>1, <1>6, <1>7 DEF Lanes
<1>9. Offered' = Offered
  BY <1>1 DEF Offered
<1> QED
  BY <1>1, <1>6, <1>8, <1>9 DEF Lane!Serve

\* The agent or the process ends.
LEMMA CrashSteps ==
  ASSUME RouterInv, LaneFacts', AgentDies \/ Restart
  PROVE  Lane!Crash
<1>1. busy' = NoMsg /\ Offered' \subseteq Offered
  BY DEF AgentDies, Restart, Offered, routerVars, BackToSelect
<1>2. Lanes' = [t \in Threads |-> <<>>]
  <2>1. CASE AgentDies
    BY <2>1 DEF AgentDies, Lanes
  <2>2. CASE Restart
    <3>1. ASSUME NEW t \in Threads PROVE LaneOf(t)' = <<>>
      BY <2>2 DEF Restart, BackToSelect, LaneFacts, Requested, Sending
    <3> QED
      BY <3>1 DEF Lanes
  <2> QED
    BY <2>1, <2>2
<1> QED
  BY <1>1, <1>2 DEF Lane!Crash

\* The steps in which no message changes its place in a lane.
LEMMA StutterSteps ==
  ASSUME RouterInv, LaneFacts, LaneFacts',
         \/ \E m \in Messages : Receive(m)
         \/ Resolve \/ Command \/ AgentEvents \/ DispatchFails
         \/ Lock \/ Emit \/ CommitTurn
         \/ StoreFails /\ at \notin {"resolve", "check"}
         \/ ReplyFails \/ Shutdown \/ UNCHANGED vars
  PROVE  UNCHANGED Lane!vars
<1> USE DEF BackToSelect, GoTo, routerVars, agentVars
<1>1. UNCHANGED busy
  BY DEF Receive, Resolve, Command, TakeSnapshot, SaveCommand, SyncCommand, Reply, Mark,
     AgentEvents, HandleProgress, Release, PeekNext, AgentClosed, DispatchFails, Lock,
     Emit, CommitTurn, StoreFails, ReplyFails, Shutdown, vars
<1>2. Offered' = Offered
  BY DEF Receive, Resolve, Command, TakeSnapshot, SaveCommand, SyncCommand, Reply, Mark,
     AgentEvents, HandleProgress, Release, PeekNext, AgentClosed, DispatchFails, Lock,
     Emit, CommitTurn, StoreFails, ReplyFails, Shutdown, vars, Offered
<1>3. Lanes' = Lanes
  <2>1. CASE DispatchFails
    BY <2>1 DEF DispatchFails, Lanes
  <2>2. CASE ~DispatchFails
    <3>1. /\ UNCHANGED <<reqs, queued, alive>>
          /\ at' = "dispatch" <=> at = "dispatch"
          /\ at = "dispatch" => cur' = cur
      BY <2>2 DEF Receive, Resolve, Command, TakeSnapshot, SaveCommand, SyncCommand, Reply,
         Mark, AgentEvents, HandleProgress, Release, PeekNext, AgentClosed, Lock, Emit,
         CommitTurn, StoreFails, ReplyFails, Shutdown, vars
    <3> QED
      BY <3>1, SameLanes
  <2> QED
    BY <2>1, <2>2
<1> QED
  BY <1>1, <1>2, <1>3 DEF Lane!vars

\* Every step of the router is a step of the lanes or leaves them alone.
LEMMA LaneStep ==
  ASSUME RouterInv, RouterInv', HandInv, LaneFacts, LaneFacts', [Next]_vars
  PROVE  [Lane!Next]_(Lane!vars)
<1>1. CASE \/ \E m \in Messages : IgnoreSeen(m)
           \/ IgnoreProcessed \/ DropMalformed \/ RefuseRunning \/ StartCommand
           \/ StoreFails /\ at \in {"resolve", "check"}
           \/ ~alive /\ (MarkPending \/ Enqueue)
  BY <1>1, IgnoreSteps DEF Lane!Next
<1>2. CASE alive /\ (MarkPending \/ Enqueue)
  BY <1>2, AcceptSteps DEF Lane!Next
<1>3. CASE Dispatch \/ DispatchNext
  BY <1>3, SendSteps
<1>4. CASE Take
  BY <1>4, TakeSteps DEF Lane!Next
<1>5. CASE Complete \/ Abandon
  <2>1. /\ busy # NoMsg /\ busy' = NoMsg
        /\ UNCHANGED <<undelivered, queued, at, cur, reqs, alive>>
    BY <1>5, RouterAssumption DEF Complete, Abandon, RouterInv, Stationed, routerVars
  <2>2. Lanes' = Lanes /\ Offered' = Offered
    BY <2>1, SameLanes DEF Offered
  <2> QED
    BY <2>1, <2>2 DEF Lane!Next, Lane!Finish
<1>6. CASE AgentDies \/ Restart
  BY <1>6, CrashSteps DEF Lane!Next
<1>7. CASE \/ \E m \in Messages : Receive(m)
           \/ Resolve \/ Command \/ AgentEvents \/ DispatchFails
           \/ Lock \/ Emit \/ CommitTurn
           \/ StoreFails /\ at \notin {"resolve", "check"}
           \/ ReplyFails \/ Shutdown \/ UNCHANGED vars
  BY <1>7, StutterSteps
<1> QED
  BY <1>1, <1>2, <1>3, <1>4, <1>5, <1>6, <1>7
     DEF Next, RouterStep, Incoming, ToAgent, AgentStep, Fault

\* Whichever of the three places a chat waits in and whatever fails, the chats of
\* a thread are served one at a time, each once and in the order in which
\* handle_incoming accepted them.
THEOREM RouterImplementsLane == Spec => ImplementsLane
<1>1. Init => Lane!Init
  <2> SUFFICES ASSUME Init PROVE Lane!Init
    OBVIOUS
  <2>1. Offered = Messages /\ busy = NoMsg
    BY DEF Init, Offered
  <2>2. ASSUME NEW t \in Threads PROVE LaneOf(t) = <<>>
    BY RouterInvInit, LaneIs DEF Init, LaneFacts, Requested, Sending
  <2> QED
    BY <2>1, <2>2 DEF Lane!Init, Lanes
<1>2. RouterInv /\ RouterInv' /\ HandInv /\ [Next]_vars => [Lane!Next]_(Lane!vars)
  <2>1. RouterInv' => LaneFacts'
    BY LaneIs, PTL
  <2> QED
    BY <2>1, LaneIs, LaneStep
<1> QED
  BY <1>1, <1>2, HandInvariant, RouterInvariant, PTL DEF Spec, ImplementsLane, Lane!Spec
=============================================================================
