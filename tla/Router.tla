------------------------------- MODULE Router -------------------------------
(***************************************************************************)
(* The ChannelRouter of src/src/router.rs: one task that multiplexes the    *)
(* channels' incoming messages and the agent worker's events, keeps one     *)
(* request per thread in the agent, and queues the others behind it.        *)
(*                                                                          *)
(* A step of the router is the code between two awaits that another task    *)
(* can observe; `at' is the await the router stands at and `cur' the        *)
(* message it handles.  The agent worker is reduced here to what the router *)
(* sees of it (AgentWorker models it, and AgentLife shows that it behaves   *)
(* as it does here), the session store to its deduplication table and to    *)
(* calls that may fail.                                                     *)
(***************************************************************************)
EXTENDS Naturals, Sequences, FiniteSets

CONSTANTS
  Threads,      \* the ThreadLocators messages resolve to
  Messages,     \* the IncomingMessages the channels deliver, each once
  Keys,         \* the external_message_ids: a redelivery shares its key
  NoKey,        \* external_message_id = None
  NoMsg,        \* no message
  ThreadOf,     \* [Messages -> Threads]
  KeyOf,        \* [Messages -> Keys \cup {NoKey}]
  KindOf,       \* [Messages -> Kinds]
  ReqCap,       \* capacity of the agent's request channel (128 in the code)
  EvCap,        \* capacity of the agent's event channel (128 in the code)
  MessageDedup, \* the builder's message_dedup_enabled
  Faults        \* the failures the environment may inject

\* "idleOnly" is a command whose handler requires_idle_thread (/clear),
\* "command" any other one, registered or not, "malformed" a bare slash.
Kinds == {"chat", "command", "idleOnly", "malformed"}

\* store, channel: a call returns Err.  abandon: the worker leaves a request
\* with an Err before it reports it complete.  agentDown: the worker's task
\* ends.  shutdown: the shutdown signal.  restart: the process is started again
\* after a crash or a shutdown.
FaultKinds ==
  {"store", "channel", "abandon", "agentDown", "shutdown", "restart"}

ASSUME RouterAssumption ==
  /\ ThreadOf \in [Messages -> Threads]
  /\ KeyOf \in [Messages -> Keys \cup {NoKey}]
  /\ KindOf \in [Messages -> Kinds]
  /\ NoMsg \notin Messages
  /\ NoKey \notin Keys
  /\ ReqCap \in Nat \ {0}
  /\ EvCap \in Nat \ {0}
  /\ MessageDedup \in BOOLEAN
  /\ Faults \subseteq FaultKinds

VARIABLES
  undelivered,  \* the messages still in the channels
  seen,         \* seen_messages: keys received by this process
  pending,      \* pending_threads
  queued,       \* queued_messages, one FIFO per thread
  at, cur,      \* where the router's task stands, and the message it handles
  reqs,         \* the request channel, router -> agent
  evs,          \* the event channel, agent -> router
  busy,         \* the request the agent handles
  stage,        \* how far it is with it
  alive,        \* the agent's task runs
  abandoned,    \* history: the threads with a request the agent gave up
  processed,    \* the store's deduplication records (persistent)
  answered      \* history: the commands whose reply went to a channel, and
                \* the chats whose finalized turn is in the store

routerVars == <<undelivered, seen, pending, queued, at, cur, answered>>
agentVars  == <<busy, stage, alive, abandoned>>
vars == <<routerVars, agentVars, reqs, evs, processed>>

Stations == {"select", "resolve", "check", "refuse", "snapshot", "save",
             "sync", "reply", "mark", "dispatch", "next", "stopped"}

\* taken: the thread's mutex is not taken yet.  locked: the turn is built
\* under it.  committed: the turn and its dedup record are in the store.
Stages == {"idle", "taken", "locked", "committed"}

EventTypes == {"progress", "completed"}
Events == [type : EventTypes, thread : Threads]

Progress(t)  == [type |-> "progress",  thread |-> t]
Completed(t) == [type |-> "completed", thread |-> t]

\* The record key (thread_id, external_message_id) of a message, as a set so
\* that a message without external id has none.
DedupKey(m) == IF KeyOf[m] = NoKey THEN {} ELSE {<<ThreadOf[m], KeyOf[m]>>}
AllDedupKeys == Threads \X Keys
-----------------------------------------------------------------------------
Init ==
  /\ undelivered = Messages
  /\ seen = {}
  /\ pending = {}
  /\ queued = [t \in Threads |-> <<>>]
  /\ at = "select" /\ cur = NoMsg
  /\ reqs = <<>> /\ evs = <<>>
  /\ busy = NoMsg /\ stage = "idle" /\ alive = TRUE
  /\ abandoned = {}
  /\ processed = {}
  /\ answered = {}

\* The handler of `cur' returns, with Ok or with an Err that is only logged.
BackToSelect == at' = "select" /\ cur' = NoMsg
GoTo(station) == at' = station /\ UNCHANGED cur
-----------------------------------------------------------------------------
(* handle_incoming *)

\* With in-process deduplication a key is accepted once per process.
IgnoreSeen(m) ==
  /\ at = "select" /\ m \in undelivered
  /\ MessageDedup /\ KeyOf[m] \in seen
  /\ undelivered' = undelivered \ {m}
  /\ UNCHANGED <<seen, pending, queued, at, cur, answered, reqs, evs, agentVars,
                 processed>>

\* Slip: the key is not remembered.
ReceiveUnseen(m) ==
  /\ at = "select" /\ m \in undelivered
  /\ ~(MessageDedup /\ KeyOf[m] \in seen)
  /\ undelivered' = undelivered \ {m}
  /\ at' = "resolve" /\ cur' = m
  /\ UNCHANGED <<seen, pending, queued, answered, reqs, evs, agentVars, processed>>

Receive(m) ==
  /\ at = "select" /\ m \in undelivered
  /\ ~(MessageDedup /\ KeyOf[m] \in seen)
  /\ undelivered' = undelivered \ {m}
  /\ seen' = IF MessageDedup /\ KeyOf[m] # NoKey
             THEN seen \cup {KeyOf[m]} ELSE seen
  /\ at' = "resolve" /\ cur' = m
  /\ UNCHANGED <<pending, queued, answered, reqs, evs, agentVars, processed>>

\* load_or_create_thread.
Resolve ==
  /\ at = "resolve"
  /\ GoTo("check")
  /\ UNCHANGED <<undelivered, seen, pending, queued, answered, reqs, evs,
                 agentVars, processed>>

\* is_external_message_processed.
IgnoreProcessed ==
  /\ at = "check"
  /\ DedupKey(cur) \cap processed # {}
  /\ BackToSelect
  /\ UNCHANGED <<undelivered, seen, pending, queued, answered, reqs, evs,
                 agentVars, processed>>

Fresh(kinds) ==
  /\ at = "check"
  /\ DedupKey(cur) \cap processed = {}
  /\ KindOf[cur] \in kinds

\* is_command fails on a bare slash: the message is dropped.
DropMalformed ==
  /\ Fresh({"malformed"})
  /\ BackToSelect
  /\ UNCHANGED <<undelivered, seen, pending, queued, answered, reqs, evs,
                 agentVars, processed>>

\* running_thread_reply answers an idle-only command of a pending thread.
RefuseRunning ==
  /\ Fresh({"idleOnly"})
  /\ ThreadOf[cur] \in pending
  /\ GoTo("refuse")
  /\ UNCHANGED <<undelivered, seen, pending, queued, answered, reqs, evs,
                 agentVars, processed>>

\* Slip: an idle-only command starts on a pending thread too.
StartCommandUnchecked ==
  /\ Fresh({"command", "idleOnly"})
  /\ GoTo("snapshot")
  /\ UNCHANGED <<undelivered, seen, pending, queued, answered, reqs, evs,
                 agentVars, processed>>

StartCommand ==
  /\ Fresh({"command", "idleOnly"})
  /\ ~(KindOf[cur] = "idleOnly" /\ ThreadOf[cur] \in pending)
  /\ GoTo("snapshot")
  /\ UNCHANGED <<undelivered, seen, pending, queued, answered, reqs, evs,
                 agentVars, processed>>

\* Slips: the mark is not looked at, or not set.
MarkPendingUnchecked ==
  /\ Fresh({"chat"})
  /\ pending' = pending \cup {ThreadOf[cur]}
  /\ GoTo("dispatch")
  /\ UNCHANGED <<undelivered, seen, queued, answered, reqs, evs, agentVars,
                 processed>>

MarkPendingForgotten ==
  /\ Fresh({"chat"})
  /\ ThreadOf[cur] \notin pending
  /\ GoTo("dispatch")
  /\ UNCHANGED <<undelivered, seen, pending, queued, answered, reqs, evs,
                 agentVars, processed>>

\* try_mark_thread_pending inserts the locator: the message goes to the agent.
MarkPending ==
  /\ Fresh({"chat"})
  /\ ThreadOf[cur] \notin pending
  /\ pending' = pending \cup {ThreadOf[cur]}
  /\ GoTo("dispatch")
  /\ UNCHANGED <<undelivered, seen, queued, answered, reqs, evs, agentVars,
                 processed>>

\* try_mark_thread_pending finds it there: enqueue_message.
Enqueue ==
  /\ Fresh({"chat"})
  /\ ThreadOf[cur] \in pending
  /\ queued' = [queued EXCEPT ![ThreadOf[cur]] = Append(@, cur)]
  /\ BackToSelect
  /\ UNCHANGED <<undelivered, seen, pending, answered, reqs, evs, agentVars,
                 processed>>
-----------------------------------------------------------------------------
(* The command path of handle_incoming *)

\* The worker holds the thread's mutex from there to the end of the request.
ThreadLocked(t) ==
  stage \in {"locked", "committed"} /\ ThreadOf[busy] = t

\* load_thread_context clones the thread under its mutex.
TakeSnapshot ==
  /\ at = "snapshot"
  /\ ~ThreadLocked(ThreadOf[cur])
  /\ GoTo("save")
  /\ UNCHANGED <<undelivered, seen, pending, queued, answered, reqs, evs,
                 agentVars, processed>>

\* store_thread_context: the compare-and-swap in the store ...
SaveCommand ==
  /\ at = "save"
  /\ GoTo("sync")
  /\ UNCHANGED <<undelivered, seen, pending, queued, answered, reqs, evs,
                 agentVars, processed>>

\* ... and the copy to the cached thread, under its mutex.
SyncCommand ==
  /\ at = "sync"
  /\ ~ThreadLocked(ThreadOf[cur])
  /\ GoTo("reply")
  /\ UNCHANGED <<undelivered, seen, pending, queued, answered, reqs, evs,
                 agentVars, processed>>

\* dispatch_command_reply, for an executed and for a refused command.
Reply ==
  /\ at \in {"reply", "refuse"}
  /\ answered' = answered \cup {cur}
  /\ IF KeyOf[cur] = NoKey THEN BackToSelect ELSE GoTo("mark")
  /\ UNCHANGED <<undelivered, seen, pending, queued, reqs, evs, agentVars,
                 processed>>

\* mark_external_message_processed.
Mark ==
  /\ at = "mark"
  /\ processed' = processed \cup DedupKey(cur)
  /\ BackToSelect
  /\ UNCHANGED <<undelivered, seen, pending, queued, answered, reqs, evs,
                 agentVars>>

\* A session call of handle_incoming returns Err: the handler ends there.  A
\* revision conflict of the save is such an Err.
StoreFails ==
  /\ "store" \in Faults
  /\ at \in {"resolve", "check", "snapshot", "save", "mark"}
  /\ BackToSelect
  /\ UNCHANGED <<undelivered, seen, pending, queued, answered, reqs, evs,
                 agentVars, processed>>

\* Slip: the failure is logged and the message marked all the same.
ReplyFailsMarked ==
  /\ "channel" \in Faults
  /\ at \in {"reply", "refuse"}
  /\ IF KeyOf[cur] = NoKey THEN BackToSelect ELSE GoTo("mark")
  /\ UNCHANGED <<undelivered, seen, pending, queued, answered, reqs, evs,
                 agentVars, processed>>

\* dispatch_outgoing returns Err: the reply is not sent and nothing is marked.
ReplyFails ==
  /\ "channel" \in Faults
  /\ at \in {"reply", "refuse"}
  /\ BackToSelect
  /\ UNCHANGED <<undelivered, seen, pending, queued, answered, reqs, evs,
                 agentVars, processed>>
-----------------------------------------------------------------------------
(* dispatch_to_agent, handle_agent_event and release_or_dispatch_next *)

\* Slip: the router waits until the agent has nothing else to do.
DispatchToIdleAgent ==
  /\ at = "dispatch" /\ alive
  /\ reqs = <<>> /\ busy = NoMsg
  /\ reqs' = Append(reqs, cur)
  /\ BackToSelect
  /\ UNCHANGED <<undelivered, seen, pending, queued, answered, evs, agentVars,
                 processed>>

\* agent_tx.send waits for room in the channel.
Dispatch ==
  /\ at = "dispatch" /\ alive
  /\ Len(reqs) < ReqCap
  /\ reqs' = Append(reqs, cur)
  /\ BackToSelect
  /\ UNCHANGED <<undelivered, seen, pending, queued, answered, evs, agentVars,
                 processed>>

\* agent_tx.send fails once the agent is gone: the mark is taken back.  In
\* release_or_dispatch_next the queue then keeps its head.
DispatchFails ==
  /\ at \in {"dispatch", "next"} /\ ~alive
  /\ pending' = pending \ {ThreadOf[cur]}
  /\ BackToSelect
  /\ UNCHANGED <<undelivered, seen, queued, answered, reqs, evs, agentVars,
                 processed>>

\* MessageCommitted and TurnFinalized only go to a channel or to the log.
HandleProgress ==
  /\ at = "select" /\ evs # <<>> /\ Head(evs).type = "progress"
  /\ evs' = Tail(evs)
  /\ UNCHANGED <<routerVars, reqs, agentVars, processed>>

\* Slips: the thread is released although a message waits, or never.
ReleaseUnchecked ==
  /\ at = "select" /\ evs # <<>> /\ Head(evs).type = "completed"
  /\ evs' = Tail(evs)
  /\ pending' = pending \ {Head(evs).thread}
  /\ UNCHANGED <<undelivered, seen, queued, at, cur, answered, reqs, agentVars,
                 processed>>

ReleaseForgotten ==
  /\ at = "select" /\ evs # <<>> /\ Head(evs).type = "completed"
  /\ queued[Head(evs).thread] = <<>>
  /\ evs' = Tail(evs)
  /\ UNCHANGED <<routerVars, reqs, agentVars, processed>>

\* RequestCompleted with nothing queued releases the thread ...
Release ==
  /\ at = "select" /\ evs # <<>> /\ Head(evs).type = "completed"
  /\ queued[Head(evs).thread] = <<>>
  /\ evs' = Tail(evs)
  /\ pending' = pending \ {Head(evs).thread}
  /\ UNCHANGED <<undelivered, seen, queued, at, cur, answered, reqs, agentVars,
                 processed>>

\* ... and otherwise clones the front of its queue,
PeekNext ==
  /\ at = "select" /\ evs # <<>> /\ Head(evs).type = "completed"
  /\ queued[Head(evs).thread] # <<>>
  /\ evs' = Tail(evs)
  /\ at' = "next" /\ cur' = Head(queued[Head(evs).thread])
  /\ UNCHANGED <<undelivered, seen, pending, queued, answered, reqs, agentVars,
                 processed>>

\* Slip: the message is sent and stays in the queue.
DispatchNextUnpopped ==
  /\ at = "next" /\ alive
  /\ Len(reqs) < ReqCap
  /\ reqs' = Append(reqs, cur)
  /\ BackToSelect
  /\ UNCHANGED <<undelivered, seen, pending, queued, answered, evs, agentVars,
                 processed>>

\* sends it to the agent and only then pops it.
DispatchNext ==
  /\ at = "next" /\ alive
  /\ Len(reqs) < ReqCap
  /\ reqs' = Append(reqs, cur)
  /\ queued' = [queued EXCEPT ![ThreadOf[cur]] = Tail(@)]
  /\ BackToSelect
  /\ UNCHANGED <<undelivered, seen, pending, answered, evs, agentVars, processed>>

\* agent_event_rx.recv returns None: run_until_shutdown ends with an error.
AgentClosed ==
  /\ at = "select" /\ ~alive /\ evs = <<>>
  /\ at' = "stopped"
  /\ UNCHANGED <<undelivered, seen, pending, queued, cur, answered, reqs, evs,
                 agentVars, processed>>
-----------------------------------------------------------------------------
(* The agent worker, as the router sees it *)

\* Slip: the request is recorded with its user message.
TakeRecorded ==
  /\ alive /\ busy = NoMsg /\ reqs # <<>>
  /\ busy' = Head(reqs) /\ stage' = "taken"
  /\ reqs' = Tail(reqs)
  /\ processed' = processed \cup DedupKey(Head(reqs))
  /\ UNCHANGED <<routerVars, evs, alive, abandoned>>

Take ==
  /\ alive /\ busy = NoMsg /\ reqs # <<>>
  /\ busy' = Head(reqs) /\ stage' = "taken"
  /\ reqs' = Tail(reqs)
  /\ UNCHANGED <<routerVars, evs, alive, abandoned, processed>>

\* lock_thread_context.
Lock ==
  /\ stage = "taken"
  /\ stage' = "locked"
  /\ UNCHANGED <<routerVars, reqs, evs, busy, alive, abandoned, processed>>

\* Slip: the event channel is unbounded.
EmitUnbounded ==
  /\ stage \in {"locked", "committed"}
  /\ evs' = Append(evs, Progress(ThreadOf[busy]))
  /\ UNCHANGED <<routerVars, reqs, agentVars, processed>>

\* event_tx.send of a MessageCommitted or a TurnFinalized waits for room in
\* the channel.
Emit ==
  /\ stage \in {"locked", "committed"} /\ Len(evs) < EvCap
  /\ evs' = Append(evs, Progress(ThreadOf[busy]))
  /\ UNCHANGED <<routerVars, reqs, agentVars, processed>>

\* commit_finalized_turn_locked stores the finalized turn, and with it the
\* deduplication record.
CommitTurn ==
  /\ stage = "locked"
  /\ stage' = "committed"
  /\ processed' = processed \cup DedupKey(busy)
  /\ answered' = answered \cup {busy}
  /\ UNCHANGED <<undelivered, seen, pending, queued, at, cur, reqs, evs, busy,
                 alive, abandoned>>

\* Slip: the request ends without its RequestCompleted.
CompleteSilently ==
  /\ stage = "committed"
  /\ busy' = NoMsg /\ stage' = "idle"
  /\ UNCHANGED <<routerVars, reqs, evs, alive, abandoned, processed>>

Complete ==
  /\ stage = "committed" /\ Len(evs) < EvCap
  /\ evs' = Append(evs, Completed(ThreadOf[busy]))
  /\ busy' = NoMsg /\ stage' = "idle"
  /\ UNCHANGED <<routerVars, reqs, alive, abandoned, processed>>

\* handle_request returns an Err before the turn is committed: nothing more
\* is reported of this request.
Abandon ==
  /\ "abandon" \in Faults
  /\ stage \in {"taken", "locked"}
  /\ busy' = NoMsg /\ stage' = "idle"
  /\ abandoned' = abandoned \cup {ThreadOf[busy]}
  /\ UNCHANGED <<routerVars, reqs, evs, alive, processed>>

\* The worker's task ends and drops its ends of the two channels.
AgentDies ==
  /\ "agentDown" \in Faults /\ alive
  /\ alive' = FALSE
  /\ busy' = NoMsg /\ stage' = "idle"
  /\ reqs' = <<>>
  /\ UNCHANGED <<routerVars, evs, abandoned, processed>>
-----------------------------------------------------------------------------
\* The shutdown future resolves: run_until_shutdown returns Ok.
Shutdown ==
  /\ "shutdown" \in Faults /\ at = "select"
  /\ at' = "stopped"
  /\ UNCHANGED <<undelivered, seen, pending, queued, cur, answered, reqs, evs,
                 agentVars, processed>>

\* The process crashes: only the store survives.
Restart ==
  /\ "restart" \in Faults
  /\ seen' = {}
  /\ pending' = {}
  /\ queued' = [t \in Threads |-> <<>>]
  /\ BackToSelect
  /\ reqs' = <<>> /\ evs' = <<>>
  /\ busy' = NoMsg /\ stage' = "idle" /\ alive' = TRUE
  /\ abandoned' = {}
  /\ UNCHANGED <<undelivered, processed, answered>>

Incoming ==
  \/ \E m \in Messages : IgnoreSeen(m) \/ Receive(m)
  \/ Resolve \/ IgnoreProcessed \/ DropMalformed \/ RefuseRunning
  \/ StartCommand \/ MarkPending \/ Enqueue

Command == TakeSnapshot \/ SaveCommand \/ SyncCommand \/ Reply \/ Mark

AgentEvents ==
  HandleProgress \/ Release \/ PeekNext \/ AgentClosed

ToAgent == Dispatch \/ DispatchFails \/ DispatchNext

RouterStep == Incoming \/ Command \/ AgentEvents \/ ToAgent

AgentStep == Take \/ Lock \/ Emit \/ CommitTurn \/ Complete

Fault ==
  StoreFails \/ ReplyFails \/ Abandon \/ AgentDies \/ Shutdown \/ Restart

Next == RouterStep \/ AgentStep \/ Fault

Spec == Init /\ [][Next]_vars

\* The router's task is polled as long as it can go on; select! polls its two
\* receivers in random order, so neither starves.  A turn of the agent ends:
\* it commits, and it goes on to report as often as its channel has room.
Fairness ==
  /\ WF_vars(Command \/ ToAgent)
  /\ WF_vars(Resolve \/ IgnoreProcessed \/ DropMalformed \/ RefuseRunning
             \/ StartCommand \/ MarkPending \/ Enqueue)
  /\ SF_vars(AgentEvents)
  /\ \A m \in Messages : SF_vars(IgnoreSeen(m) \/ Receive(m))
  /\ WF_vars(Take) /\ WF_vars(Lock) /\ WF_vars(CommitTurn) /\ SF_vars(Complete)

FairSpec == Spec /\ Fairness
-----------------------------------------------------------------------------
(* Properties *)

\* Every variable has its type.
TypeOK ==
  /\ undelivered \subseteq Messages
  /\ seen \subseteq Keys
  /\ pending \subseteq Threads
  /\ queued \in [Threads -> Seq(Messages)]
  /\ at \in Stations
  /\ cur \in Messages \cup {NoMsg}
  /\ reqs \in Seq(Messages) /\ Len(reqs) <= ReqCap
  /\ evs \in Seq(Events) /\ Len(evs) <= EvCap
  /\ busy \in Messages \cup {NoMsg}
  /\ stage \in Stages
  /\ alive \in BOOLEAN
  /\ abandoned \subseteq Threads
  /\ processed \subseteq AllDedupKeys
  /\ answered \subseteq Messages

\* The five places a request of a thread can be in between the moment the
\* thread is marked pending and the moment the router learns of its end.
Requested(t)   == \E i \in DOMAIN reqs : ThreadOf[reqs[i]] = t
Running(t)     == busy # NoMsg /\ ThreadOf[busy] = t
Reported(t)    == \E i \in DOMAIN evs : evs[i] = Completed(t)
Sending(t)     == at = "dispatch" /\ ThreadOf[cur] = t
Forwarding(t)  == at = "next" /\ ThreadOf[cur] = t
InFlight(t)    == \/ Requested(t) \/ Running(t) \/ Reported(t)
                  \/ Sending(t) \/ Forwarding(t)

\* A thread has at most one request in flight, whatever fails: the places
\* exclude each other, and none holds two requests of a thread.  This is what
\* pending_threads is for: the worker never finds a second request of a thread
\* whose first one the router has not seen completed.
OneInFlight ==
  /\ \A i, j \in DOMAIN reqs :
       ThreadOf[reqs[i]] = ThreadOf[reqs[j]] => i = j
  /\ \A i, j \in DOMAIN evs :
       evs[i].type = "completed" /\ evs[i] = evs[j] => i = j
  /\ \A t \in Threads :
       /\ Requested(t) => ~(Running(t) \/ Reported(t) \/ Sending(t) \/ Forwarding(t))
       /\ Running(t)   => ~(Reported(t) \/ Sending(t) \/ Forwarding(t))
       /\ Reported(t)  => ~(Sending(t) \/ Forwarding(t))

\* A message waits in queued_messages only behind a pending thread: no queue is
\* left that no RequestCompleted will ever look at.  (Once the agent is gone a
\* failed dispatch takes the mark back and leaves the queue, and the router is
\* about to stop.)
QueuedBehindPending ==
  alive => \A t \in Threads : queued[t] # <<>> => t \in pending

\* A pending thread has its request in flight, unless the worker gave one of its
\* requests up: no thread is pending with nobody left to release it.
PendingHasOwner ==
  alive => \A t \in pending : InFlight(t) \/ t \in abandoned

\* With no more threads than the request channel has room for, the router never
\* waits for room there: the worker, that may itself be waiting for room in the
\* event channel, is never waited for.
RequestNeverBlocks ==
  Cardinality(Threads) <= ReqCap /\ at \in {"dispatch", "next"} =>
    Len(reqs) < ReqCap

\* While an idle-only command rewrites a thread, from the snapshot of the thread
\* to the copy to the cache, the agent has no request of that thread and gets
\* none: /clear does not race with a turn.
ClearIsExclusive ==
  at \in {"snapshot", "save", "sync"} /\ KindOf[cur] = "idleOnly" =>
    ThreadOf[cur] \notin pending /\ ~InFlight(ThreadOf[cur])

\* A deduplication record is never ahead of what it records: a message with that
\* key was answered, a command or a refused one by the reply that went to its
\* channel, a chat by the finalized turn that is in the store.  Nothing is recorded
\* on reception, on the way to the agent or for a turn that was given up, also when
\* the process crashes or a call fails in between.
RecordedOnlyIfAnswered ==
  \A k \in processed : \E m \in answered : k \in DedupKey(m)

\* The worker never starts a request whose key already has a record.  (The
\* record is looked up when the message arrives, not when it leaves the queue.)
NoReprocess ==
  [][busy' # busy /\ busy' # NoMsg => DedupKey(busy') \cap processed = {}]_vars

\* A message that is queued behind its thread, or about to be sent, gets to the
\* worker.
Accepted(m) ==
  \/ at \in {"dispatch", "next"} /\ cur = m
  \/ \E i \in DOMAIN queued[ThreadOf[m]] : queued[ThreadOf[m]][i] = m
AcceptedIsServed == \A m \in Messages : Accepted(m) ~> (busy = m)

\* A pending thread is released: after its last queued message it takes idle-only
\* commands again.
ThreadReleased == \A t \in Threads : (t \in pending) ~> (t \notin pending)

\* The router comes back to its select! from everything it handles.
RouterReturns == (at # "select") ~> (at = "select")
=============================================================================
