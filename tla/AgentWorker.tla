---------------------------- MODULE AgentWorker ----------------------------
(***************************************************************************)
(* The agent worker (src/src/agent/worker.rs) driving the agent loop        *)
(* (agent/agent_loop.rs) over one thread (thread.rs), against the router's  *)
(* slash commands on the same thread and the revisions of the store.        *)
(*                                                                          *)
(* A step is the code between two awaits at which the store or the router   *)
(* can act: `pc' is the await the worker stands at.  Messages keep what the *)
(* properties tell apart: their role, the request and the tool call they    *)
(* belong to.  The budget that triggers a compaction is abstracted to a     *)
(* choice.  The channels' capacities are the subject of Router.             *)
(***************************************************************************)
EXTENDS Naturals, Sequences, SequencesExt, Filtering

CONSTANTS
  Requests,     \* the AgentRequests the router dispatches, each once
  NoReq,        \* no request
  Calls,        \* the tool calls a turn may make
  CompactCalls, \* those of the `compact' tool
  NoCall,       \* no tool call
  MaxRounds,    \* bound on the LLM responses of a turn that call tools
  MaxCalls,     \* bound on the tool calls of an LLM response
  Commands,     \* the slash commands the router handles, each once
  ClearCommands,\* those that are /clear
  NoCmd,        \* no command
  Faults        \* the failures the environment may inject

\* store: a call of the store returns Err.  prompt: a feature prompt cannot be
\* built.  hook: a hook other than PreCompact fails.  llm: no usable response.
\* compact: the preparation of a request or a compaction fails.  crash: the
\* process restarts and only the store survives.
FaultKinds == {"store", "prompt", "hook", "llm", "compact", "crash"}

ASSUME WorkerAssumption ==
  /\ NoReq \notin Requests
  /\ NoCall \notin Calls
  /\ NoCmd \notin Commands
  /\ CompactCalls \subseteq Calls
  /\ ClearCommands \subseteq Commands
  /\ MaxRounds \in Nat /\ MaxCalls \in Nat
  /\ Faults \subseteq FaultKinds

VARIABLES
  requests,  \* the requests still to be dispatched
  pending,   \* the request whose RequestCompleted the router waits for
  pc, req,   \* where the worker stands, and the request it handles
  phase,     \* what kind of message commit_message is committing
  calls,     \* tool calls whose message is still to be committed
  tools,     \* tool calls still to be executed
  round,     \* LLM responses of the turn that called tools
  thread,    \* the cached Thread: its revision, messages and open turn
  store,     \* the stored thread and its deduplication records (persistent)
  sent,      \* the events sent for the current request
  answered,  \* the requests whose last text went to the router
  commands,  \* the commands still to come
  cmd, cmdAt,\* the command the router handles, and where it stands
  copy       \* the snapshot of the thread that the command works on

loopVars == <<phase, calls, tools, round>>
sentVars == <<sent, answered>>
commandVars == <<commands, cmd, cmdAt, copy>>
vars == <<requests, pending, pc, req, loopVars, thread, store, sentVars,
          commandVars>>

Stations == {"idle", "lock", "init", "initSave", "begin", "save", "send", "loop",
             "generate", "tool", "notify", "finalSave", "finalSend", "complete",
             "hard"}
Phases == {"user", "text", "call", "result", "final", "failure", "fallback"}
Roles == {"system", "user", "text", "call", "result", "error", "summary",
          "continue"}

Msg(role, r, c) == [role |-> role, req |-> r, call |-> c]
System == Msg("system", NoReq, NoCall)
MessagesOf(roles) ==
  [role : roles, req : Requests \cup {NoReq}, call : Calls \cup {NoCall}]
Messages == MessagesOf(Roles)

Event(type, r, m) == [type |-> type, req |-> r, msg |-> m]
NoMessage == Msg("system", NoReq, NoCall)
EventTypes == {"message", "finalized", "completed"}
-----------------------------------------------------------------------------
NoCopy == [rev |-> 0, msgs |-> <<>>, turn |-> NoReq]

\* The locals of handle_request and of the command path end with them.
Idle == pc' = "idle" /\ req' = NoReq
        /\ phase' = "user" /\ calls' = <<>> /\ tools' = <<>> /\ round' = 0
CommandDone == cmdAt' = "idle" /\ cmd' = NoCmd /\ copy' = NoCopy

Init ==
  /\ requests = Requests /\ pending = NoReq
  /\ pc = "idle" /\ req = NoReq
  /\ phase = "user" /\ calls = <<>> /\ tools = <<>> /\ round = 0
  /\ thread = [rev |-> 0, msgs |-> <<>>, turn |-> NoReq]
  /\ store = [rev |-> 0, msgs |-> <<>>, dedup |-> {}]
  /\ sent = <<>> /\ answered = {}
  /\ commands = Commands /\ cmd = NoCmd /\ cmdAt = "idle"
  /\ copy = NoCopy

\* The worker holds the thread's mutex from `init' to the end of the request.
Locked == pc \notin {"idle", "lock"}

\* The compare-and-swap of save_thread_context.
Current(snapshot) == snapshot.rev = store.rev

Saved(snapshot, records) ==
  [rev |-> store.rev + 1, msgs |-> snapshot.msgs, dedup |-> store.dedup \cup records]

\* A save fails on a stale revision, or because the backend does.
SaveMayFail(snapshot) == ~Current(snapshot) \/ "store" \in Faults

\* Slip: the event goes out before the message is saved.
CommitUnsaved(kind, m) ==
  /\ thread' = [thread EXCEPT !.msgs = Append(@, m)]
  /\ phase' = kind
  /\ pc' = "send"

\* append_message; commit_message goes on with the save.
Commit(kind, m) ==
  /\ thread' = [thread EXCEPT !.msgs = Append(@, m)]
  /\ phase' = kind
  /\ pc' = "save"

ErrorText == Msg("error", req, NoCall)

\* An Err inside the loop's async block becomes the turn's failure message.
Caught == Commit("failure", ErrorText)
-----------------------------------------------------------------------------
(* handle_request up to the first message of the turn *)

\* dispatch_to_agent.  The router is one task: it handles no command then.
Dispatch(r) ==
  /\ pc = "idle" /\ pending = NoReq /\ cmdAt = "idle"
  /\ r \in requests
  /\ requests' = requests \ {r}
  /\ pending' = r /\ req' = r /\ pc' = "lock"
  /\ sent' = <<>>
  /\ UNCHANGED <<loopVars, thread, store, answered, commandVars>>

\* lock_thread_context finds the handle the router has cached.
Lock ==
  /\ pc = "lock"
  /\ pc' = "init"
  /\ UNCHANGED <<requests, pending, req, loopVars, thread, store, sentVars,
                 commandVars>>

\* initialize_thread writes the system prefix of an empty thread.
Initialize ==
  /\ pc = "init"
  /\ IF thread.msgs = <<>>
     THEN thread' = [thread EXCEPT !.msgs = <<System>>] /\ pc' = "initSave"
     ELSE pc' = "begin" /\ UNCHANGED thread
  /\ UNCHANGED <<requests, pending, req, loopVars, store, sentVars, commandVars>>

SaveInitialized ==
  /\ pc = "initSave" /\ Current(thread)
  /\ store' = Saved(thread, {})
  /\ thread' = [thread EXCEPT !.rev = store.rev + 1]
  /\ pc' = "begin"
  /\ UNCHANGED <<requests, pending, req, loopVars, sentVars, commandVars>>

\* begin_turn, then the user's message.
BeginTurn ==
  /\ pc = "begin" /\ thread.turn = NoReq
  /\ thread' = [thread EXCEPT !.msgs = Append(@, Msg("user", req, NoCall)),
                              !.turn = req]
  /\ phase' = "user" /\ pc' = "save"
  /\ UNCHANGED <<requests, pending, req, calls, tools, round, store, sentVars,
                 commandVars>>

\* The UserPromptSubmit hook fails, or the thread owns an unfinished turn.
BeginFails ==
  /\ pc = "begin"
  /\ "hook" \in Faults \/ thread.turn # NoReq
  /\ pc' = "hard"
  /\ UNCHANGED <<requests, pending, req, loopVars, thread, store, sentVars,
                 commandVars>>
-----------------------------------------------------------------------------
(* commit_message: the save, then the event *)

\* Slip: the request is recorded as processed with its first message.
SaveRecorded ==
  /\ pc = "save" /\ Current(thread)
  /\ store' = Saved(thread, {req})
  /\ thread' = [thread EXCEPT !.rev = store.rev + 1]
  /\ pc' = "send"
  /\ UNCHANGED <<requests, pending, req, loopVars, sentVars, commandVars>>

Save ==
  /\ pc = "save" /\ Current(thread)
  /\ store' = Saved(thread, {})
  /\ thread' = [thread EXCEPT !.rev = store.rev + 1]
  /\ pc' = "send"
  /\ UNCHANGED <<requests, pending, req, loopVars, sentVars, commandVars>>

SendMessage ==
  sent' = Append(sent, Event("message", req, Last(thread.msgs)))

\* Slip: the model is asked again after every tool result.
SendThenLoopEarly ==
  /\ pc = "send" /\ phase \in {"user", "result"}
  /\ SendMessage
  /\ pc' = "loop"
  /\ UNCHANGED <<requests, pending, req, loopVars, thread, store, answered,
                 commandVars>>

\* After the user's message and after the last tool result.
SendThenLoop ==
  /\ pc = "send"
  /\ phase = "user" \/ (phase = "result" /\ tools = <<>>)
  /\ SendMessage
  /\ pc' = "loop"
  /\ UNCHANGED <<requests, pending, req, loopVars, thread, store, answered,
                 commandVars>>

\* The messages of all tool calls of a response precede the first execution.
SendThenCall ==
  /\ pc = "send" /\ phase \in {"text", "call"} /\ calls # <<>>
  /\ SendMessage
  /\ Commit("call", Msg("call", req, Head(calls)))
  /\ calls' = Tail(calls)
  /\ UNCHANGED <<requests, pending, req, tools, round, store, answered,
                 commandVars>>

SendThenTool ==
  /\ pc = "send"
  /\ (phase = "call" /\ calls = <<>>) \/ (phase = "result" /\ tools # <<>>)
  /\ SendMessage
  /\ pc' = "tool"
  /\ UNCHANGED <<requests, pending, req, loopVars, thread, store, answered,
                 commandVars>>

\* Slip: the turn stays open.
SendThenFinalizeOpen ==
  /\ pc = "send" /\ phase \in {"final", "failure", "fallback"}
  /\ SendMessage
  /\ answered' = answered \cup {req}
  /\ pc' = IF phase = "fallback" THEN "finalSave" ELSE "notify"
  /\ UNCHANGED <<requests, pending, req, loopVars, thread, store, commandVars>>

\* The last message of a turn: finalize_turn closes it.  The fallback of
\* handle_request has no Notification hook.
SendThenFinalize ==
  /\ pc = "send" /\ phase \in {"final", "failure", "fallback"}
  /\ SendMessage
  /\ answered' = answered \cup {req}
  /\ thread' = [thread EXCEPT !.turn = NoReq]
  /\ pc' = IF phase = "fallback" THEN "finalSave" ELSE "notify"
  /\ UNCHANGED <<requests, pending, req, loopVars, store, commandVars>>
-----------------------------------------------------------------------------
(* The iterations of run_live_thread *)

\* Slip: the system prefix is summarised too.
CompactedWhole(msgs) ==
  <<Msg("summary", NoReq, NoCall), Msg("continue", NoReq, NoCall)>>

\* compact_messages summarises every message but the system prefix, and
\* replace_messages_after_compaction puts two messages in their place.
Compacted(msgs) ==
  Filter(msgs, MessagesOf({"system"}))
  \o <<Msg("summary", NoReq, NoCall), Msg("continue", NoReq, NoCall)>>

\* The budget is within its threshold, or it is not and the history is
\* compacted first.  (The user's message makes it compactable.)
Prepare ==
  /\ pc = "loop"
  /\ \/ UNCHANGED thread
     \/ thread' = [thread EXCEPT !.msgs = Compacted(@)]
  /\ pc' = "generate"
  /\ UNCHANGED <<requests, pending, req, loopVars, store, sentVars, commandVars>>

\* These errors leave run_live_thread with the turn open.
PrepareFails ==
  /\ pc = "loop" /\ "compact" \in Faults
  /\ pc' = "hard"
  /\ UNCHANGED <<requests, pending, req, loopVars, thread, store, sentVars,
                 commandVars>>

GenerateText ==
  /\ pc = "generate"
  /\ Commit("final", Msg("text", req, NoCall))
  /\ UNCHANGED <<requests, pending, req, calls, tools, round, store, sentVars,
                 commandVars>>

\* The calls of a response, with or without a text before them (which the first
\* call identifies).
GenerateCalls(cs, withText) ==
  /\ pc = "generate" /\ round < MaxRounds
  /\ cs # <<>>
  /\ IF withText
     THEN Commit("text", Msg("text", req, Head(cs))) /\ calls' = cs
     ELSE Commit("call", Msg("call", req, Head(cs))) /\ calls' = Tail(cs)
  /\ tools' = cs
  /\ round' = round + 1
  /\ UNCHANGED <<requests, pending, req, store, sentVars, commandVars>>

GenerateFails ==
  /\ pc = "generate" /\ "llm" \in Faults
  /\ Caught
  /\ UNCHANGED <<requests, pending, req, calls, tools, round, store, sentVars,
                 commandVars>>

Result(c) == Msg("result", req, c)

\* A tool that fails has its error as result.
RunTool ==
  /\ pc = "tool" /\ Head(tools) \notin CompactCalls
  /\ Commit("result", Result(Head(tools)))
  /\ tools' = Tail(tools)
  /\ UNCHANGED <<requests, pending, req, calls, round, store, sentVars,
                 commandVars>>

\* handle_model_requested_compact, then the result; a failed compaction has
\* the error as result.
RunCompact ==
  /\ pc = "tool" /\ Head(tools) \in CompactCalls
  /\ \/ thread' = [thread EXCEPT !.msgs = Append(Compacted(@), Result(Head(tools)))]
     \/ /\ "compact" \in Faults
        /\ thread' = [thread EXCEPT !.msgs = Append(@, Result(Head(tools)))]
  /\ phase' = "result" /\ pc' = "save"
  /\ tools' = Tail(tools)
  /\ UNCHANGED <<requests, pending, req, calls, round, store, sentVars,
                 commandVars>>

\* The PreToolUse hook fails, or a PostToolUse hook, after the compaction.
ToolHookFails ==
  /\ pc = "tool" /\ "hook" \in Faults
  /\ \/ Caught
     \/ /\ Head(tools) \in CompactCalls
        /\ thread' = [thread EXCEPT !.msgs = Append(Compacted(@), ErrorText)]
        /\ phase' = "failure" /\ pc' = "save"
  /\ UNCHANGED <<requests, pending, req, calls, tools, round, store, sentVars,
                 commandVars>>

\* The save of a message the async block commits fails.
SaveCaught ==
  /\ pc = "save" /\ phase \in {"text", "call", "result", "final"}
  /\ SaveMayFail(thread)
  /\ Caught
  /\ UNCHANGED <<requests, pending, req, calls, tools, round, store, sentVars,
                 commandVars>>

\* The save of a message committed outside of it fails.
SaveEscapes ==
  /\ pc = "save" /\ phase \in {"user", "failure"}
  /\ SaveMayFail(thread)
  /\ pc' = "hard"
  /\ UNCHANGED <<requests, pending, req, loopVars, thread, store, sentVars,
                 commandVars>>
-----------------------------------------------------------------------------
(* The end of handle_request *)

Notify ==
  /\ pc = "notify"
  /\ pc' = "finalSave"
  /\ UNCHANGED <<requests, pending, req, loopVars, thread, store, sentVars,
                 commandVars>>

NotifyFails ==
  /\ pc = "notify" /\ "hook" \in Faults
  /\ pc' = "hard"
  /\ UNCHANGED <<requests, pending, req, loopVars, thread, store, sentVars,
                 commandVars>>

\* Slips: no TurnFinalized is sent, or no record is stored.
SaveFinalizedQuietly ==
  /\ pc = "finalSave" /\ Current(thread)
  /\ store' = Saved(thread, {req})
  /\ thread' = [thread EXCEPT !.rev = store.rev + 1]
  /\ pc' = "complete"
  /\ UNCHANGED <<requests, pending, req, loopVars, sentVars, commandVars>>

SaveFinalizedUnrecorded ==
  /\ pc = "finalSave" /\ Current(thread)
  /\ store' = Saved(thread, {})
  /\ thread' = [thread EXCEPT !.rev = store.rev + 1]
  /\ pc' = "finalSend"
  /\ UNCHANGED <<requests, pending, req, loopVars, sentVars, commandVars>>

\* commit_finalized_turn_locked: the deduplication record is part of the save.
SaveFinalized ==
  /\ pc = "finalSave" /\ Current(thread)
  /\ store' = Saved(thread, {req})
  /\ thread' = [thread EXCEPT !.rev = store.rev + 1]
  /\ pc' = "finalSend"
  /\ UNCHANGED <<requests, pending, req, loopVars, sentVars, commandVars>>

SendFinalized ==
  /\ pc = "finalSend"
  /\ sent' = Append(sent, Event("finalized", req, NoMessage))
  /\ pc' = "complete"
  /\ UNCHANGED <<requests, pending, req, loopVars, thread, store, answered,
                 commandVars>>

Complete ==
  /\ pc = "complete"
  /\ sent' = Append(sent, Event("completed", req, NoMessage))
  /\ pending' = NoReq
  /\ Idle
  /\ UNCHANGED <<requests, thread, store, answered, commandVars>>

\* The fallback after a hard failure opens a turn of its own ...
Fallback ==
  /\ pc = "hard" /\ thread.turn = NoReq
  /\ thread' = [thread EXCEPT !.msgs = Append(@, ErrorText), !.turn = req]
  /\ phase' = "fallback" /\ pc' = "save"
  /\ UNCHANGED <<requests, pending, req, calls, tools, round, store, sentVars,
                 commandVars>>

\* ... which begin_turn refuses while the failed one is open.  handle_request
\* also ends with an Err when it cannot initialize or save, and reports no
\* RequestCompleted: the router keeps the thread pending.
GivesUp ==
  \/ pc = "hard" /\ thread.turn # NoReq
  \/ pc = "init" /\ thread.msgs = <<>> /\ "prompt" \in Faults
  \/ pc \in {"initSave", "finalSave"} /\ SaveMayFail(thread)
  \/ pc = "save" /\ phase = "fallback" /\ SaveMayFail(thread)

\* Slip: the next request starts with the locals of the one given up.
AbandonHalf ==
  /\ GivesUp
  /\ pc' = "idle"
  /\ UNCHANGED <<requests, pending, req, loopVars, thread, store, sentVars,
                 commandVars>>

Abandon ==
  /\ GivesUp
  /\ Idle
  /\ UNCHANGED <<requests, pending, thread, store, sentVars, commandVars>>
-----------------------------------------------------------------------------
(* The command path of the router, on a snapshot of the same thread *)

\* load_thread_context waits for the mutex; a /clear of a pending thread is
\* refused.  The other commands leave the messages as they are.
StartCommand(c) ==
  /\ cmdAt = "idle" /\ c \in commands /\ ~Locked
  /\ c \in ClearCommands => pending = NoReq
  /\ commands' = commands \ {c}
  /\ cmd' = c /\ cmdAt' = "save"
  /\ copy' = IF c \in ClearCommands
             THEN [rev |-> thread.rev, msgs |-> <<>>, turn |-> NoReq]
             ELSE thread
  /\ UNCHANGED <<requests, pending, pc, req, loopVars, thread, store, sentVars>>

\* Slip: the command overwrites whatever is stored.
SaveCommandBlindly ==
  /\ cmdAt = "save"
  /\ store' = Saved(copy, {})
  /\ copy' = [copy EXCEPT !.rev = store.rev + 1]
  /\ cmdAt' = "sync"
  /\ UNCHANGED <<requests, pending, pc, req, loopVars, thread, sentVars, commands,
                 cmd>>

SaveCommand ==
  /\ cmdAt = "save" /\ Current(copy)
  /\ store' = Saved(copy, {})
  /\ copy' = [copy EXCEPT !.rev = store.rev + 1]
  /\ cmdAt' = "sync"
  /\ UNCHANGED <<requests, pending, pc, req, loopVars, thread, sentVars, commands,
                 cmd>>

CommandFails ==
  /\ cmdAt = "save" /\ SaveMayFail(copy)
  /\ CommandDone
  /\ UNCHANGED <<requests, pending, pc, req, loopVars, thread, store, sentVars,
                 commands>>

\* Slip: the cached thread keeps its content and its revision.
SyncNothing ==
  /\ cmdAt = "sync" /\ ~Locked
  /\ CommandDone
  /\ UNCHANGED <<requests, pending, pc, req, loopVars, thread, store, sentVars,
                 commands>>

\* sync_thread_context_to_cache waits for the mutex.
SyncCommand ==
  /\ cmdAt = "sync" /\ ~Locked
  /\ thread' = copy
  /\ CommandDone
  /\ UNCHANGED <<requests, pending, pc, req, loopVars, store, sentVars, commands>>

\* The next access restores the thread from the store, without its open turn.
Crash ==
  /\ "crash" \in Faults
  /\ pending' = NoReq
  /\ Idle /\ CommandDone
  /\ thread' = [rev |-> store.rev, msgs |-> store.msgs, turn |-> NoReq]
  /\ sent' = <<>>
  /\ UNCHANGED <<requests, store, answered, commands>>
-----------------------------------------------------------------------------
\* The calls of a response have fresh ids.
Responses ==
  {cs \in SeqOf(Calls, MaxCalls) :
     /\ cs # <<>>
     /\ \A i, j \in DOMAIN cs : cs[i] = cs[j] => i = j
     /\ \A i \in DOMAIN cs, k \in DOMAIN sent : sent[k].msg.call # cs[i]}

Enter == Lock \/ Initialize \/ SaveInitialized \/ BeginTurn \/ BeginFails

CommitMessage ==
  Save \/ SendThenLoop \/ SendThenCall \/ SendThenTool \/ SendThenFinalize
  \/ SaveCaught \/ SaveEscapes

Loop ==
  \/ Prepare \/ PrepareFails
  \/ GenerateText \/ GenerateFails
  \/ \E cs \in Responses, withText \in BOOLEAN : GenerateCalls(cs, withText)
  \/ RunTool \/ RunCompact \/ ToolHookFails

Leave ==
  Notify \/ NotifyFails \/ SaveFinalized \/ SendFinalized \/ Complete
  \/ Fallback \/ Abandon

WorkerStep == Enter \/ CommitMessage \/ Loop \/ Leave

CommandStep ==
  \/ \E c \in Commands : StartCommand(c)
  \/ SaveCommand \/ CommandFails \/ SyncCommand

Next ==
  \/ \E r \in Requests : Dispatch(r)
  \/ WorkerStep \/ CommandStep \/ Crash

Spec == Init /\ [][Next]_vars

\* The worker's task is polled whenever it can go on.  Nothing is assumed of the
\* commands: a request waits for none of them.
FairSpec == Spec /\ WF_vars(WorkerStep)
-----------------------------------------------------------------------------
(* Properties *)

\* Every variable has its type, and a task that is idle holds nothing.
ThreadType == [rev : Nat, msgs : Seq(Messages), turn : Requests \cup {NoReq}]
TypeOK ==
  /\ requests \subseteq Requests
  /\ pending \in Requests \cup {NoReq}
  /\ pc \in Stations
  /\ req \in Requests \cup {NoReq} /\ (req = NoReq <=> pc = "idle")
  /\ phase \in Phases
  /\ calls \in Seq(Calls) /\ tools \in Seq(Calls)
  /\ round \in 0 .. MaxRounds
  /\ thread \in ThreadType
  /\ store \in [rev : Nat, msgs : Seq(Messages), dedup : SUBSET Requests]
  /\ sent \in Seq([type : EventTypes, req : Requests, msg : Messages])
  /\ answered \subseteq Requests
  /\ commands \subseteq Commands
  /\ cmd \in Commands \cup {NoCmd} /\ (cmd = NoCmd <=> cmdAt = "idle")
  /\ cmdAt \in {"idle", "save", "sync"}
  /\ copy \in ThreadType

\* A message the router hears of is the last one of the stored thread: nothing
\* is shown to the user that a restart would forget.
SentIsStored ==
  [][\A m \in {sent'[i].msg : i \in {i \in DOMAIN sent' :
                                       i > Len(sent) /\ sent'[i].type = "message"}} :
       store.msgs # <<>> /\ m = Last(store.msgs)]_vars

\* The events of a request are its committed messages, then TurnFinalized, then
\* RequestCompleted, each of the last two at most once, and all of this request.
EventsInOrder ==
  \A i, j \in DOMAIN sent :
    /\ i < j => /\ sent[i].type # "completed"
                /\ sent[i].type = "finalized" => sent[j].type = "completed"
    /\ sent[i].type = "completed" =>
         i > 1 /\ sent[i - 1].type = "finalized"
    /\ sent[i].req = sent[j].req

\* A request with a deduplication record has been answered: the final text, or
\* the text of the failure, went to the router before the record was stored.
RecordedIsAnswered == store.dedup \subseteq answered

\* When no request is outstanding and no command is between its save and the
\* cache, the cached thread is the stored one and has no open turn, whatever
\* failed before: no request inherits a turn, an unsaved message or a stale
\* revision of an earlier one.
CacheIsStore ==
  pending = NoReq /\ cmdAt # "sync" =>
    /\ thread.rev = store.rev /\ thread.msgs = store.msgs
    /\ thread.turn = NoReq

\* A history that is a compaction and what was added to it since.
Rewritten(new, old) ==
  /\ IsPrefix(Compacted(<<System>>), new)
  /\ \A i \in 4 .. Len(new) : new[i] \notin ToSet(old)

\* A write of the thread extends the stored messages, or empties them for a
\* /clear, or puts a summary in the place of all of them: an older snapshot never
\* replaces a newer state.
NoLostUpdate ==
  [][\/ IsPrefix(store.msgs, store'.msgs)
     \/ store'.msgs = <<>> /\ cmd \in ClearCommands
     \/ Rewritten(store'.msgs, store.msgs)]_vars

\* Within a turn no round is left half executed: when the model is asked, every
\* call of the turn at hand that is still in the history is followed by its
\* result.  (Of earlier turns it says nothing: one that failed between a call and
\* its result leaves the call in the history of the turns after it.)
RoundsComplete ==
  pc = "generate" =>
    \A i \in DOMAIN thread.msgs :
      thread.msgs[i].role = "call" /\ thread.msgs[i].req = req =>
        \E j \in DOMAIN thread.msgs :
          j > i /\ thread.msgs[j] = Result(thread.msgs[i].call)

\* The history the model is asked about starts with the system prefix, also
\* after a compaction, a /clear, a failed turn or a restart.
PrefixKept ==
  pc = "generate" => thread.msgs # <<>> /\ thread.msgs[1] = System

\* When the model is asked, every tool result has its call before it.
ResultsHaveCalls ==
  pc = "generate" =>
    \A i \in DOMAIN thread.msgs : thread.msgs[i].role = "result" =>
      \E j \in 1 .. i - 1 :
        /\ thread.msgs[j].role = "call"
        /\ thread.msgs[j].req = thread.msgs[i].req
        /\ thread.msgs[j].call = thread.msgs[i].call

\* A request the worker is done with has been reported completed.
NeverStuck == pc = "idle" => pending = NoReq

\* Every dispatched request is reported completed.
EveryRequestCompletes == (pending # NoReq) ~> (pending = NoReq)
=============================================================================
