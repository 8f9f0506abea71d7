# A TLA+ model of openjarvis

openjarvis connects chat channels to an LLM agent.  A message comes in through a
channel, the router decides whether it is a duplicate, a slash command or a chat, a
chat goes to the agent worker, the worker runs a turn of the agent loop over the
message's *thread*, and every message the turn commits is stored and sent back.
This directory models the part of the program where that can go wrong: the router's
task, the worker's task, the threads they share and the store below them; and what a
turn has around it: the tool registry with the MCP manager, the skills, the browser,
the memory, the processes that tools start, the token budget, the slash commands and
the configuration with which the program starts.

Paths are relative to the repository's root; `src/` there is the Rust crate
(so `src/src/router.rs` in `PROJECT.json` is `src/router.rs` of the crate).

- [Inventory](#inventory)
- [Modules](#modules)
- [How the modules correspond to the code](#how-the-modules-correspond-to-the-code)
- [Runs, bounds and what they show](#runs-bounds-and-what-they-show)
- [Disagreements between the code and what is said of it](#disagreements-between-the-code-and-what-is-said-of-it)
- [Fairness](#fairness)
- [Proofs](#proofs)
- [Slips](#slips)
- [What is not modelled](#what-is-not-modelled)
- [Plan](#plan)

## Inventory

### Components, their state and their operations

| component | source | state | operations |
|---|---|---|---|
| channel router | `router.rs` | `processed_messages`, `pending_threads`, `queued_messages`; the ends of the channels; its place in `select!` | `handle_incoming`, `handle_agent_event`, `dispatch_to_agent`, `release_or_dispatch_next`, `dispatch_command_reply`, `run_until_shutdown` |
| agent worker | `agent/worker.rs` | the request it handles; the two bounded channels to the router (128 each) | `run`, `handle_request`, `initialize_thread`, `on_committed_message` |
| agent loop | `agent/agent_loop.rs` | locals of a turn: the calls of the response at hand, the active tools | `run_live_thread`, `prepare_request_state`, `handle_model_requested_compact`, `commit_message` |
| thread | `thread.rs` | messages, revision, open turn, loaded toolsets, tool events | `begin_turn`, `append_message`, `finalize_turn`, `replace_messages_after_compaction`, `clear_to_initial_state` |
| session manager | `session.rs` | a cache of sessions and of thread handles, a mutex per thread | `load_or_create_thread`, `lock_thread_context`, `load_thread_context`, `mutate_thread_context`, `persist_*`, `store_thread_context`, `commit_finalized_turn*`, `mark_external_message_processed` |
| session stores | `session/store/*.rs` | threads with a revision, deduplication records | `save_thread_context` (compare-and-swap), `load_thread_context`, `save_external_message_record` |
| slash commands | `command.rs` | registry | `CommandInvocation::parse`, `requires_idle_thread`, `/clear`, `/context`, `/echo`, `/equal`, `/test` |
| compaction | `compact/*.rs`, `AutoCompactor` | `auto_compact_override` of a thread | estimate, two thresholds, summary, rewrite of the history |
| hooks | `agent/hook.rs` | registry | `emit` |
| command sessions | `agent/tool/command/*` | running processes and their output buffers | `exec_command`, `write_stdin`, `list_unread_command_tasks`; nothing removes a session |
| browser sidecar | `agent/tool/browser/*` | a session directory per thread, a child process with its pipe, `next_request_id` | eight tools of one or two requests each; close |
| MCP manager | `agent/tool/mcp/mod.rs` | a table of servers with state, tools and client, behind one `RwLock` | `load_definitions`, `enable_server`, `disable_server`, `refresh_server`, `ensure_server_tools`, `call_tool` |
| tool registry | `agent/tool/mod.rs`, `toolset.rs` | the catalog of toolsets, builtin handlers; loaded toolsets per thread | `list_tools`, `call_tool`, `load_toolset`, `unload_toolset`, `sync_mcp_toolsets`, `mcp()` |
| skills | `skill/`, `agent/tool/skill/*` | manifests and enabled flags; the files | `reload`, `restrict_to`, `enable`, `disable`, `load`; install, uninstall |
| memory | `agent/memory/*` | documents on disk | write, list, search, the active catalog |
| feature prompts | `agent/feature` | none | the system prefix of a new thread |
| configuration and start | `config.rs`, `main.rs`, `logging.rs`, `cli*.rs` | the installed configuration | `load_logging_config_from_path`, `from_yaml_path`, `validate`, `install_global_config`, the building of the components |
| channels, providers | `channels/`, `llm.rs` | external connections | start-up and I/O |

`PROJECT.json` lists each with the status of its model.

### Interactions

```
   channel --incoming_rx--> ChannelRouter --agent_tx (128)--> AgentWorker
      ^                      |        ^                        |
      '---outgoing_tx--------'        '-- agent_event_rx (128)-+- event per committed message,
                             |                                 |  TurnFinalized, RequestCompleted
      slash commands: load, save and copy                      | holds the thread's mutex for
      the thread through the SessionManager                    | the whole request
                             v                                 v
                    SessionManager: cache, mutex per thread, revision
                             v
                    SessionStore: compare-and-swap and deduplication records
```

The router and the worker are one task each.  They share the cached thread (under
its mutex), its stored form (by compare-and-swap of the revision, outside the mutex
for commands) and two bounded channels that fill towards each other.

### What is hard, and what makes each component correct

- **Router.**  One request per thread in the agent; what arrives meanwhile is queued
  and served in order; a thread is released exactly when nothing waits behind it;
  `/clear` never overlaps a turn; a record of a processed message is never ahead of
  its reply or its finalized turn; the router always gets back to `select!`.  Hard because a request is in
  one of five places (about to be sent, in the channel, in the worker, reported,
  about to be followed by the next one), because every call between may fail, and
  because the process may restart at any await.
- **Worker and loop.**  What is sent is stored; `MessageCommitted`*, `TurnFinalized`,
  `RequestCompleted` in this order; every request is reported completed; the model
  never sees a missing system prefix, a call without its result or a result without its
  call (the code keeps the first of the three, the second only within a turn, and not
  the last: see the disagreements below).  Hard because errors leave the loop in three ways (caught, as a hard failure
  with a fallback, as an `Err` of the whole request) and because a compaction and the
  router's commands rewrite the thread in between.
- **Command sessions.**  Output is returned once, in the order of its stream, or cut off
  by the limit of one call; the unread flag tells the truth; every call returns; a result
  that says *exited* is complete.  Hard because readers, the task that awaits the exit and
  a call with a deadline run side by side on one channel, and because a call drains that
  channel while it is being filled.
- **Session manager and stores.**  A stored edit is never overwritten by a snapshot
  that does not have it; `Ok` means stored; a record comes with its turn; the cache
  follows the manager's own writes.  Hard because the entry points differ in what
  they do under the mutex, and because a cache miss, a save and the copy back to the
  cache are separate awaits.

- **MCP manager.**  Every connection is held in one place and closed once; the table has
  no client that is closed, and tools only of a healthy server.  Hard because every
  call gives the lock up while it waits for the server.
- **Tool registry.**  A thread that has a browser session has the toolset that ends it.
  Hard because what is loaded is a thread's, and saved or lost with its turn, while the
  sessions are the process's.
- **Skills.**  What was disabled stays disabled, and `load_skill` is offered exactly when
  there is a skill.  Hard because a reload decides first and scans afterwards.
- **Browser.**  A tool reports the answers to its own requests.  Hard because one line is
  read per request, whatever that line is.
- **Memory.**  Checked writes alone never make the catalog fail.  Hard because a write is
  checked against files that may be torn, edited, or spelled in another case.
- **Token budget.**  A request over the runtime threshold follows a compaction.  Hard
  because the `compact` tool is offered by an estimate that does not contain it.
- **Configuration.**  What `validate` lets through is not refused later for something it
  looked at.  Hard because both check the same settings in different files.
- **Slash commands.**  Nothing but a `/clear` that found the thread idle takes messages
  from it.  Hard because three callers parse one text for three questions.

`PROJECT.json` "hazards" names these at their lines, with the properties that would
catch each.

## Modules

| module | what it is | composed from |
|---|---|---|
| `Router` | the router's task, its channels, the worker as the router sees it | |
| `ThreadLane` | abstract: a lane of chats per thread, served in order | |
| `RouterLane` | `Router` implements `ThreadLane` (refinement mapping) | `Router`, `ThreadLane` |
| `RouterProofs` | theorems about `Router` and its refinement, checked by TLAPS | `RouterLane` |
| `AgentWorker` | worker, agent loop, thread and the commands beside them | |
| `RequestLife` | abstract: what the router may assume of the worker | |
| `AgentLife` | `AgentWorker` implements `RequestLife` | `AgentWorker`, `RequestLife` |
| `WorkerProofs` | theorems about `AgentWorker` and its refinement | `AgentLife`, `FilterProofs` |
| `Filtering`, `FilterProofs` | the elements of a sequence that lie in a set; lemmas about it | |
| `SessionManager` | caches, mutexes, compare-and-swap, for several managers | |
| `SessionProofs` | theorems about `SessionManager`, checked by TLAPS | `SessionManager` |
| `CommandSession` | processes that tools start, and the calls that read them | |
| `ProcessProofs` | theorems about `CommandSession` | `CommandSession` |
| `McpManager` | the table of MCP servers and the calls that connect, probe and close | |
| `ToolRegistry` | the catalog, the toolsets of a thread, their runtimes | `McpManager` |
| `BrowserSession` | the tools, the sidecar and the pipe between them | |
| `ToolProofs` | theorems about the three | `ToolRegistry`, `BrowserSession` |
| `SkillRegistry` | the skills, their files, their installation | |
| `MemoryRepository` | documents, writes, edits by hand | |
| `Commands` | parsing and the builtin handlers | |
| `CatalogProofs` | theorems about the skills, the memory and the commands; the components together | `MCTools` and the modules that prove about its components |
| `Config` | the sections of a configuration and what is valid (no state) | |
| `CompactBudget` | estimate, thresholds and the loop's use of them | `Config` |
| `Startup` | `main` from the first read of the file to the channels | `Config` |
| `ConfigProofs` | theorems about the budget and the start | `CompactBudget`, `Startup`, `FilterProofs` |
| `MCRouter`, `MCAgentWorker`, `MCSessionManager`, `MCCommandSession` | instances for TLC | |
| `MCTools` | instances of what an agent has around its loop, in one run | `CommandSession`, `ToolRegistry`, `SkillRegistry`, `BrowserSession`, `MemoryRepository`, `CompactBudget`, `Startup`, `Commands` |

`Router` contains the worker only as `Take`, `Lock`, `Emit`, `CommitTurn`, `Complete`
and `Abandon`; `RequestLife` is that same life cycle as a specification, and
`AgentLife` checks that the detailed worker has no other.  In this way the router is
checked with several threads and small channels, and the worker with the details of
a turn, without one state space for both.

## How the modules correspond to the code

**Steps.**  A step is the code between two awaits at which another task can act.
`at` (Router), `pc` (AgentWorker) and `pc[o]` (SessionManager) say at which await a
task stands; a task that waits for a mutex or for room in a channel has a guard that
says so.  Everything the code does up to the next await is one action.

### Router

| variables | code |
|---|---|
| `seen`, `pending`, `queued` | `processed_messages`, `pending_threads`, `queued_messages` |
| `at`, `cur` | the await the router's task stands at, and the message it handles |
| `reqs`, `evs` | the contents of the request and the event channel, bounded by `ReqCap`, `EvCap` |
| `busy`, `stage`, `alive` | the worker: its request, how far it is, whether its task runs |
| `processed` | the deduplication records, which survive `Restart` (the SQLite store) |
| `undelivered`, `answered`, `abandoned` | history: what channels still deliver, the commands whose reply went out and the chats whose finalized turn is in the store, threads of which the worker gave a request up |

`Receive` and `IgnoreSeen` are the start of `handle_incoming`; `Resolve` to `Enqueue`
follow it to the end of the chat path; `TakeSnapshot`, `SaveCommand`, `SyncCommand`,
`Reply`, `Mark` are the command path (three awaits, two of them on the thread's
mutex); `Release`, `PeekNext`, `DispatchNext` are `release_or_dispatch_next`, which
clones the head of the queue, sends it, and pops it only when it was sent.
`Restart` stands for the crash or the end of the process and its next start.  The
code's default is `message_dedup_enabled = false`: `MessageDedup` says which.

`ThreadOf` maps a message to the thread its locator resolves to; several messages
may share a thread and a redelivery shares its key.

### AgentWorker

`thread` is the cached `Thread` (revision, messages, open turn) that the worker
mutates under the mutex; `store` the stored one and its records; `copy` the clone a
slash command works on.  Messages keep role, request and tool call.  `commit_message`
is `Commit` (append), `Save` (the compare-and-swap) and one of the `SendThen...`
actions (the event, then what the loop does next).  `Caught`, `hard` and `Abandon` are
the three ways out of an error: the async block of `run_live_thread` turns an `Err`
into the turn's failure message; an `Err` of `run_live_thread` itself leads to the
fallback; an `Err` of `handle_request` is only logged.  `Prepare` and `RunCompact`
rewrite the history.  `MaxRounds` and `MaxCalls` bound the rounds of a turn and the
calls of a response, which the code leaves to the model.

`Init` is the state after the router's `load_or_create_thread` has created and cached
the thread: the worker is never asked for a thread the router has not resolved.

### SessionManager

An operation `o` is one task that edits the thread through one entry point:
`KindOf[o]` names it.  The content of a thread is the set of edits it contains, so
"a snapshot overwrote somebody's edit" is `store.edits` losing an element.  All kinds
start with `ensure_thread_handle` (`FindHandle`, `Fetch`, `InsertIfAbsent`), since every
caller resolves the thread before it uses it; for this reason the `None` branch of
`load_thread_context` and the insert branch of `sync_thread_context_to_cache` are not
reachable and have no action.  `edit` is the pattern the comment of
`lock_thread_context` describes (lock, edit, release, `persist_thread_context`);
nothing in the crate outside its tests calls it so, but the API allows it.

### CommandSession

`events[s]` is the channel between a process's tasks and its session, `pending`, `chunk`
and `snapshot` the session record (`pending_output`, `next_chunk_id`, status and
`has_unread_output`).  A stream is a sequence of numbered chunks, of which the process
has written `written[s][st]` and the reader sent `read[s][st]`.  `returned`, `cut` and
`reported` are history: the output of all results, what their limits cut off, and the
sessions a result called exited.

A call is `ExecCommand`, `Poll` or `WriteStdin`, and then what `callAt` says of
`collect_result`: it drains the channel (`TakeNext` until `Drained`), waits for an event
(`Receive`) and drains again, until `LoopEnds`: the exit was received, the deadline has
passed (`late`), or nobody is left to send.  The tasks of the processes go on between any
two of these steps, also within a drain, which looks at no deadline.  The worker makes
one call at a time, so `waiting` is the session it is in; `ListUnreadTasks` drains and
refreshes all sessions one by one (`todo`).

`HandOver` is the end of a call: it takes all of `pending_output` and `truncate_output`
lets the first `max_output_tokens` through.  The rest is in no later result, which is
what the code means: `tests/agent/tool/command/output.rs:7` asserts the truncation, and
`openspec/changes/add-command-session-tools/design.md:117` calls it a best-effort limit
of one result.  `Limits` are the values a call may give, 0 (nothing is returned) among
them, counted in chunks: a chunk of the model is whatever the limit cuts between.

A terminal differs from pipes in its one stream.  A descendant that keeps a pipe open
after the process has exited is not modelled; its output would look like that of a slow
reader.

### McpManager and ToolRegistry

`servers` is the table; a caller's place is `jobs[j].at`, and each step of a call is what
it does under one acquisition of the lock or during one await: `Connect` and
`ListTools` (or `AttemptFails`, as often as the transport retries), `Store` or
`StoreFailure`, `CloseReplaced`, `Read`.  A client is a number, and `open` says which are
connections or child processes that nobody has closed.  The binary has one worker; that
calls overlap at all comes from the public `ToolRegistry::mcp()`, which hands out the
shared manager, and from `Loader`, the load of the definitions (the registry serves only
after it).

`ToolRegistry` has one turn at a time (`turn`, `loaded`: the working copy of the thread),
and a call of it resolves one toolset after the other (`task.rest`); resolving a server
is `EnsureServerTools` of the manager.  `sync_mcp_toolsets` is `Synced`: the first server
whose name clashes with a builtin tool ends it.  `orphans` is history: threads whose
browser session lost its toolset without `on_unload`, by `/clear` or by a turn that ended
before a commit had saved it (`SaveToolsets`: every committed message saves the thread).  `unload_toolset` is one step, for nobody else looks at the thread's copy.

### SkillRegistry

A reload is `BeginReload` (who is enabled now), `Scan`, `StoreScan` and `SyncHandlers`;
`restrict_to` adds `RestrictTo`.  `disk` is edited by anybody (`EditSkill`) and by the
installation, which is another process.  `off` is history: the skills that were disabled
and found by every scan since.  A skill that one scan misses (a broken file, the moment
between the removal of the replaced file and the rename) comes back enabled; the
property says this and no more.

### BrowserSession

`op` is the call with the requests it sent and the answers it took, `pipe` the lines that
have not been read, each with the id it names and the request it really answers.
`ReadNothing` is end-of-file.  There is no timeout in the code, and no action for one: a
sidecar that lives and says nothing keeps the call, and the worker, for ever.  Threads
have services of their own, so one thread is the whole.

### MemoryRepository

A document is the set of its active keywords, or torn.  `BeginWrite` is all checks and
the truncation, `CompleteWrite` the rest; between them the program may end.  `touched` is
history: files that were edited by hand or whose last write was cut short.

### Config, CompactBudget, Startup and Commands

`Config` has no variables: it is the defaults, what `validate` asks of each section, and
the limits read from it.  An `Option` is a set of at most one value, a ratio a percentage
(the code compares `f64`; the model has no rounding).  `Startup` takes one step per step
of `main`; `why` says what ended it, and the files may differ between the two reads.
`CompactBudget` is the loop as far as it measures: a message is the length of its texts,
a response has one call (`AgentWorker` has several).  `Commands` gives a text by what the
parser tells apart: channel, mention, slash, name, arguments.

## Runs, bounds and what they show

| run | instance | shows |
|---|---|---|
| `router_safety` | 2 threads, 7 messages: 3 chats and a redelivery, a command, a `/clear`, a bare slash; all faults; `ReqCap` 2, `EvCap` 1 | one request per thread in flight; no queue without its pending thread; a pending thread has a request in flight or an abandoned one; `/clear` is exclusive; records only of what was answered; no key is started twice (with in-process deduplication on); the router never waits for room in the request channel; `Router` implements `ThreadLane` |
| `router_live` | 3 chats and a `/clear`, failing store and channel calls, fair | every accepted chat reaches the worker, every pending thread is released, the router returns to `select!` |
| `router_redelivery` | default deduplication | violation: see below |
| `router_wedge` | a chat and a command of one thread, fair, no fault | violation: see below |
| `worker_safety` | 2 requests, an ordinary and a `compact` call, `/echo` and `/clear` beside them, all faults | sent is stored; events in order; recorded is answered; the cache is the stored thread between requests; the system prefix stays; nothing stored is overwritten by an older snapshot; `AgentWorker` implements `RequestLife` |
| `worker_live` | 2 requests, up to 2 rounds of up to 2 calls, failing hooks and LLM calls, a `/clear`, fair | within a turn no round is half executed when the model is asked; every request is reported completed |
| `worker_stuck`, `worker_race`, `worker_dangling` | the smallest instance each | violations: see below |
| `session_safety` | manager `ma` with a turn, a `mutate`, a command, an `edit` and a mark, manager `mb` with a detached commit, on one SQLite store; failing calls, the write of a record among them, and restarts | no lost update; `Ok` is stored; a record has its turn; a cache is at the stored revision after its manager's own write, and never goes back |
| `tools_safety` | `MCTools`, one component at a time: a process with pipes and one with a silent terminal, limits of 0 and 1 chunks, fair; a server with a clashing name, one retry, 2 connections, turns, API and load; two skills and two files; three browser tools, 4 requests, 2 lines of noise; two documents, two spellings of a keyword; thresholds apart, equal and refused; files that differ from the default in one section, with an `mcp.json`; registered names, in another case, and not | output is returned once and in order or cut off for good, unread if and only if pending, and every call and every list returns; a client is held once; a browser session can be ended; what is offered was decided; a tool reports its own answers; the memory breaks only from outside; over budget is compacted; what is installed is accepted; only an idle `/clear` takes something |
| `command_tail` | one process, a limit that cuts nothing | violation: see below |

Why the bounds are enough for these questions.  *Router*: a hazard needs a thread
with a request in flight, one message queued and one arriving (three messages of
`t1`), a second thread to share the channels, and full channels; `EvCap` 1 makes the
event channel full as soon as anything is in it, `ReqCap` 2 is the smallest capacity
for which the claim about the request channel holds with two threads.  *AgentWorker*:
two requests show what a failed turn leaves to the next; one round of one call
reaches every action, and the run with two rounds of two calls has the orders within
a round.  *SessionManager*: one operation of every kind on one manager and one
competing writer on another; a third writer adds nothing to the pairwise race of a
compare-and-swap.  *CommandSession*: two chunks of a stream show its order (none is
claimed between streams; the theorem has any number of both), a silent second stream that
the end of the channel waits for every reader, two results per session that a call that
was late leaves the rest to the next and one that was cut off does not, limits of 0 and 1
that a limit cuts all, some or nothing of one or two chunks, and a silent second session
that a call that waits ends, and that calls and listings do not touch each other.
The model checker covers `ReqCap` and the number of threads only
at these values; the theorems have no bound.

*MCTools* is a sum: `focus` is chosen in `Init` and only its component moves.  The
components share no state except manager and registry, which are one component there,
so a product would only multiply what the sum adds.  The bounds of each: two connections
and three callers let a probe replace what another stored and a disable come between; two
places of one skill name let one hide the other; 4 requests and 2 lines of noise let an
answer be left over for a call that sends the same action again; two documents are the
pair that a keyword can clash in; `MaxMessages` 4 lets a thread be compacted, grow and be
compacted again, and the sizes bring a request to either side of each threshold, also by
the `compact` tool alone.

`CHECK_DEADLOCK FALSE` is set in every run: the messages, requests, commands and
operations of an instance are finite, and when they are used up the system rests.
That nobody waits for ever while there is work is what `RouterReturns`,
`AcceptedIsServed`, `ThreadReleased` and `EveryRequestCompletes` say.

## Disagreements between the code and what is said of it

Each is a run that ends in a counterexample; `PROJECT.json` "findings" quotes the line.

1. `worker_stuck`: an error of `prepare_request_state` leaves the turn open, so the
   fallback's `begin_turn` fails as well and no `RequestCompleted` is sent.  The router
   keeps the thread pending until a restart.
2. `worker_race`: a slash command that took its snapshot while the request was on its
   way saves between the worker's lock and its first save.  The worker's
   compare-and-swap fails, and again no `RequestCompleted` is sent.
3. `router_wedge`: a command waits for the mutex of a running thread inside the
   router's only task, while the worker that holds it waits for room in the event
   channel only that task empties.  With the code's capacity of 128 the turn has to
   commit more than 128 messages after the command arrived (the loop has no limit on
   its rounds); the run has capacity 1.  Short of that the router merely stands still
   for all threads until the turn ends.
4. `router_redelivery`: the persisted deduplication record is looked up when a message
   arrives and written when its turn ends; a redelivery in between is processed twice.
5. `worker_dangling`: a `compact` tool call compacts its own call message away, and its
   result is appended behind the summary.
6. `command_tail`: the task that awaits a process sends `Exit` without waiting for the
   readers; a call that sees it first reports the exit with less than the output.  The
   rest is pending for a further `write_stdin`, whose session the result does not name.

Also met while reading, without a run: the calls of a response are committed
(`agent_loop.rs:644-658`) before the first is run, and a failing hook in between
(667-675) ends the turn behind them.  They keep no result, and every later turn of the
thread shows them to the model, as `llm.rs:296-325` leaves nothing out; the rule at the
end of `.lessons/ark-invalid-tool-call-id.md` (line 44) is that a call and its result must
not be separated.  `RoundsComplete`, which holds, is about the turn at hand.  The comment at `thread.rs:536` says that events
"can only be dispatched after finalization", while `commit_message` sends every
message as soon as it is saved (`SentIsStored` states the order the code has).  The
in-memory store accepts a deduplication record for a thread that was never saved, the
SQLite store refuses it (`Mark`).  A manager whose cached thread is stale because
another manager wrote has no way to refresh it: all its saves fail until a restart
(`OwnWriteCached` states what does hold).  The comments of `config.rs` (960 and 972) say
that `auto_compact` always exposes the `compact` tool and that the visibility threshold
does not decide it; `AutoCompactor::compact_tool_visible` does compare the estimate with
that threshold (`Offered`).  `persist_thread_context` after the guard is
released may return `Ok` although its edit is gone (why `DoneIsStored` excludes `edit`).

The claim of the test at `tests/router.rs:1657`, that `/clear` of a running thread is
refused, holds: `ClearIsExclusive`.

## Fairness

`Router!FairSpec`: the router's task is polled whenever it can go on (weak fairness of
the actions in the middle of a handler).  `select!` polls its receivers in random
order, so an event or a message that is there again and again is taken (strong
fairness of `AgentEvents` and of every message's reception).  The worker takes, locks
and commits when it can (weak), and its sends into a channel with a fair queue succeed
if there is room again and again (strong fairness of `Complete`).  That a turn ends is
assumed here and is the subject of `AgentWorker`.

`AgentWorker!FairSpec` has weak fairness of the worker's task alone.  Rounds end because
the instance bounds them; the code relies on the model to stop calling tools.

`CommandSession!FairSpec` has weak fairness of `Deadline` (time passes) and, for each
session, of `Continue`, the steps of the worker's task in a call.  Nothing is assumed of
the processes and their tasks.  A call that drains goes on as long as it finds an event,
also after its deadline (`drain_available_events` has no other way out), so `CallReturns`
is stated with the assumption it needs: no process writes for ever.  That a process which
outruns the drain keeps the worker is a hazard the code does not exclude.

The faults have no fairness: they may or may not happen.  The liveness runs exclude
those faults under which the code itself gives up (see 1 and 2 above; `agentDown`,
`shutdown` and `restart` end the process).

## Proofs

`RouterProofs` proves, for every set of threads, messages and keys, every capacity and
every set of faults, under the module's one assumption `RouterAssumption` (types of
the constants):

- `RouterTypeCorrect`, `RouterOneInFlight`, `RouterQueuedBehindPending`,
  `RouterPendingHasOwner`, `RouterClearIsExclusive`, `RouterRecordedOnlyIfAnswered`,
  each for the definition of the same name without the prefix (`TypeOK` for the first);
- `RouterRequestNeverBlocks`, in addition for a finite set of threads: the cardinality
  argument that a channel with room for all threads is never full when the router
  sends.

The properties are not inductive.  `RouterInv` is `TypeOK`, `Stationed` (what the place
of the router's task says about the message at hand and the worker's stage about its
request) and `FlightInv`: whatever is in flight is pending, the queues
hold chats of their thread, an idle-only command in progress is on a thread that is
not pending, and the three router properties themselves.  A request moves through the
five places of `InFlight`; the lemmas have one step per action, which say from which
place to which.  Actions that touch none of them are collected in `QuietStep`.
`HandInv` strengthens `RecordedOnlyIfAnswered`: what the router is about to mark was
replied to, and what the worker may finalize is a chat that the router admitted.  The
records are compared with `answered`, which grows where a reply has gone out (`Reply`)
and where a finalized turn is stored (`CommitTurn`).

- `RouterNoReprocess` proves `NoReprocess` with `MessageDedup`; without it the property
  is false (`router_redelivery`).  `KeyInv` says that a key is in one place at a time
  (`QueuesApart`, `PlacesApart`), that whatever is on its way is in `processed_messages`
  (`KeysSeen`: the reason why a redelivery does not follow it), and that what the worker
  has not begun has no record (`Unrecorded`).
- `RouterImplementsLane`: every step of the router is a step or a stutter of
  `ThreadLane`.  `LaneIs` reads the lane of a thread off the state: the request the agent
  has or is about to get in front of the queue; then there is one lemma per kind of lane
  step, and the rest are stutters.

`WorkerProofs` proves every safety property of `worker_safety` and `worker_live`, for
every set of requests, calls and commands, any bound on rounds and calls, and every set
of faults, under `WorkerAssumption`: `WorkerTypeCorrect`, `WorkerCacheIsStore`,
`WorkerSentIsStored`, `WorkerEventsInOrder`, `WorkerRecordedIsAnswered`,
`WorkerPrefixKept`, `WorkerRoundsComplete`, `WorkerNoLostUpdate` and the refinement
`WorkerImplementsLife`.  The invariant grows in layers, each of which uses those before:

| layer | adds | because |
|---|---|---|
| `TypeInv` | `RoundShape`: where in a turn there are messages and calls left | `Head` and `Tail` need one |
| `CoherenceInv` | `OwnerInv`, `RevisionInv`, `TurnInv`: who wrote last, and what the revisions of cache, copy and store say of their messages | `CacheIsStore` speaks only of the moments between requests |
| `WrittenInv` | `PrefixInv`: each of the three histories is empty or begins with its only system message | a compaction keeps the messages of the system role |
| `FreshWrittenInv` | `FreshInv`: a request that is not begun has left no message anywhere | a round begins with none of its calls in the history |
| `RoundWrittenInv` | `RoundInv`: every call of the turn is answered or still to be run, and no two are the same | `RoundsComplete` |
| `TurnWrittenInv` | `HistoryInv`: what is stored of the turn was sent but for the last message, and has no final text and no result of a call that is still to be run | what a write adds is new, so that a compaction's history has nothing of the old one |
| `RelatedInv` | a copy the compare-and-swap would let pass extends the store, rewrites it, or clears it | `NoLostUpdate` |

`EventInv` and `RecordInv` beside it are about the events of the request and the records.
The refinement needs the types alone: `LifeStep` finds for every action the one of
`RequestLife`, and `QuietSteps` those that the router takes no notice of.

A compaction keeps the system messages of a history: `Filter(s, T)`, a recursive
function, and that it keeps the order and
leaves nothing out holds for every sequence. `FilterProofs` has it without the induction
theorems of the library, whose parameter is an operator: `SetInduction` takes a *set* of
numbers, and follows from the well-foundedness of `<`. What `Filter` yields is stated
through the list of what is kept of the first elements, however many (`ListsExist`,
`ListsAgree`, `FilterIsListed`); `FilterType`, `FilterEmpty` and `FilterAppend` are what
the other modules cite.

`ProcessProofs` proves `UnreadIsPending` and `OutputOnce` for any number of processes,
streams and chunks and any limits (`ProcessTypeCorrect`, `ProcessUnreadIsPending`,
`ProcessOutputOnce`).  The first is inductive only as `UnreadInv`, without its premise that
no call is under way.  For the second, what a session got is one sequence (`Got`: returned,
pending, in the channel).  A reader adds the next chunk of its stream at its end
(`AppendOrdered`), the waiter the one exit (`ExitInv`); an event that is applied moves
within the sequence; and what is taken out of its middle, the exit or the end of the
pending output that a limit cuts off (`LimitSplits`), leaves it in order and is nowhere
else in it (`RemoveOrdered`).

`SessionProofs` proves all six properties of `session_safety` for every set of managers
and operations of any kind, both backends and every set of faults, under
`SessionAssumption` (types of the constants): `SessionTypeCorrect`,
`SessionNoLostUpdate`, `SessionDoneIsStored`, `SessionRecordHasTurn`,
`SessionOwnWriteCached`, `SessionCacheRevisionGrows`.

Revisions alone do not protect an edit: the compare-and-swap compares numbers, and two
states of a thread may have the same one.  What makes it sound is `CopiesCover`: no copy,
cached or private, is ahead of the store, and one *with the stored revision* has every
stored edit.  To keep that through the copies back to the cache, `SessionInv` adds
`Publication` (a manager has at most one operation between its save and the cache, and
its revision is news to the cache), `Owned` (the mutex is held from the edit to the
copied revision) and `Placed` (an operation goes on only with a cached thread).
`LastWriter` is what `OwnWriteCached` needs through cache misses: the manager that wrote
last has its revision in the cache or on the way, and if it restarted, what it fetched
is what it wrote.  `EditsKept` says where the edit of an operation is.  There is one
lemma per action, with one step per conjunct; TLC has checked `SessionInv` on the
instance of `session_safety`.

`ToolProofs` proves `ClientsHeld` and `SessionIsLoaded`. `McpInv` says who answers for a
client: the entry of a server, the probe that opened it, the call that closes it
(`EntryOf`, `ProbeOf`, `OldOf`); no two of them have the same (`HeldOnce`), each is open
(`HeldIsOpen`) and every open one is among them (`OpenIsHeld`). `McpInvariant` is about
the manager by itself, for any number of callers that use all of its calls. The registry
then needs no proof of its own: each of its steps is a step of the manager or leaves it
alone (`RegistryStepsTheManager`, where the turn and the API are callers other than the
load), hence `RegistryHoldsClients`. `RegistryKeepsSessions` needs that during a turn
the browser toolset is registered (`BrowserServed`): otherwise `unload_toolset` would
drop it without `on_unload`. It assumes that no server is named `browser`.
`RegistryTypeCorrect` types the registry and the manager together.

`BrowserAnswersItsRequest` proves `AnswersItsRequest` for all tools and any number of
requests and lines. What makes one line per request sound is the number of the request:
`IdsSpent` says that every number in the channels was given out, so that the next one is
new, `ToldAsAsked` that a line with the number of the request at hand answers it, and
that the answers read so far are to the requests sent; `ChildOfSession` that a child
without a session belongs to the call that closes it.

`CatalogProofs` proves `ExposureIsDecided`; between the steps of a reload the enabled
skills and those it will keep avoid `off` (`KeptIsDecided`).  It proves
`BrokenFromOutside`; documents that nobody touched parse and share no keyword
(`CleanApart`), also while a write is under way.  And it proves `OnlyAnIdleClear`;
`ParsesAgree` is the lemma that two of the three parses never differ where it would
matter.

`ConfigProofs` proves `OverBudgetIsCompacted` for every configuration and all sizes: the
estimate is a function of state that does not change between the measure and the request
(`PreparedIsStable`).  It assumes that a summary is a sequence of messages and that sizes
are numbers.  It proves `InstalledIsAccepted` for all files that have a section of servers
(`HasServers`, which the deserialization sees to).

`BudgetTypeCorrect` needs that the estimate of a history is a number.  `FoldSeq` chooses a
function on the sets of a sequence's places; that there is one (`FoldExists`) and that its
values are numbers (`HistoryTokensType`) follows by `SetInduction` over the size of the
sets.

`ProcessTypeCorrect`, `RegistryTypeCorrect`, `BrowserTypeCorrect`, `SkillTypeCorrect`,
`MemoryTypeCorrect`, `BudgetTypeCorrect`, `StartTypeCorrect` and `CommandTypeCorrect` type
one component each.  A step of `MCTools` is a step of one component, beside which the
others stutter (`StepsOfComponents`), hence `ToolsSpec` implies the specification of each
(`ToolsAreComponents`), and `ToolsTypeCorrect` and `ToolsKeepPromises` collect what is
proved of them for the specification that the run checks.

Every invariant and action property of the runs that pass has its theorem.  Only
model-checked are the liveness properties `AcceptedIsServed`, `ThreadReleased`,
`RouterReturns`, `EveryRequestCompletes` and `CallReturns`: `ENABLED` and fairness are out
of the proof system's reach.

## Slips

Next to some definitions there is a variant marked *Slip*.  It is the same definition
with a plausible mistake (a guard dropped, an update forgotten, an order swapped).
No specification uses it.  `PROJECT.json` "mutants" pairs every property of a passing
run with a slip; put in the place of its original it makes TLC find the property
violated, which shows that the property can tell the code from a near miss of it.

## What is not modelled

- The Feishu channel: an external API behind HTTP and a Node process, and the parsing of
  its events.  What it does to the program is in `Router` (redelivery, messages that are
  lost) and in `Startup` (it connects or not).
- LLM providers: a request and the parsing of its response, without state.  `AgentWorker`
  has every kind of response and the error, `Startup` the choice of the provider.
- File and shell tools: stateless I/O.  `sandbox.rs` is a placeholder.
- Parsing of arguments, attachments, formatting, logging, the schema of the
  SQLite tables: conversions without a state of interest.

In the modelled components: several worker tasks (the program has one); a channel whose
outgoing queue is full (the router then stops in `dispatch_outgoing`; the code promises
nothing); tool events and child threads of a thread; the session row besides the thread;
a session evicted from the cache (the code never evicts); the request of a compaction to
its provider and the parsing of the summary; a hook's script; the shell and Chrome
settings of the configuration; handlers registered by hand in tests.

## Plan

In the order of importance; all but the last are done.

1. `Router`, `ThreadLane`, `RouterLane` and the first theorems.
2. `AgentWorker`, `RequestLife`, `AgentLife`.
3. `SessionManager` for several managers.
4. `RouterProofs`: the safety properties of the router.
5. `SessionProofs`: the safety properties of the session manager.
6. `CommandSession`.
7. `McpManager`, `ToolRegistry`, `ToolProofs`.
8. `BrowserSession`; `SkillRegistry`, `MemoryRepository` and their theorems.
9. `Config`, `CompactBudget`, `Startup`, `Commands` and their theorems.
10. `FilterProofs`, `WorkerProofs`, `ProcessProofs`; `RouterLane` and `AgentLife` as
    theorems; the browser's; the types of every component.
11. `Gateway`: router, worker and manager composed on two threads, with an abstract
    specification of what a channel sees of a chat; `OutgoingChannel` (back-pressure).
