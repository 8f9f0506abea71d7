---------------------------- MODULE ToolRegistry ----------------------------
(***************************************************************************)
(* The ToolRegistry of src/src/agent/tool/mod.rs over its McpManager: the   *)
(* catalog of toolsets, what every thread has loaded of it, and the calls   *)
(* that resolve, open and close toolsets.                                   *)
(*                                                                          *)
(* The agent worker holds a thread for a turn and works on a copy; what the *)
(* turn loads is the thread's when it commits a message.  A toolset of an MCP  *)
(* server is resolved by asking the server, one toolset after the other in  *)
(* the order of their names.  Opening browser tools starts a session that   *)
(* unload_toolset is to end (ToolsetRuntime::on_unload).                    *)
(***************************************************************************)
EXTENDS McpManager

CONSTANTS
  ToolThreads,  \* the threads whose turns use tools
  NoThread,     \* no thread
  Turn,         \* the caller that is the agent worker
  Api,          \* the caller that uses ToolRegistry::mcp()
  Clashing,     \* servers named like an always visible tool
  Place         \* [Toolsets -> Nat]: the order of the names

Toolsets == Servers \cup {"browser"}

VARIABLES
  catalog,  \* the toolsets that are registered
  builtin,  \* are the builtin tools registered?
  stored,   \* the loaded toolsets of a saved thread
  turn,     \* the thread that has the worker
  loaded,   \* the loaded toolsets of its working copy
  task,     \* the call the turn is in: [at, name, rest]
  sessions, \* the threads with a browser session
  orphans   \* those whose session lost its toolset without an unload

toolVars == <<catalog, builtin, stored, turn, loaded, task, sessions, orphans>>
registryVars == <<mcpVars, toolVars>>

NoTask == [at |-> "idle", name |-> "none", rest |-> {}]

RegistryInit ==
  /\ McpInit
  /\ catalog = {} /\ builtin = FALSE
  /\ stored = [t \in ToolThreads |-> {}]
  /\ turn = NoThread /\ loaded = {} /\ task = NoTask
  /\ sessions = {} /\ orphans = {}

\* sync_mcp_toolsets: the servers are put back in the order of their names, and
\* the first that clashes ends it with those behind it left out.
Synced ==
  {s \in known : \A r \in known : builtin /\ r \in Clashing => Place[s] < Place[r]}
    \cup (catalog \ Servers)

\* The registry has been built.
Serving == ConfigLoaded /\ (builtin \/ known \subseteq catalog)

SyncAtStart ==
  /\ ConfigLoaded /\ ~Serving
  /\ catalog' = Synced
  /\ UNCHANGED <<mcpVars, builtin, stored, turn, loaded, task, sessions, orphans>>

\* The mcp() API: enable, disable and refresh end with a sync unless they failed.
ApiReturns ==
  /\ EndCall(Api)
  /\ catalog' = IF jobs[Api].at = "ok" THEN Synced ELSE catalog
  /\ UNCHANGED <<builtin, stored, turn, loaded, task, sessions, orphans>>
-----------------------------------------------------------------------------
(* Turns *)

InTurn == turn # NoThread /\ jobs[Turn].at = "idle"

\* Every turn registers the builtin tools, if they are missing.
BeginTurn(t) ==
  /\ Serving /\ turn = NoThread
  /\ turn' = t /\ loaded' = stored[t]
  /\ builtin' = TRUE /\ catalog' = catalog \cup {"browser"}
  /\ UNCHANGED <<mcpVars, stored, task, sessions, orphans>>

\* Every message the turn commits saves what is loaded with it.
SaveToolsets ==
  /\ InTurn /\ task = NoTask
  /\ stored' = [stored EXCEPT ![turn] = loaded]
  /\ UNCHANGED <<mcpVars, catalog, builtin, turn, loaded, task, sessions, orphans>>

\* The end of the turn saves it too; after an error what was loaded since the last
\* commit is dropped.
EndTurn ==
  /\ turn # NoThread /\ task = NoTask /\ jobs[Turn].at = "idle"
  /\ \/ /\ stored' = [stored EXCEPT ![turn] = loaded] /\ UNCHANGED orphans
     \/ /\ UNCHANGED stored
        /\ orphans' = IF turn \in sessions /\ "browser" \notin stored[turn]
                      THEN orphans \cup {turn} ELSE orphans
  /\ turn' = NoThread /\ loaded' = {}
  /\ UNCHANGED <<mcpVars, catalog, builtin, task, sessions>>

\* /clear forgets what is loaded, and tells no toolset.
ClearThread(t) ==
  /\ Serving /\ turn # t
  /\ stored' = [stored EXCEPT ![t] = {}]
  /\ orphans' = IF t \in sessions THEN orphans \cup {t} ELSE orphans
  /\ UNCHANGED <<mcpVars, catalog, builtin, turn, loaded, task, sessions>>

Begins(at, n, T) ==
  /\ InTurn /\ task = NoTask
  /\ task' = [at |-> at, name |-> n, rest |-> T]
  /\ UNCHANGED <<mcpVars, catalog, builtin, stored, turn, loaded, sessions, orphans>>

\* list_tools before a request; a tool call looks through the loaded toolsets
\* up to the one that has the tool; load_toolset resolves the one it names.
ListsTools == Begins("list", "none", loaded)
CallsTool(n) ==
  Begins("call", n, IF n \in loaded THEN {m \in loaded : Place[m] <= Place[n]}
                    ELSE loaded)
LoadsToolset(n) == Begins("load", n, {n})

Next1 == CHOOSE n \in task.rest : \A m \in task.rest : Place[n] <= Place[m]

Resolving == InTurn /\ task.rest # {}

\* resolve_toolset_handlers: static handlers are there, a server is asked.
ResolveStatic ==
  /\ Resolving /\ Next1 = "browser" /\ "browser" \in catalog
  /\ task' = [task EXCEPT !.rest = @ \ {"browser"}]
  /\ UNCHANGED <<mcpVars, catalog, builtin, stored, turn, loaded, sessions, orphans>>

ResolveServer ==
  /\ Resolving /\ Next1 \in catalog \cap Servers
  /\ EnsureServerTools(Turn, Next1)
  /\ UNCHANGED toolVars

Resolved ==
  /\ turn # NoThread /\ task.rest # {} /\ jobs[Turn].at = "ok" /\ EndCall(Turn)
  /\ task' = [task EXCEPT !.rest = @ \ {jobs[Turn].server}]
  /\ UNCHANGED <<catalog, builtin, stored, turn, loaded, sessions, orphans>>

\* One toolset that is not registered, disabled or not answering fails the call,
\* whatever it was looking for.
ResolveFails ==
  /\ turn # NoThread /\ task.rest # {}
  /\ \/ /\ Resolving
        /\ Next1 \notin catalog \/ (Next1 \in Servers /\ ~servers[Next1].loadable)
        /\ UNCHANGED mcpVars
     \/ jobs[Turn].at = "failed" /\ EndCall(Turn)
  /\ task' = NoTask
  /\ UNCHANGED <<catalog, builtin, stored, turn, loaded, sessions, orphans>>

Ready(at) == InTurn /\ task.at = at /\ task.rest = {}

Listed ==
  /\ Ready("list") /\ task' = NoTask
  /\ UNCHANGED <<mcpVars, catalog, builtin, stored, turn, loaded, sessions, orphans>>

Load ==
  /\ Ready("load") /\ task' = NoTask
  /\ loaded' = loaded \cup {task.name}
  /\ orphans' = IF task.name = "browser" THEN orphans \ {turn} ELSE orphans
  /\ UNCHANGED <<mcpVars, catalog, builtin, stored, turn, sessions>>

\* A tool of a toolset that is not loaded is not found.
CallNotFound ==
  /\ Ready("call") /\ task.name \notin loaded /\ task' = NoTask
  /\ UNCHANGED <<mcpVars, catalog, builtin, stored, turn, loaded, sessions, orphans>>

CallServer ==
  /\ Ready("call") /\ task.name \in loaded \cap Servers
  /\ CallTool(Turn, task.name)
  /\ task' = [task EXCEPT !.at = "calling"]
  /\ UNCHANGED <<catalog, builtin, stored, turn, loaded, sessions, orphans>>

\* Between resolving and calling, the server may have lost its client.
CallNotConnected ==
  /\ Ready("call") /\ task.name \in loaded \cap Servers
  /\ servers[task.name].client = 0 /\ task' = NoTask
  /\ UNCHANGED <<mcpVars, catalog, builtin, stored, turn, loaded, sessions, orphans>>

Called ==
  /\ task.at = "calling" /\ EndCall(Turn) /\ task' = NoTask
  /\ UNCHANGED <<catalog, builtin, stored, turn, loaded, sessions, orphans>>

\* A browser tool uses the session of the thread, starts one, or ends it.
CallBrowser ==
  /\ Ready("call") /\ task.name = "browser" /\ "browser" \in loaded
  /\ task' = NoTask
  /\ sessions' \in {sessions \cup {turn}, sessions \ {turn}}
  /\ UNCHANGED <<mcpVars, catalog, builtin, stored, turn, loaded, orphans>>

\* Slip: the toolset is dropped without its runtime being told.
UnloadsToolsetOnly(n) ==
  /\ InTurn /\ task = NoTask
  /\ loaded' = loaded \ {n}
  /\ UNCHANGED <<mcpVars, catalog, builtin, stored, turn, task, sessions, orphans>>

\* unload_toolset: on_unload ends the session; if closing it fails, the session
\* is gone and the toolset is still loaded.
UnloadsToolset(n) ==
  /\ InTurn /\ task = NoTask
  /\ sessions' = IF n = "browser" /\ n \in loaded \cap catalog
                 THEN sessions \ {turn} ELSE sessions
  /\ \/ loaded' = loaded \ {n}
     \/ turn \in sessions \ sessions' /\ UNCHANGED loaded
  /\ UNCHANGED <<mcpVars, catalog, builtin, stored, turn, task, orphans>>

\* Threads are stored; the catalog, the sessions and the clients are not.
RestartRegistry ==
  /\ RestartMcp
  /\ catalog' = {} /\ builtin' = FALSE
  /\ turn' = NoThread /\ loaded' = {} /\ task' = NoTask
  /\ sessions' = {} /\ orphans' = {}
  /\ UNCHANGED stored

\* What the manager does of itself, and the calls of the API.
McpStep(A) == A /\ UNCHANGED toolVars
ApiCall(A) == Serving /\ A /\ UNCHANGED toolVars

RegistryNext ==
  \/ \E s \in Servers :
       \/ McpStep(EnableConfigured(s)) \/ ApiCall(EnableServer(Api, s))
       \/ ApiCall(RefreshServer(Api, s)) \/ ApiCall(DisableServer(Api, s))
  \/ \E j \in Callers :
       \/ McpStep(Connect(j)) \/ McpStep(ListTools(j)) \/ McpStep(AttemptFails(j))
       \/ McpStep(Store(j)) \/ McpStep(StoreFailure(j)) \/ McpStep(Read(j))
       \/ McpStep(CloseReplaced(j)) \/ McpStep(ToolReturns(j))
  \/ McpStep(EndCall(Loader)) \/ SyncAtStart \/ ApiReturns
  \/ \E t \in ToolThreads : BeginTurn(t) \/ ClearThread(t)
  \/ \E n \in Toolsets : CallsTool(n) \/ LoadsToolset(n) \/ UnloadsToolset(n)
  \/ SaveToolsets \/ EndTurn \/ ListsTools \/ ResolveStatic \/ ResolveServer \/ Resolved
  \/ ResolveFails \/ Listed \/ Load \/ CallNotFound \/ CallServer
  \/ CallNotConnected \/ Called \/ CallBrowser \/ RestartRegistry

RegistrySpec == RegistryInit /\ [][RegistryNext]_registryVars
-----------------------------------------------------------------------------
RegistryTypeOK ==
  /\ McpTypeOK
  /\ catalog \in SUBSET Toolsets /\ builtin \in BOOLEAN
  /\ stored \in [ToolThreads -> SUBSET Toolsets]
  /\ turn \in ToolThreads \cup {NoThread} /\ loaded \in SUBSET Toolsets
  /\ task.rest \in SUBSET Toolsets
  /\ sessions \in SUBSET ToolThreads /\ orphans \in SUBSET ToolThreads

Loaded(t) == IF turn = t THEN loaded ELSE stored[t]

\* Browser sessions are not leaked: a thread that has one has the toolset
\* loaded, so that its model can still use or end it, however often a turn
\* loads and unloads, fails half way or meets a failing close.  The only other
\* way is the one the code leaves open: /clear, or the loss of the turn that
\* loaded it, drops the toolset and keeps the session.
SessionIsLoaded ==
  \A t \in sessions : "browser" \in Loaded(t) \/ t \in orphans
=============================================================================
