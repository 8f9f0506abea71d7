----------------------------- MODULE McpManager -----------------------------
(***************************************************************************)
(* The McpManager of src/src/agent/tool/mcp/mod.rs: the table of configured *)
(* MCP servers behind one RwLock, and the calls that connect, probe,        *)
(* replace and close their clients.                                         *)
(*                                                                          *)
(* Every call takes the lock for one step at a time and awaits the remote   *)
(* server without it, so the steps of two callers interleave: the turn of   *)
(* the agent worker, the loading of the configuration and the public        *)
(* ToolRegistry::mcp() API share the manager.  A client is a connection or  *)
(* a child process, numbered in the order it is opened; 0 is none.          *)
(***************************************************************************)
EXTENDS Naturals

CONSTANTS
  Servers,      \* the names of servers
  Configs,      \* the sets of them a configuration may register
  Callers,      \* who may be inside a call of the manager
  Loader,       \* the caller that loads the configuration
  Attempts,     \* [Servers -> Nat]: 1 for stdio, retries for streamable_http
  RemoteTools,  \* what a server may list
  NoServer,     \* no server
  MaxClients    \* bound on the connections that are ever opened

VARIABLES
  known,     \* the names the configuration registered
  servers,   \* the table: one ManagedMcpServer for each name
  starting,  \* the servers load_definitions has still to enable
  jobs,      \* where every caller is
  open,      \* the clients that are open
  clients    \* how many were ever opened

mcpVars == <<known, servers, starting, jobs, open, clients>>

States == {"Disabled", "Healthy", "Unhealthy"}

Idle == [at |-> "idle", server |-> NoServer, attempt |-> 0,
         client |-> 0, old |-> 0, tools |-> {}]

\* register: known, not enabled, loadable by a thread.
Registered == [enabled |-> FALSE, loadable |-> TRUE, state |-> "Disabled",
               tools |-> {}, client |-> 0]

\* load_definitions has registered the configured servers and enables some.
McpInit ==
  /\ known \in Configs
  /\ servers = [s \in Servers |-> Registered]
  /\ starting \in SUBSET known
  /\ jobs = [j \in Callers |-> Idle]
  /\ open = {} /\ clients = 0

\* The configuration has been loaded; nobody else has the manager before.
ConfigLoaded == starting = {} /\ jobs[Loader].at = "idle"

Begin(j, s, at) ==
  jobs' = [jobs EXCEPT ![j] = [Idle EXCEPT !.at = at, !.server = s, !.attempt = 1]]
-----------------------------------------------------------------------------
(* The calls.  One that is refused under the first read lock changes nothing  *)
(* and is no step.                                                            *)

\* load_definitions goes on to the next server whatever became of the last.
EnableConfigured(s) ==
  /\ s \in starting /\ jobs[Loader].at = "idle"
  /\ starting' = starting \ {s}
  /\ Begin(Loader, s, "probe")
  /\ UNCHANGED <<known, servers, open, clients>>

EnableServer(j, s) ==
  /\ ConfigLoaded /\ jobs[j].at = "idle" /\ s \in known
  /\ Begin(j, s, "probe")
  /\ UNCHANGED <<known, servers, starting, open, clients>>

\* A server that is not enabled is only looked at.
RefreshServer(j, s) ==
  /\ ConfigLoaded /\ jobs[j].at = "idle" /\ s \in known
  /\ Begin(j, s, IF servers[s].enabled THEN "probe" ELSE "read")
  /\ UNCHANGED <<known, servers, starting, open, clients>>

EnsureServerTools(j, s) ==
  /\ ConfigLoaded /\ jobs[j].at = "idle" /\ s \in known /\ servers[s].loadable
  /\ Begin(j, s, IF servers[s].enabled /\ servers[s].state = "Healthy"
                 THEN "read" ELSE "probe")
  /\ UNCHANGED <<known, servers, starting, open, clients>>

\* Slip: a server that is disabled keeps its client.
DisableServerOnly(j, s) ==
  /\ ConfigLoaded /\ jobs[j].at = "idle" /\ s \in known
  /\ servers' = [servers EXCEPT ![s].enabled = FALSE, ![s].loadable = FALSE,
                                ![s].state = "Disabled", ![s].tools = {}]
  /\ Begin(j, s, "close")
  /\ UNCHANGED <<known, starting, open, clients>>

\* Under one write lock; a probe that is under way is not told.
DisableServer(j, s) ==
  /\ ConfigLoaded /\ jobs[j].at = "idle" /\ s \in known
  /\ servers' = [servers EXCEPT ![s] = [Registered EXCEPT !.loadable = FALSE]]
  /\ jobs' = [jobs EXCEPT ![j] =
       [Idle EXCEPT !.at = "close", !.server = s, !.old = servers[s].client]]
  /\ UNCHANGED <<known, starting, open, clients>>

\* call_tool takes the peer of the client and calls it without the lock.
CallTool(j, s) ==
  /\ ConfigLoaded /\ jobs[j].at = "idle" /\ servers[s].client # 0
  /\ jobs' = [jobs EXCEPT ![j] =
       [Idle EXCEPT !.at = "calling", !.server = s, !.client = servers[s].client]]
  /\ UNCHANGED <<known, servers, starting, open, clients>>
-----------------------------------------------------------------------------
(* The steps of a call *)

\* connect_server
Connect(j) ==
  /\ jobs[j].at = "probe" /\ clients < MaxClients
  /\ clients' = clients + 1
  /\ open' = open \cup {clients + 1}
  /\ jobs' = [jobs EXCEPT ![j].at = "listing", ![j].client = clients + 1]
  /\ UNCHANGED <<known, servers, starting>>

\* list_all_tools answers.
ListTools(j) ==
  /\ jobs[j].at = "listing"
  /\ \E T \in SUBSET RemoteTools :
       jobs' = [jobs EXCEPT ![j].at = "store", ![j].tools = T]
  /\ UNCHANGED <<known, servers, starting, open, clients>>

\* An attempt fails; the client it may have opened is closed.
AttemptFails(j) ==
  /\ jobs[j].at \in {"probe", "listing"}
  /\ open' = open \ {jobs[j].client}
  /\ jobs' = [jobs EXCEPT ![j].client = 0, ![j].attempt = jobs[j].attempt + 1, ![j].at =
       IF jobs[j].attempt < Attempts[jobs[j].server] THEN "probe" ELSE "fail"]
  /\ UNCHANGED <<known, servers, starting, clients>>

\* The probe succeeded: the client and its tools replace what is there.
Store(j) ==
  LET s == jobs[j].server IN
  /\ jobs[j].at = "store"
  /\ servers' = [servers EXCEPT ![s] =
       [enabled |-> TRUE, loadable |-> TRUE, state |-> "Healthy",
        tools |-> jobs[j].tools, client |-> jobs[j].client]]
  /\ jobs' = [jobs EXCEPT ![j] =
       [Idle EXCEPT !.at = "close", !.server = s, !.old = servers[s].client]]
  /\ UNCHANGED <<known, starting, open, clients>>

\* The probe failed: also the client of an earlier success is replaced.
StoreFailure(j) ==
  LET s == jobs[j].server IN
  /\ jobs[j].at = "fail"
  /\ servers' = [servers EXCEPT ![s] =
       [Registered EXCEPT !.enabled = TRUE, !.state = "Unhealthy"]]
  /\ jobs' = [jobs EXCEPT ![j] =
       [Idle EXCEPT !.at = "closefailed", !.server = s, !.old = servers[s].client]]
  /\ UNCHANGED <<known, starting, open, clients>>

\* close_client, after the lock is released.
CloseReplaced(j) ==
  /\ jobs[j].at \in {"close", "closefailed"}
  /\ open' = open \ {jobs[j].old}
  /\ jobs' = [jobs EXCEPT ![j].old = 0,
       ![j].at = IF jobs[j].at = "close" THEN "read" ELSE "failed"]
  /\ UNCHANGED <<known, servers, starting, clients>>

\* server_snapshot or visible_tools_for_server, under a lock of its own.
Read(j) ==
  /\ jobs[j].at = "read"
  /\ jobs' = [jobs EXCEPT ![j].at = "ok", ![j].tools = servers[jobs[j].server].tools]
  /\ UNCHANGED <<known, servers, starting, open, clients>>

\* The remote answers or fails; nothing answers a client that was closed.
ToolReturns(j) ==
  /\ jobs[j].at = "calling"
  /\ \E at \in {"ok", "failed"} :
       /\ at = "ok" => jobs[j].client \in open
       /\ jobs' = [jobs EXCEPT ![j] = [Idle EXCEPT !.at = at, !.server = jobs[j].server]]
  /\ UNCHANGED <<known, servers, starting, open, clients>>

EndCall(j) ==
  /\ jobs[j].at \in {"ok", "failed"}
  /\ jobs' = [jobs EXCEPT ![j] = Idle]
  /\ UNCHANGED <<known, servers, starting, open, clients>>

\* The process ends with its clients and starts with another configuration.
RestartMcp ==
  /\ known' \in Configs
  /\ servers' = [s \in Servers |-> Registered]
  /\ starting' \in SUBSET known'
  /\ jobs' = [j \in Callers |-> Idle]
  /\ open' = {} /\ UNCHANGED clients

McpNext ==
  \/ \E s \in Servers : EnableConfigured(s)
  \/ \E j \in Callers \ {Loader}, s \in Servers :
       \/ EnableServer(j, s) \/ RefreshServer(j, s) \/ EnsureServerTools(j, s)
       \/ DisableServer(j, s) \/ CallTool(j, s)
  \/ \E j \in Callers :
       \/ Connect(j) \/ ListTools(j) \/ AttemptFails(j) \/ Store(j)
       \/ StoreFailure(j) \/ CloseReplaced(j) \/ Read(j) \/ ToolReturns(j)
       \/ EndCall(j)
  \/ RestartMcp

McpSpec == McpInit /\ [][McpNext]_mcpVars
-----------------------------------------------------------------------------
Stations == {"idle", "probe", "listing", "store", "fail", "close",
             "closefailed", "read", "calling", "ok", "failed"}

Jobs == [at : Stations, server : Servers \cup {NoServer}, attempt : Nat,
         client : Nat, old : Nat, tools : SUBSET RemoteTools]

McpTypeOK ==
  /\ known \in Configs
  /\ servers \in [Servers -> [enabled : BOOLEAN, loadable : BOOLEAN,
                               state : States, tools : SUBSET RemoteTools,
                               client : Nat]]
  /\ starting \in SUBSET known
  /\ jobs \in [Callers -> Jobs]
  /\ open \in SUBSET (1 .. clients) /\ clients \in Nat

\* Who answers for closing client c.
Holders(c) ==
  {<<"entry", s>> : s \in {x \in Servers : servers[x].client = c}}
    \cup {<<"probe", j>> : j \in {x \in Callers :
            jobs[x].at \in {"listing", "store"} /\ jobs[x].client = c}}
    \cup {<<"close", j>> : j \in {x \in Callers : jobs[x].old = c}}

\* Whatever calls overlap, no client is lost and none is closed under the
\* table: an open client is in one place, the entry of a server, the probe that
\* opened it or the call that closes it, and a client in the table is open; it
\* is there exactly when the server is healthy, and only then are there tools.
ClientsHeld ==
  /\ \A c \in open : \E h \in Holders(c) : Holders(c) = {h}
  /\ \A s \in Servers :
       /\ servers[s].client # 0 => servers[s].client \in open
       /\ servers[s].client # 0 <=> servers[s].state = "Healthy"
       /\ servers[s].tools # {} => servers[s].state = "Healthy"
=============================================================================
