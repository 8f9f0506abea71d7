----------------------------- MODULE ToolProofs -----------------------------
(***************************************************************************)
(* The MCP manager loses no connection, for any number of servers, callers  *)
(* and retries; the tool registry over it only takes steps of the manager,  *)
(* and keeps every browser session with a thread that can end it; a tool of *)
(* the browser reports the answers to its own requests, for any noise.      *)
(***************************************************************************)
EXTENDS ToolRegistry, BrowserSession, TLAPS

\* The client that a server, a probe or a closing call answers for; 0: none.
EntryOf(s) == servers[s].client
ProbeOf(j) == IF jobs[j].at \in {"listing", "store"} THEN jobs[j].client ELSE 0
OldOf(j) == jobs[j].old

\* The table says what its clients are.
TableSays ==
  \A s \in Servers :
    /\ servers[s].client # 0 <=> servers[s].state = "Healthy"
    /\ servers[s].tools # {} => servers[s].state = "Healthy"

\* A call is about a server; a probe has a client from its connection to its
\* end, a call an old one only to close it.
JobsSay ==
  \A j \in Callers :
    /\ jobs[j].at # "idle" => jobs[j].server \in Servers
    /\ jobs[j].at \in {"listing", "store"} => jobs[j].client # 0
    /\ jobs[j].at \in {"probe", "fail"} => jobs[j].client = 0
    /\ jobs[j].at \notin {"close", "closefailed"} => jobs[j].old = 0

\* What is held is open, once, and what is open is held.
HeldIsOpen ==
  /\ \A s \in Servers : EntryOf(s) \in open \cup {0}
  /\ \A j \in Callers : ProbeOf(j) \in open \cup {0} /\ OldOf(j) \in open \cup {0}

HeldOnce ==
  /\ \A s, r \in Servers : s # r /\ EntryOf(s) = EntryOf(r) => EntryOf(s) = 0
  /\ \A j, k \in Callers :
       /\ j # k /\ ProbeOf(j) = ProbeOf(k) => ProbeOf(j) = 0
       /\ j # k /\ OldOf(j) = OldOf(k) => OldOf(j) = 0
       /\ ProbeOf(j) = OldOf(k) => ProbeOf(j) = 0
  /\ \A s \in Servers, j \in Callers :
       /\ EntryOf(s) = ProbeOf(j) => EntryOf(s) = 0
       /\ EntryOf(s) = OldOf(j) => EntryOf(s) = 0

OpenIsHeld ==
  \A c \in open :
    \/ \E s \in Servers : EntryOf(s) = c
    \/ \E j \in Callers : ProbeOf(j) = c \/ OldOf(j) = c

McpInv ==
  McpTypeOK /\ TableSays /\ JobsSay /\ HeldIsOpen /\ HeldOnce /\ OpenIsHeld
-----------------------------------------------------------------------------
\* At the start nothing is connected.
LEMMA McpInvInit == McpInit => McpInv
<1> SUFFICES ASSUME McpInit PROVE McpInv
  OBVIOUS
<1>1. McpTypeOK
  BY DEF McpInit, McpTypeOK, Registered, States, Idle, Jobs, Stations
<1>2. TableSays /\ JobsSay /\ HeldIsOpen /\ HeldOnce /\ OpenIsHeld
  BY DEF McpInit, TableSays, JobsSay, HeldIsOpen, HeldOnce, OpenIsHeld, EntryOf,
     ProbeOf, OldOf, Registered, Idle
<1> QED
  BY <1>1, <1>2 DEF McpInv

\* What a job holds is all that matters of a step that changes no more.
LEMMA QuietStep ==
  ASSUME McpInv, NEW j, NEW r \in Jobs,
         jobs' = [jobs EXCEPT ![j] = r],
         j \in Callers =>
           jobs[j].at \in {"idle", "read", "calling", "ok", "failed"},
         r.at \in {"idle", "probe", "read", "calling", "ok", "failed"},
         r.old = 0, r.at = "probe" => r.client = 0,
         r.at # "idle" => r.server \in Servers,
         UNCHANGED <<known, servers, open, clients>>, starting' \in SUBSET known
  PROVE  McpInv'
<1>1. \A k \in Callers : jobs'[k] = IF k = j THEN r ELSE jobs[k]
  BY DEF McpInv, McpTypeOK
<1>2. \A k \in Callers : ProbeOf(k)' = ProbeOf(k) /\ OldOf(k)' = OldOf(k)
  BY <1>1 DEF McpInv, JobsSay, ProbeOf, OldOf
<1>3. \A s \in Servers : EntryOf(s)' = EntryOf(s)
  BY DEF EntryOf
<1>4. McpTypeOK'
  BY DEF McpInv, McpTypeOK
<1>5. TableSays'
  BY DEF McpInv, TableSays
<1>6. JobsSay'
  BY <1>1 DEF McpInv, JobsSay
<1>7. HeldIsOpen' /\ HeldOnce' /\ OpenIsHeld'
  BY <1>2, <1>3 DEF McpInv, HeldIsOpen, HeldOnce, OpenIsHeld
<1> QED
  BY <1>4, <1>5, <1>6, <1>7 DEF McpInv
\* A call begins with what it is asked for and holds nothing.
LEMMA BeginsKeepInv ==
  ASSUME McpInv, NEW j, NEW s \in Servers,
         \/ EnableServer(j, s) \/ RefreshServer(j, s) \/ EnsureServerTools(j, s)
         \/ EnableConfigured(s) \/ CallTool(j, s)
  PROVE  McpInv'
<1> DEFINE Asks(at, c) == [Idle EXCEPT !.at = at, !.server = s, !.attempt = c]
<1>1. CASE CallTool(j, s)
  <2> DEFINE r == [Idle EXCEPT !.at = "calling", !.server = s, !.client = servers[s].client]
  <2>1. r \in Jobs /\ r.at = "calling" /\ r.old = 0 /\ r.server = s
    BY DEF McpInv, McpTypeOK, Idle, Jobs, Stations
  <2>2. jobs' = [jobs EXCEPT ![j] = r] /\ jobs[j].at = "idle"
        /\ UNCHANGED <<known, servers, starting, open, clients>>
    BY <1>1 DEF CallTool
  <2> HIDE DEF r
  <2> QED
    BY <2>1, <2>2, QuietStep DEF McpInv, McpTypeOK
<1>2. ASSUME NEW k, NEW at \in {"probe", "read"},
             jobs' = [jobs EXCEPT ![k] = Asks(at, 1)],
             jobs[k].at = "idle", UNCHANGED <<known, servers, open, clients>>,
             starting' \in SUBSET known
      PROVE  McpInv'
  <2>1. Asks(at, 1) \in Jobs /\ Asks(at, 1).at = at /\ Asks(at, 1).old = 0
        /\ Asks(at, 1).client = 0 /\ Asks(at, 1).server = s
    BY DEF Idle, Jobs, Stations
  <2> HIDE DEF Asks
  <2> QED
    BY <2>1, <1>2, QuietStep
<1>3. starting \in SUBSET known
  BY DEF McpInv, McpTypeOK
<1>4. CASE EnableServer(j, s)
  BY <1>4, <1>2, <1>3 DEF EnableServer, Begin
<1>5. CASE RefreshServer(j, s)
  <2>1. CASE servers[s].enabled
    BY <2>1, <1>5, <1>2, <1>3 DEF RefreshServer, Begin
  <2>2. CASE ~servers[s].enabled
    BY <2>2, <1>5, <1>2, <1>3 DEF RefreshServer, Begin
  <2> QED
    BY <2>1, <2>2
<1>6. CASE EnsureServerTools(j, s)
  <2>1. CASE servers[s].enabled /\ servers[s].state = "Healthy"
    BY <2>1, <1>6, <1>2, <1>3 DEF EnsureServerTools, Begin
  <2>2. CASE ~(servers[s].enabled /\ servers[s].state = "Healthy")
    BY <2>2, <1>6, <1>2, <1>3 DEF EnsureServerTools, Begin
  <2> QED
    BY <2>1, <2>2
<1>7. CASE EnableConfigured(s)
  BY <1>7, <1>2, <1>3 DEF EnableConfigured, Begin
<1> QED
  BY <1>1, <1>4, <1>5, <1>6, <1>7

\* A call that has read, or that the remote has answered, holds nothing.
LEMMA ReadsKeepInv ==
  ASSUME McpInv, NEW j \in Callers, Read(j) \/ ToolReturns(j) \/ EndCall(j)
  PROVE  McpInv'
<1>1. /\ jobs \in [Callers -> Jobs] /\ starting \in SUBSET known
      /\ \A s \in Servers : servers[s].tools \in SUBSET RemoteTools
      /\ jobs[j].at # "idle" => jobs[j].server \in Servers
      /\ jobs[j].at \notin {"close", "closefailed"} => jobs[j].old = 0
  BY DEF McpInv, McpTypeOK, JobsSay
<1>2. CASE Read(j)
  <2> DEFINE r == [jobs[j] EXCEPT !.at = "ok", !.tools = servers[jobs[j].server].tools]
  <2>1. jobs' = [jobs EXCEPT ![j] = r] /\ jobs[j].at = "read"
        /\ UNCHANGED <<known, servers, starting, open, clients>>
    BY <1>1, <1>2 DEF Read
  <2>2. r \in Jobs /\ r.at = "ok" /\ r.old = 0 /\ r.server \in Servers
    BY <1>1, <2>1 DEF Jobs, Stations
  <2> HIDE DEF r
  <2> QED
    BY <1>1, <2>1, <2>2, QuietStep
<1>3. CASE ToolReturns(j)
  <2>1. PICK at \in {"ok", "failed"} :
          jobs' = [jobs EXCEPT ![j] = [Idle EXCEPT !.at = at, !.server = jobs[j].server]]
    BY <1>3 DEF ToolReturns
  <2> DEFINE r == [Idle EXCEPT !.at = at, !.server = jobs[j].server]
  <2>2. jobs[j].at = "calling" /\ UNCHANGED <<known, servers, starting, open, clients>>
    BY <1>3 DEF ToolReturns
  <2>3. r \in Jobs /\ r.at = at /\ r.old = 0 /\ r.server \in Servers
    BY <1>1, <2>2 DEF Jobs, Stations, Idle
  <2>4. jobs' = [jobs EXCEPT ![j] = r]
    BY <2>1
  <2> HIDE DEF r
  <2> QED
    BY <1>1, <2>2, <2>3, <2>4, QuietStep
<1>4. CASE EndCall(j)
  <2>1. jobs' = [jobs EXCEPT ![j] = Idle] /\ jobs[j].at \in {"ok", "failed"}
        /\ UNCHANGED <<known, servers, starting, open, clients>>
    BY <1>4 DEF EndCall
  <2>2. Idle \in Jobs /\ Idle.at = "idle" /\ Idle.old = 0
    BY DEF Idle, Jobs, Stations
  <2> HIDE DEF Idle
  <2> QED
    BY <1>1, <2>1, <2>2, QuietStep
<1> QED
  BY <1>2, <1>3, <1>4

\* A connection is new, and held by its probe.
LEMMA ConnectKeepsInv ==
  ASSUME McpInv, NEW j \in Callers, Connect(j) PROVE McpInv'
<1>1. /\ jobs[j].at = "probe" /\ clients' = clients + 1
      /\ open' = open \cup {clients + 1}
      /\ jobs' = [jobs EXCEPT ![j].at = "listing", ![j].client = clients + 1]
      /\ UNCHANGED <<known, servers, starting>>
  BY DEF Connect
<1>2. /\ jobs \in [Callers -> Jobs] /\ clients \in Nat /\ open \subseteq 1 .. clients
  BY DEF McpInv, McpTypeOK
<1>3. /\ jobs' \in [Callers -> Jobs]
      /\ jobs'[j].at = "listing" /\ jobs'[j].client = clients + 1
      /\ jobs'[j].old = jobs[j].old /\ jobs'[j].server = jobs[j].server
      /\ \A k \in Callers : k # j => jobs'[k] = jobs[k]
  <2> DEFINE r == [jobs[j] EXCEPT !.at = "listing", !.client = clients + 1]
  <2>1. jobs' = [jobs EXCEPT ![j] = r]
    BY <1>1, <1>2
  <2>2. clients + 1 \in Nat /\ "listing" \in Stations
    BY <1>2 DEF Stations
  <2>3. r \in Jobs /\ r.at = "listing" /\ r.client = clients + 1
        /\ r.old = jobs[j].old /\ r.server = jobs[j].server
    BY <1>2, <2>2 DEF Jobs
  <2> HIDE DEF r
  <2> QED
    BY <1>2, <2>1, <2>3
<1>4. /\ \A k \in Callers : k # j => ProbeOf(k)' = ProbeOf(k)
      /\ \A k \in Callers : OldOf(k)' = OldOf(k)
      /\ ProbeOf(j) = 0 /\ ProbeOf(j)' = clients + 1
      /\ \A s \in Servers : EntryOf(s)' = EntryOf(s)
  BY <1>1, <1>3 DEF ProbeOf, OldOf, EntryOf
<1>5. McpTypeOK'
  BY <1>1, <1>2, <1>3 DEF McpInv, McpTypeOK
<1>6. TableSays' /\ JobsSay'
  BY <1>1, <1>2, <1>3 DEF McpInv, TableSays, JobsSay
<1>7. clients + 1 \notin open /\ clients + 1 # 0
  BY <1>2
<1>8. HeldIsOpen'
  BY <1>1, <1>4 DEF McpInv, HeldIsOpen
<1>9. /\ \A s \in Servers : EntryOf(s) # clients + 1
      /\ \A k \in Callers : ProbeOf(k) # clients + 1 /\ OldOf(k) # clients + 1
  BY <1>7 DEF McpInv, HeldIsOpen
<1> DEFINE new == clients + 1
<1>10. /\ \A s \in Servers : EntryOf(s)' = EntryOf(s)
       /\ \A k \in Callers : OldOf(k)' = OldOf(k)
       /\ \A k \in Callers : k # j => ProbeOf(k)' = ProbeOf(k)
       /\ ProbeOf(j)' = new
       /\ \A s \in Servers : EntryOf(s) # new
       /\ \A k \in Callers : ProbeOf(k) # new /\ OldOf(k) # new
  BY <1>4, <1>9
<1> HIDE DEF new
<1>11. HeldOnce'
  <2>1. \A s, r \in Servers : s # r /\ EntryOf(s)' = EntryOf(r)' => EntryOf(s)' = 0
    BY <1>10 DEF McpInv, HeldOnce
  <2>2. ASSUME NEW i \in Callers, NEW k \in Callers
        PROVE  /\ i # k /\ ProbeOf(i)' = ProbeOf(k)' => ProbeOf(i)' = 0
               /\ i # k /\ OldOf(i)' = OldOf(k)' => OldOf(i)' = 0
               /\ ProbeOf(i)' = OldOf(k)' => ProbeOf(i)' = 0
    <3>1. /\ OldOf(i)' = OldOf(i) /\ OldOf(k)' = OldOf(k)
          /\ ProbeOf(i)' = IF i = j THEN new ELSE ProbeOf(i)
          /\ ProbeOf(k)' = IF k = j THEN new ELSE ProbeOf(k)
      BY <1>10
    <3>2. /\ ProbeOf(i) # new /\ ProbeOf(k) # new /\ OldOf(k) # new
      BY <1>9 DEF new
    <3>3. /\ i # k /\ ProbeOf(i) = ProbeOf(k) => ProbeOf(i) = 0
          /\ i # k /\ OldOf(i) = OldOf(k) => OldOf(i) = 0
          /\ ProbeOf(i) = OldOf(k) => ProbeOf(i) = 0
      BY DEF McpInv, HeldOnce
    <3> QED
      BY <3>1, <3>2, <3>3
  <2>3. ASSUME NEW s \in Servers, NEW k \in Callers
        PROVE  /\ EntryOf(s)' = ProbeOf(k)' => EntryOf(s)' = 0
               /\ EntryOf(s)' = OldOf(k)' => EntryOf(s)' = 0
    <3>1. (EntryOf(s)' = EntryOf(s)) /\ (OldOf(k)' = OldOf(k))
      BY <1>4
    <3>2. CASE k = j
      BY <1>10, <3>1, <3>2 DEF McpInv, HeldOnce
    <3>3. CASE k # j
      BY <1>10, <3>1, <3>3 DEF McpInv, HeldOnce
    <3> QED
      BY <3>2, <3>3
  <2> QED
    BY <2>1, <2>2, <2>3 DEF HeldOnce
<1>12. OpenIsHeld'
  <2>1. 0 \notin open
    BY <1>2
  <2>2. ASSUME NEW c \in open'
        PROVE  \/ \E s \in Servers : EntryOf(s)' = c
               \/ \E k \in Callers : ProbeOf(k)' = c \/ OldOf(k)' = c
    <3>1. CASE c = clients + 1
      BY <1>4, <3>1
    <3>2. CASE c \in open
      BY <1>4, <2>1, <3>2 DEF McpInv, OpenIsHeld
    <3> QED
      BY <1>1, <2>2, <3>1, <3>2
  <2> QED
    BY <2>2 DEF OpenIsHeld
<1> QED
  BY <1>5, <1>6, <1>8, <1>11, <1>12 DEF McpInv

\* A list of tools is kept by its probe.
LEMMA ListToolsKeepsInv ==
  ASSUME McpInv, NEW j \in Callers, ListTools(j) PROVE McpInv'
<1>1. PICK T \in SUBSET RemoteTools :
        /\ jobs[j].at = "listing"
        /\ jobs' = [jobs EXCEPT ![j].at = "store", ![j].tools = T]
        /\ UNCHANGED <<known, servers, starting, open, clients>>
  BY DEF ListTools
<1>2. jobs \in [Callers -> Jobs]
  BY DEF McpInv, McpTypeOK
<1>3. /\ jobs' \in [Callers -> Jobs]
      /\ jobs'[j].at = "store" /\ jobs'[j].client = jobs[j].client
      /\ jobs'[j].old = jobs[j].old /\ jobs'[j].server = jobs[j].server
      /\ \A k \in Callers : k # j => jobs'[k] = jobs[k]
  <2> DEFINE r == [jobs[j] EXCEPT !.at = "store", !.tools = T]
  <2>1. jobs' = [jobs EXCEPT ![j] = r]
    BY <1>1, <1>2
  <2>2. r \in Jobs /\ r.at = "store" /\ r.client = jobs[j].client
        /\ r.old = jobs[j].old /\ r.server = jobs[j].server
    BY <1>2 DEF Jobs, Stations
  <2> HIDE DEF r
  <2> QED
    BY <1>2, <2>1, <2>2
<1>4. /\ \A k \in Callers : ProbeOf(k)' = ProbeOf(k) /\ OldOf(k)' = OldOf(k)
      /\ \A s \in Servers : EntryOf(s)' = EntryOf(s)
  BY <1>1, <1>3 DEF ProbeOf, OldOf, EntryOf
<1>5. McpTypeOK'
  BY <1>1, <1>3 DEF McpInv, McpTypeOK
<1>6. TableSays' /\ JobsSay'
  BY <1>1, <1>3 DEF McpInv, TableSays, JobsSay
<1>7. HeldIsOpen' /\ HeldOnce' /\ OpenIsHeld'
  BY <1>1, <1>4 DEF McpInv, HeldIsOpen, HeldOnce, OpenIsHeld
<1> QED
  BY <1>5, <1>6, <1>7 DEF McpInv

\* A failed attempt closes the client it has opened, and nobody else's.
LEMMA AttemptFailsKeepsInv ==
  ASSUME McpInv, NEW j \in Callers, AttemptFails(j) PROVE McpInv'
<1> DEFINE again == IF jobs[j].attempt < Attempts[jobs[j].server] THEN "probe" ELSE "fail"
<1>1. /\ jobs[j].at \in {"probe", "listing"}
      /\ open' = open \ {jobs[j].client}
      /\ jobs' = [jobs EXCEPT ![j].client = 0, ![j].attempt = jobs[j].attempt + 1,
                              ![j].at = again]
      /\ UNCHANGED <<known, servers, starting, clients>>
  BY DEF AttemptFails
<1>2. jobs \in [Callers -> Jobs]
  BY DEF McpInv, McpTypeOK
<1> again \in {"probe", "fail"}
  OBVIOUS
<1> HIDE DEF again
<1>3. /\ jobs' \in [Callers -> Jobs]
      /\ jobs'[j].at = again /\ jobs'[j].client = 0 /\ jobs'[j].old = jobs[j].old
      /\ jobs'[j].server = jobs[j].server
      /\ \A k \in Callers : k # j => jobs'[k] = jobs[k]
  <2> DEFINE r == [jobs[j] EXCEPT !.client = 0, !.attempt = jobs[j].attempt + 1,
                                  !.at = again]
  <2>1. jobs' = [jobs EXCEPT ![j] = r]
    BY <1>1, <1>2
  <2>2. jobs[j].attempt + 1 \in Nat /\ again \in Stations
    BY <1>2 DEF Stations, Jobs
  <2>3. r \in Jobs /\ r.at = again /\ r.client = 0
        /\ r.old = jobs[j].old /\ r.server = jobs[j].server
    BY <1>2, <2>2 DEF Jobs
  <2> HIDE DEF r
  <2> QED
    BY <1>2, <2>1, <2>3
<1>4. /\ \A k \in Callers : k # j => ProbeOf(k)' = ProbeOf(k)
      /\ \A k \in Callers : OldOf(k)' = OldOf(k)
      /\ ProbeOf(j) = jobs[j].client /\ ProbeOf(j)' = 0
      /\ \A s \in Servers : EntryOf(s)' = EntryOf(s)
  BY <1>1, <1>3 DEF ProbeOf, OldOf, EntryOf, McpInv, JobsSay
<1>5. McpTypeOK'
  BY <1>1, <1>3 DEF McpInv, McpTypeOK
<1>6. TableSays' /\ JobsSay'
  BY <1>1, <1>3 DEF McpInv, TableSays, JobsSay
<1>7. HeldIsOpen' /\ HeldOnce' /\ OpenIsHeld'
  BY <1>1, <1>4 DEF McpInv, HeldIsOpen, HeldOnce, OpenIsHeld
<1> QED
  BY <1>5, <1>6, <1>7 DEF McpInv

\* Under the lock the client in the table is exchanged for the one of the call.
LEMMA ReplaceKeepsInv ==
  ASSUME McpInv, NEW j \in Callers, NEW s \in Servers, NEW e, NEW at,
         e \in [enabled : BOOLEAN, loadable : BOOLEAN, state : States,
                tools : SUBSET RemoteTools, client : Nat],
         e.client = ProbeOf(j), e.client # 0 <=> e.state = "Healthy",
         e.tools # {} => e.state = "Healthy",
         at \in {"close", "closefailed"},
         jobs[j].at \in {"idle", "store", "fail"},
         servers' = [servers EXCEPT ![s] = e],
         jobs' = [jobs EXCEPT ![j] =
           [Idle EXCEPT !.at = at, !.server = s, !.old = servers[s].client]],
         UNCHANGED <<known, starting, open, clients>>
  PROVE  McpInv'
<1>1. jobs \in [Callers -> Jobs] /\ servers[s].client \in Nat
      /\ servers \in [Servers -> [enabled : BOOLEAN, loadable : BOOLEAN,
           state : States, tools : SUBSET RemoteTools, client : Nat]]
  BY DEF McpInv, McpTypeOK
<1>2. /\ jobs' \in [Callers -> Jobs] /\ jobs'[j].server = s
      /\ jobs'[j].at = at /\ jobs'[j].client = 0 /\ jobs'[j].old = servers[s].client
      /\ \A k \in Callers : k # j => jobs'[k] = jobs[k]
  BY <1>1 DEF Jobs, Stations, Idle
<1>3. servers'[s] = e /\ \A r \in Servers : r # s => servers'[r] = servers[r]
  BY <1>1
<1>4. /\ \A k \in Callers : k # j => ProbeOf(k)' = ProbeOf(k) /\ OldOf(k)' = OldOf(k)
      /\ ProbeOf(j)' = 0 /\ OldOf(j)' = EntryOf(s) /\ OldOf(j) = 0
      /\ EntryOf(s)' = ProbeOf(j)
      /\ \A r \in Servers : r # s => EntryOf(r)' = EntryOf(r)
  BY <1>2, <1>3 DEF ProbeOf, OldOf, EntryOf, McpInv, JobsSay
<1>5. McpTypeOK'
  BY <1>1, <1>2 DEF McpInv, McpTypeOK
<1>6. TableSays'
  BY <1>3 DEF McpInv, TableSays
<1>7. JobsSay'
  BY <1>2 DEF McpInv, JobsSay
<1>8. HeldIsOpen'
  BY <1>4 DEF McpInv, HeldIsOpen
<1>9. HeldOnce'
  BY <1>4 DEF McpInv, HeldOnce
<1>10. OpenIsHeld'
  BY <1>4 DEF McpInv, OpenIsHeld
<1> QED
  BY <1>5, <1>6, <1>7, <1>8, <1>9, <1>10 DEF McpInv

\* What the two ends of a probe put into the table.
LEMMA StoresKeepInv ==
  ASSUME McpInv, NEW j \in Callers, Store(j) \/ StoreFailure(j) PROVE McpInv'
<1> DEFINE s == jobs[j].server
<1>1. jobs[j].at \in {"store", "fail"} /\ s \in Servers /\ jobs[j] \in Jobs
  BY DEF Store, StoreFailure, McpInv, McpTypeOK, JobsSay
<1>2. CASE Store(j)
  <2> DEFINE e == [enabled |-> TRUE, loadable |-> TRUE, state |-> "Healthy",
                   tools |-> jobs[j].tools, client |-> jobs[j].client]
  <2>1. e.client = ProbeOf(j) /\ e.client # 0
    BY <1>2 DEF Store, ProbeOf, McpInv, JobsSay
  <2>2. e \in [enabled : BOOLEAN, loadable : BOOLEAN, state : States,
               tools : SUBSET RemoteTools, client : Nat]
    BY <1>1 DEF States, Jobs
  <2>3. /\ servers' = [servers EXCEPT ![s] = e]
        /\ jobs' = [jobs EXCEPT ![j] =
             [Idle EXCEPT !.at = "close", !.server = s, !.old = servers[s].client]]
        /\ UNCHANGED <<known, starting, open, clients>>
    BY <1>2 DEF Store
  <2>4. e.state = "Healthy"
    OBVIOUS
  <2> HIDE DEF e, s
  <2> QED
    BY <1>1, <2>1, <2>2, <2>3, <2>4, ReplaceKeepsInv
<1>3. CASE StoreFailure(j)
  <2> DEFINE e == [Registered EXCEPT !.enabled = TRUE, !.state = "Unhealthy"]
  <2>1. ProbeOf(j) = 0 /\ e.client = 0 /\ e.tools = {} /\ e.state = "Unhealthy"
    BY <1>3 DEF StoreFailure, ProbeOf, Registered
  <2>2. e \in [enabled : BOOLEAN, loadable : BOOLEAN, state : States,
               tools : SUBSET RemoteTools, client : Nat]
    BY DEF States, Registered
  <2>3. /\ servers' = [servers EXCEPT ![s] = e]
        /\ jobs' = [jobs EXCEPT ![j] =
             [Idle EXCEPT !.at = "closefailed", !.server = s, !.old = servers[s].client]]
        /\ UNCHANGED <<known, starting, open, clients>>
    BY <1>3 DEF StoreFailure
  <2> HIDE DEF e, s
  <2> QED
    BY <1>1, <2>1, <2>2, <2>3, ReplaceKeepsInv
<1> QED
  BY <1>2, <1>3

\* Disabling a server takes its client from the table to the call.
LEMMA DisableKeepsInv ==
  ASSUME McpInv, NEW j \in Callers, NEW s \in Servers, DisableServer(j, s)
  PROVE  McpInv'
<1> DEFINE e == [Registered EXCEPT !.loadable = FALSE]
<1>1. jobs[j].at = "idle" /\ ProbeOf(j) = 0 /\ e.client = 0 /\ e.tools = {}
      /\ e.state = "Disabled"
  BY DEF DisableServer, ProbeOf, Registered
<1>2. e \in [enabled : BOOLEAN, loadable : BOOLEAN, state : States,
             tools : SUBSET RemoteTools, client : Nat]
  BY DEF States, Registered
<1>3. /\ servers' = [servers EXCEPT ![s] = e]
      /\ jobs' = [jobs EXCEPT ![j] =
           [Idle EXCEPT !.at = "close", !.server = s, !.old = servers[s].client]]
      /\ UNCHANGED <<known, starting, open, clients>>
  BY DEF DisableServer
<1> HIDE DEF e
<1> QED
  BY <1>1, <1>2, <1>3, ReplaceKeepsInv

\* The client that was replaced is closed, and nobody else's.
LEMMA CloseKeepsInv ==
  ASSUME McpInv, NEW j \in Callers, CloseReplaced(j) PROVE McpInv'
<1> DEFINE then == IF jobs[j].at = "close" THEN "read" ELSE "failed"
<1>1. /\ jobs[j].at \in {"close", "closefailed"}
      /\ open' = open \ {jobs[j].old}
      /\ jobs' = [jobs EXCEPT ![j].old = 0, ![j].at = then]
      /\ UNCHANGED <<known, servers, starting, clients>>
  BY DEF CloseReplaced
<1>2. jobs \in [Callers -> Jobs]
  BY DEF McpInv, McpTypeOK
<1> then \in {"read", "failed"}
  OBVIOUS
<1> HIDE DEF then
<1>3. /\ jobs' \in [Callers -> Jobs]
      /\ jobs'[j].at = then /\ jobs'[j].old = 0 /\ jobs'[j].server = jobs[j].server
      /\ \A k \in Callers : k # j => jobs'[k] = jobs[k]
  <2> DEFINE r == [jobs[j] EXCEPT !.old = 0, !.at = then]
  <2>1. jobs' = [jobs EXCEPT ![j] = r]
    BY <1>1, <1>2
  <2>2. r \in Jobs /\ r.at = then /\ r.old = 0 /\ r.server = jobs[j].server
    BY <1>2 DEF Jobs, Stations
  <2> HIDE DEF r
  <2> QED
    BY <1>2, <2>1, <2>2
<1>4. /\ \A k \in Callers : k # j => OldOf(k)' = OldOf(k)
      /\ \A k \in Callers : ProbeOf(k)' = ProbeOf(k)
      /\ OldOf(j) = jobs[j].old /\ OldOf(j)' = 0
      /\ \A s \in Servers : EntryOf(s)' = EntryOf(s)
  BY <1>1, <1>3 DEF ProbeOf, OldOf, EntryOf
<1>5. McpTypeOK'
  BY <1>1, <1>3 DEF McpInv, McpTypeOK
<1>6. TableSays' /\ JobsSay'
  BY <1>1, <1>3 DEF McpInv, TableSays, JobsSay
<1>7. HeldIsOpen' /\ HeldOnce' /\ OpenIsHeld'
  BY <1>1, <1>4 DEF McpInv, HeldIsOpen, HeldOnce, OpenIsHeld
<1> QED
  BY <1>5, <1>6, <1>7 DEF McpInv

\* A new process holds nothing.
LEMMA RestartKeepsInv == ASSUME McpInv, RestartMcp PROVE McpInv'
<1>1. clients \in Nat
  BY DEF McpInv, McpTypeOK
<1>2. McpTypeOK'
  BY <1>1 DEF RestartMcp, McpTypeOK, Registered, States, Idle, Jobs, Stations
<1>3. TableSays' /\ JobsSay' /\ HeldIsOpen' /\ HeldOnce' /\ OpenIsHeld'
  BY DEF RestartMcp, TableSays, JobsSay, HeldIsOpen, HeldOnce, OpenIsHeld, EntryOf,
     ProbeOf, OldOf, Registered, Idle
<1> QED
  BY <1>2, <1>3 DEF McpInv

\* Every step of the manager, and every step of others.
LEMMA McpStepKeepsInv == McpInv /\ [McpNext]_mcpVars => McpInv'
<1> SUFFICES ASSUME McpInv, [McpNext]_mcpVars PROVE McpInv'
  OBVIOUS
<1>1. ASSUME NEW s \in Servers, EnableConfigured(s) PROVE McpInv'
  BY <1>1, BeginsKeepInv
<1>2. ASSUME NEW j \in Callers, NEW s \in Servers,
             \/ EnableServer(j, s) \/ RefreshServer(j, s) \/ EnsureServerTools(j, s)
             \/ CallTool(j, s)
      PROVE  McpInv'
  BY <1>2, BeginsKeepInv
<1>3. ASSUME NEW j \in Callers, NEW s \in Servers, DisableServer(j, s) PROVE McpInv'
  BY <1>3, DisableKeepsInv
<1>4. ASSUME NEW j \in Callers,
             \/ Connect(j) \/ ListTools(j) \/ AttemptFails(j) \/ Store(j)
             \/ StoreFailure(j) \/ CloseReplaced(j) \/ Read(j) \/ ToolReturns(j)
             \/ EndCall(j)
      PROVE  McpInv'
  BY <1>4, ConnectKeepsInv, ListToolsKeepsInv, AttemptFailsKeepsInv, StoresKeepInv,
     CloseKeepsInv, ReadsKeepInv
<1>5. CASE RestartMcp
  BY <1>5, RestartKeepsInv
<1>6. CASE UNCHANGED mcpVars
  BY <1>6 DEF mcpVars, McpInv, McpTypeOK, TableSays, JobsSay, HeldIsOpen, HeldOnce,
     OpenIsHeld, EntryOf, ProbeOf, OldOf
<1> QED
  BY <1>1, <1>2, <1>3, <1>4, <1>5, <1>6 DEF McpNext

\* The strengthened invariant says what the run checks of the clients.
LEMMA McpInvHolds == McpInv => ClientsHeld
<1> SUFFICES ASSUME McpInv PROVE ClientsHeld
  OBVIOUS
<1>1. 0 \notin open
  BY DEF McpInv, McpTypeOK
<1>2. ASSUME NEW c \in open PROVE \E h \in Holders(c) : Holders(c) = {h}
  <2>1. c # 0
    BY <1>1
  <2>2. ASSUME NEW s \in Servers, EntryOf(s) = c PROVE Holders(c) = {<<"entry", s>>}
    BY <2>1, <2>2 DEF McpInv, HeldOnce, Holders, EntryOf, ProbeOf, OldOf
  <2>3. ASSUME NEW j \in Callers, ProbeOf(j) = c PROVE Holders(c) = {<<"probe", j>>}
    BY <2>1, <2>3 DEF McpInv, HeldOnce, Holders, EntryOf, ProbeOf, OldOf
  <2>4. ASSUME NEW j \in Callers, OldOf(j) = c PROVE Holders(c) = {<<"close", j>>}
    BY <2>1, <2>4 DEF McpInv, HeldOnce, Holders, EntryOf, ProbeOf, OldOf
  <2> QED
    BY <2>2, <2>3, <2>4 DEF McpInv, OpenIsHeld
<1>3. \A s \in Servers : servers[s].client # 0 => servers[s].client \in open
  BY DEF McpInv, HeldIsOpen, EntryOf
<1> QED
  BY <1>2, <1>3 DEF ClientsHeld, McpInv, TableSays

\* The manager by itself, whoever uses it (McpManager, all of its calls): no
\* connection is lost, none is closed under the table.
THEOREM McpInvariant == McpSpec => []McpInv
<1> QED
  BY McpInvInit, McpStepKeepsInv, PTL DEF McpSpec
-----------------------------------------------------------------------------
\* The registry changes the manager only by the manager's own steps.
LEMMA RegistryStepsTheManager ==
  ASSUME Turn \in Callers \ {Loader}, Api \in Callers \ {Loader}, Loader \in Callers,
         [RegistryNext]_registryVars
  PROVE  [McpNext]_mcpVars
<1>1. CASE UNCHANGED mcpVars
  BY <1>1
<1>2. ASSUME NEW s \in Servers, McpStep(EnableConfigured(s)) PROVE McpNext
  BY <1>2 DEF McpStep, McpNext
<1>3. ASSUME NEW s \in Servers,
             \/ ApiCall(EnableServer(Api, s)) \/ ApiCall(RefreshServer(Api, s))
             \/ ApiCall(DisableServer(Api, s))
      PROVE  McpNext
  BY <1>3 DEF ApiCall, McpNext
<1>4. ASSUME NEW j \in Callers,
             \/ McpStep(Connect(j)) \/ McpStep(ListTools(j)) \/ McpStep(AttemptFails(j))
             \/ McpStep(Store(j)) \/ McpStep(StoreFailure(j)) \/ McpStep(Read(j))
             \/ McpStep(CloseReplaced(j)) \/ McpStep(ToolReturns(j))
      PROVE  McpNext
  BY <1>4 DEF McpStep, McpNext
<1>5. ASSUME McpStep(EndCall(Loader)) \/ ApiReturns \/ Resolved \/ Called PROVE McpNext
  BY <1>5 DEF McpStep, ApiReturns, Resolved, Called, McpNext
<1>6. CASE ResolveServer
  BY <1>6 DEF ResolveServer, McpNext
<1>7. CASE CallServer
  BY <1>7 DEF CallServer, McpNext
<1>8. ASSUME ResolveFails PROVE [McpNext]_mcpVars
  BY <1>8 DEF ResolveFails, McpNext
<1>9. CASE RestartRegistry
  BY <1>9 DEF RestartRegistry, McpNext
<1>10. ASSUME \/ SyncAtStart \/ SaveToolsets \/ EndTurn \/ ListsTools \/ ResolveStatic \/ Listed
              \/ Load \/ CallNotFound \/ CallNotConnected \/ CallBrowser
       PROVE  UNCHANGED mcpVars
  BY <1>10 DEF SyncAtStart, SaveToolsets, InTurn, EndTurn, ListsTools, ResolveStatic, Listed, Load,
     CallNotFound, CallNotConnected, CallBrowser, Begins
<1>11. ASSUME NEW t \in ToolThreads, BeginTurn(t) \/ ClearThread(t)
       PROVE  UNCHANGED mcpVars
  BY <1>11 DEF BeginTurn, ClearThread
<1>12. ASSUME NEW n \in Toolsets, CallsTool(n) \/ LoadsToolset(n) \/ UnloadsToolset(n)
       PROVE  UNCHANGED mcpVars
  BY <1>12 DEF CallsTool, LoadsToolset, UnloadsToolset, Begins
<1>13. CASE UNCHANGED registryVars
  BY <1>13 DEF registryVars
<1> HIDE DEF mcpVars
<1> QED
  BY <1>1, <1>2, <1>3, <1>4, <1>5, <1>6, <1>7, <1>8, <1>9, <1>10, <1>11, <1>12, <1>13
     DEF RegistryNext

\* The manager's invariant holds under the registry.
LEMMA RegistryKeepsMcpInv ==
  ASSUME Turn \in Callers \ {Loader}, Api \in Callers \ {Loader}, Loader \in Callers
  PROVE  RegistrySpec => []McpInv
<1>1. RegistryInit => McpInv
  BY McpInvInit DEF RegistryInit
<1>2. McpInv /\ [RegistryNext]_registryVars => McpInv'
  BY RegistryStepsTheManager, McpStepKeepsInv
<1> QED
  BY <1>1, <1>2, PTL DEF RegistrySpec

\* Whatever turns, the API and the loading of the configuration do at once, no
\* connection is lost (ToolRegistry over McpManager::probe_server, disable_server
\* and close_client), for any number of servers, threads and retries.
THEOREM RegistryHoldsClients ==
  ASSUME Turn \in Callers \ {Loader}, Api \in Callers \ {Loader}, Loader \in Callers
  PROVE  RegistrySpec => []ClientsHeld
<1> QED
  BY RegistryKeepsMcpInv, McpInvHolds, PTL

\* The registry's own variables.
ToolTyped ==
  /\ catalog \in SUBSET Toolsets /\ builtin \in BOOLEAN
  /\ stored \in [ToolThreads -> SUBSET Toolsets]
  /\ turn \in ToolThreads \cup {NoThread} /\ loaded \in SUBSET Toolsets
  /\ task = [at |-> task.at, name |-> task.name, rest |-> task.rest]
  /\ task.rest \in SUBSET Toolsets /\ (task.at = "load" => task.name \in Toolsets)
  /\ sessions \in SUBSET ToolThreads /\ orphans \in SUBSET ToolThreads

\* Steps of the manager, and those that look after the catalog.
LEMMA CatalogKeepsType ==
  ASSUME ToolTyped, known \in SUBSET Servers,
         \/ SyncAtStart \/ ApiReturns \/ RestartRegistry \/ UNCHANGED toolVars
  PROVE  ToolTyped'
<1>1. Synced \in SUBSET Toolsets
  BY DEF ToolTyped, Synced, Toolsets
<1>2. CASE SyncAtStart
  BY <1>1, <1>2 DEF SyncAtStart, ToolTyped
<1>3. CASE ApiReturns
  BY <1>1, <1>3 DEF ApiReturns, ToolTyped
<1>4. CASE RestartRegistry
  BY <1>4 DEF RestartRegistry, ToolTyped, NoTask
<1>5. CASE UNCHANGED toolVars
  BY <1>5 DEF toolVars, ToolTyped
<1> QED
  BY <1>2, <1>3, <1>4, <1>5

\* A turn begins and ends, and /clear.
LEMMA TurnKeepsType ==
  ASSUME ToolTyped,
         SaveToolsets \/ EndTurn \/ \E t \in ToolThreads : BeginTurn(t) \/ ClearThread(t)
  PROVE  ToolTyped'
<1> USE DEF ToolTyped
<1>1. ASSUME NEW t \in ToolThreads, BeginTurn(t) PROVE ToolTyped'
  BY <1>1 DEF BeginTurn, Toolsets
<1>2. ASSUME NEW t \in ToolThreads, ClearThread(t) PROVE ToolTyped'
  BY <1>2 DEF ClearThread
<1>3. CASE EndTurn
  <2>1. /\ turn \in ToolThreads /\ turn' = NoThread /\ loaded' = {}
        /\ stored' \in {stored, [stored EXCEPT ![turn] = loaded]}
        /\ orphans' \in {orphans, orphans \cup {turn}}
        /\ UNCHANGED <<catalog, builtin, task, sessions>>
    BY <1>3 DEF EndTurn
  <2>2. stored' \in [ToolThreads -> SUBSET Toolsets]
    BY <2>1
  <2> QED
    BY <2>1, <2>2
<1>4. CASE SaveToolsets
  BY <1>4 DEF SaveToolsets, InTurn
<1> QED
  BY <1>1, <1>2, <1>3, <1>4

\* The calls of a turn, from their begin to their end.
LEMMA TaskKeepsType ==
  ASSUME ToolTyped,
         \/ \E n \in Toolsets : CallsTool(n) \/ LoadsToolset(n) \/ UnloadsToolset(n)
         \/ ListsTools \/ ResolveStatic \/ Resolved \/ ResolveFails \/ Listed \/ Load
         \/ CallNotFound \/ CallServer \/ CallNotConnected \/ Called \/ CallBrowser
  PROVE  ToolTyped'
<1> USE DEF ToolTyped
<1>1. ASSUME NEW at, NEW n, NEW T \in SUBSET Toolsets, Begins(at, n, T),
             at = "load" => n \in Toolsets
      PROVE  ToolTyped'
  BY <1>1 DEF Begins
<1>2. ASSUME NEW n \in Toolsets, CallsTool(n) \/ LoadsToolset(n) \/ ListsTools PROVE ToolTyped'
  <2>1. CASE CallsTool(n)
    <3>1. PICK T \in SUBSET Toolsets : Begins("call", n, T)
      BY <2>1 DEF CallsTool
    <3> QED
      BY <1>1, <3>1
  <2>2. CASE LoadsToolset(n)
    <3>1. Begins("load", n, {n}) /\ {n} \in SUBSET Toolsets
      BY <2>2 DEF LoadsToolset
    <3> QED
      BY <1>1, <3>1
  <2>3. CASE ListsTools
    BY <1>1, <2>3 DEF ListsTools
  <2> QED
    BY <1>2, <2>1, <2>2, <2>3
<1>3. CASE ListsTools
  BY <1>1, <1>3 DEF ListsTools
<1>4. ASSUME NEW n \in Toolsets, UnloadsToolset(n) PROVE ToolTyped'
  <2>1. /\ sessions' \subseteq sessions /\ loaded' \subseteq loaded
        /\ UNCHANGED <<catalog, builtin, stored, turn, task, orphans>>
    BY <1>4 DEF UnloadsToolset
  <2> QED
    BY <2>1
<1>5. CASE ResolveStatic \/ Resolved
  <2>1. PICK S : task' = [task EXCEPT !.rest = @ \ S]
    BY <1>5 DEF ResolveStatic, Resolved
  <2>2. UNCHANGED <<catalog, builtin, stored, turn, loaded, sessions, orphans>>
    BY <1>5 DEF ResolveStatic, Resolved
  <2>3. task' = [at |-> task.at, name |-> task.name, rest |-> task.rest \ S]
    BY <2>1
  <2> QED
    BY <2>2, <2>3
<1>6. CASE ResolveFails \/ Listed \/ CallNotFound \/ CallNotConnected \/ Called
  <2>1. task' = NoTask
        /\ UNCHANGED <<catalog, builtin, stored, turn, loaded, sessions, orphans>>
    BY <1>6 DEF ResolveFails, Listed, CallNotFound, CallNotConnected, Called
  <2> QED
    BY <2>1 DEF NoTask
<1>7. CASE Load
  <2>1. /\ task.name \in Toolsets /\ orphans' \subseteq orphans
        /\ loaded' = loaded \cup {task.name}
    BY <1>7 DEF Load, Ready
  <2> QED
    BY <1>7, <2>1 DEF Load, NoTask
<1>8. CASE CallServer
  <2>1. task' = [at |-> "calling", name |-> task.name, rest |-> task.rest]
    BY <1>8 DEF CallServer
  <2> QED
    BY <1>8, <2>1 DEF CallServer
<1>9. CASE CallBrowser
  BY <1>9 DEF CallBrowser, Ready, InTurn, NoTask
<1> QED
  BY <1>2, <1>3, <1>4, <1>5, <1>6, <1>7, <1>8, <1>9

\* The registry and the manager keep their types: what is registered, loaded or asked
\* for is a toolset, and a session is a thread's.
THEOREM RegistryTypeCorrect ==
  ASSUME Turn \in Callers \ {Loader}, Api \in Callers \ {Loader}, Loader \in Callers,
         Configs \subseteq SUBSET Servers
  PROVE  RegistrySpec => []RegistryTypeOK
<1>1. RegistryInit => ToolTyped
  <2>1. /\ NoTask = [at |-> NoTask.at, name |-> NoTask.name, rest |-> NoTask.rest]
        /\ NoTask.rest = {} /\ NoTask.at = "idle"
    BY DEF NoTask
  <2> QED
    BY <2>1 DEF RegistryInit, ToolTyped
<1>2. ToolTyped /\ McpInv /\ [RegistryNext]_registryVars => ToolTyped'
  <2> SUFFICES ASSUME ToolTyped, McpInv, [RegistryNext]_registryVars PROVE ToolTyped'
    OBVIOUS
  <2>1. known \in SUBSET Servers
    BY DEF McpInv, McpTypeOK
  <2>2. UNCHANGED toolVars => ToolTyped'
    BY <2>1, CatalogKeepsType
  <2>3. ASSUME \/ \E s \in Servers :
                    \/ McpStep(EnableConfigured(s)) \/ ApiCall(EnableServer(Api, s))
                    \/ ApiCall(RefreshServer(Api, s)) \/ ApiCall(DisableServer(Api, s))
               \/ \E j \in Callers :
                    \/ McpStep(Connect(j)) \/ McpStep(ListTools(j))
                    \/ McpStep(AttemptFails(j)) \/ McpStep(Store(j))
                    \/ McpStep(StoreFailure(j)) \/ McpStep(Read(j))
                    \/ McpStep(CloseReplaced(j)) \/ McpStep(ToolReturns(j))
               \/ McpStep(EndCall(Loader)) \/ ResolveServer
               \/ UNCHANGED registryVars
        PROVE  UNCHANGED toolVars
    BY <2>3 DEF McpStep, ApiCall, ResolveServer, registryVars
  <2> QED
    BY <2>1, <2>2, <2>3, CatalogKeepsType, TurnKeepsType, TaskKeepsType DEF RegistryNext
<1>3. ToolTyped /\ McpInv => RegistryTypeOK
  BY DEF ToolTyped, McpInv, RegistryTypeOK
<1> QED
  BY <1>1, <1>2, <1>3, RegistryKeepsMcpInv, PTL DEF RegistrySpec
-----------------------------------------------------------------------------
\* During a turn the browser toolset is registered, so that on_unload is told.
BrowserServed ==
  /\ stored = [t \in ToolThreads |-> stored[t]]
  /\ sessions \subseteq ToolThreads
  /\ turn \in ToolThreads \cup {NoThread}
  /\ turn # NoThread => "browser" \in catalog

SessionInv == BrowserServed /\ SessionIsLoaded

\* Syncing the servers leaves the browser toolset where it is.
LEMMA SyncKeepsBrowser ==
  ASSUME "browser" \notin Servers, "browser" \in catalog PROVE "browser" \in Synced
BY DEF Synced

\* Steps that touch no session, no loaded toolset and no turn.
LEMMA OtherStepsKeepSessions ==
  ASSUME SessionInv, UNCHANGED <<stored, turn, loaded, sessions, orphans>>,
         "browser" \in catalog => "browser" \in catalog'
  PROVE  SessionInv'
BY DEF SessionInv, BrowserServed, SessionIsLoaded, Loaded

\* The steps of a turn, one by one.
LEMMA TurnStepsKeepSessions ==
  ASSUME NoThread \notin ToolThreads, SessionInv,
         \/ \E t \in ToolThreads : BeginTurn(t) \/ ClearThread(t)
         \/ \E n \in Toolsets : UnloadsToolset(n)
         \/ SaveToolsets \/ EndTurn \/ Load \/ CallBrowser \/ RestartRegistry
  PROVE  SessionInv'
<1> USE DEF SessionInv, BrowserServed, SessionIsLoaded, Loaded
<1>1. ASSUME NEW t \in ToolThreads, BeginTurn(t) PROVE SessionInv'
  BY <1>1 DEF BeginTurn
<1>2. ASSUME NEW t \in ToolThreads, ClearThread(t) PROVE SessionInv'
  BY <1>2 DEF ClearThread
<1>3. ASSUME NEW n \in Toolsets, UnloadsToolset(n) PROVE SessionInv'
  <2>1. turn \in ToolThreads /\ "browser" \in catalog
        /\ UNCHANGED <<catalog, stored, turn, orphans>>
    BY <1>3 DEF UnloadsToolset, InTurn
  <2>2. CASE n = "browser" /\ n \in loaded \cap catalog
    <3>1. sessions' = sessions \ {turn}
      BY <1>3, <2>2 DEF UnloadsToolset
    <3> QED
      BY <1>3, <2>1, <2>2, <3>1 DEF UnloadsToolset
  <2>3. CASE ~(n = "browser" /\ n \in loaded \cap catalog)
    <3>1. sessions' = sessions /\ loaded' = loaded \ {n}
      BY <1>3, <2>3 DEF UnloadsToolset
    <3> QED
      BY <2>1, <2>3, <3>1
  <2> QED
    BY <2>2, <2>3
<1>4. CASE EndTurn
  <2>1. turn \in ToolThreads /\ turn' = NoThread /\ loaded' = {}
        /\ UNCHANGED <<catalog, sessions>>
    BY <1>4 DEF EndTurn
  <2>2. CASE stored' = [stored EXCEPT ![turn] = loaded] /\ UNCHANGED orphans
    BY <2>1, <2>2
  <2>3. CASE /\ UNCHANGED stored
             /\ orphans' = IF turn \in sessions /\ "browser" \notin stored[turn]
                           THEN orphans \cup {turn} ELSE orphans
    BY <2>1, <2>3
  <2> QED
    BY <1>4, <2>2, <2>3 DEF EndTurn
<1>5. CASE Load
  BY <1>5 DEF Load, Ready, InTurn
<1>6. CASE CallBrowser
  BY <1>6 DEF CallBrowser, Ready, InTurn
<1>7. CASE RestartRegistry
  BY <1>7 DEF RestartRegistry
<1>8. CASE SaveToolsets
  BY <1>8 DEF SaveToolsets, InTurn
<1> QED
  BY <1>1, <1>2, <1>3, <1>4, <1>5, <1>6, <1>7, <1>8

\* A step of the registry leaves no browser session behind, except as recorded.
LEMMA RegistryStepKeepsSessions ==
  ASSUME NoThread \notin ToolThreads, "browser" \notin Servers,
         SessionInv, [RegistryNext]_registryVars
  PROVE  SessionInv'
<1>1. ASSUME \/ \E t \in ToolThreads : BeginTurn(t) \/ ClearThread(t)
             \/ \E n \in Toolsets : UnloadsToolset(n)
             \/ SaveToolsets \/ EndTurn \/ Load \/ CallBrowser \/ RestartRegistry
      PROVE  SessionInv'
  BY <1>1, TurnStepsKeepSessions
<1>2. ASSUME SyncAtStart \/ ApiReturns PROVE SessionInv'
  <2>1. UNCHANGED <<stored, turn, loaded, sessions, orphans>>
        /\ catalog' \in {Synced, catalog}
    BY <1>2 DEF SyncAtStart, ApiReturns
  <2> QED
    BY <2>1, SyncKeepsBrowser, OtherStepsKeepSessions
<1>3. ASSUME UNCHANGED <<catalog, stored, turn, loaded, sessions, orphans>>
      PROVE  SessionInv'
  BY <1>3, OtherStepsKeepSessions
<1>4. ASSUME \/ \E s \in Servers :
                  \/ McpStep(EnableConfigured(s)) \/ ApiCall(EnableServer(Api, s))
                  \/ ApiCall(RefreshServer(Api, s)) \/ ApiCall(DisableServer(Api, s))
             \/ \E j \in Callers :
                  \/ McpStep(Connect(j)) \/ McpStep(ListTools(j))
                  \/ McpStep(AttemptFails(j)) \/ McpStep(Store(j))
                  \/ McpStep(StoreFailure(j)) \/ McpStep(Read(j))
                  \/ McpStep(CloseReplaced(j)) \/ McpStep(ToolReturns(j))
             \/ McpStep(EndCall(Loader)) \/ ResolveServer
      PROVE  UNCHANGED toolVars
  BY <1>4 DEF McpStep, ApiCall, ResolveServer
<1>5. ASSUME \/ \E n \in Toolsets : CallsTool(n) \/ LoadsToolset(n)
             \/ ListsTools \/ ResolveStatic \/ Resolved \/ ResolveFails \/ Listed
             \/ CallNotFound \/ CallServer \/ CallNotConnected \/ Called
      PROVE  UNCHANGED <<catalog, stored, turn, loaded, sessions, orphans>>
  BY <1>5 DEF CallsTool, LoadsToolset, ListsTools, Begins, ResolveStatic, Resolved,
     ResolveFails, Listed, CallNotFound, CallServer, CallNotConnected, Called
<1>6. CASE UNCHANGED registryVars
  BY <1>6, <1>3 DEF registryVars, toolVars
<1>7. UNCHANGED toolVars => SessionInv'
  BY <1>3 DEF toolVars
<1> QED
  BY <1>1, <1>2, <1>3, <1>4, <1>5, <1>6, <1>7 DEF RegistryNext

\* No browser session outlives its toolset unless /clear or a lost turn dropped
\* it (ToolRegistry::unload_toolset, with on_unload before the toolset is
\* dropped): for any number of threads, toolsets and servers.
THEOREM RegistryKeepsSessions ==
  ASSUME NoThread \notin ToolThreads, "browser" \notin Servers
  PROVE  RegistrySpec => []SessionIsLoaded
<1>1. RegistryInit => SessionInv
  BY DEF RegistryInit, SessionInv, BrowserServed, SessionIsLoaded, Loaded
<1>2. SessionInv /\ [RegistryNext]_registryVars => SessionInv'
  BY RegistryStepKeepsSessions
<1>3. SessionInv => SessionIsLoaded
  BY DEF SessionInv
<1> QED
  BY <1>1, <1>2, <1>3, PTL DEF RegistrySpec
-----------------------------------------------------------------------------
(* The browser *)

Actions == {Steps[tool][n] : tool \in DOMAIN Steps, n \in Nat}
Asked == [id : Nat \ {0}, action : Actions]
Printed ==
  [id : Nat, action : Actions \cup {"none"}, kind : {"ok", "error", "other", "noise"}]
Places == {"idle", "session", "start", "send", "read", "done", "failed"}
Calls ==
  [tool : DOMAIN Steps \cup {"none"}, at : Places, dir : Nat,
   sent : Seq(Asked), got : Seq(Asked)]

BrowserTyped ==
  /\ BrowserTypeOK
  /\ requests \in Seq(Asked) /\ pipe \in Seq(Printed)
  /\ nextId \in 1 .. MaxRequests + 1 /\ noise \in 0 .. MaxNoise
  /\ op \in Calls

\* Every line and every request without an answer has cost an id or is noise, and
\* names an id that was spent.
IdsSpent ==
  /\ Len(requests) <= nextId - 1 /\ Len(requests) + Len(pipe) <= nextId - 1 + noise
  /\ \A i \in DOMAIN requests : requests[i].id < nextId
  /\ \A i \in DOMAIN pipe : pipe[i].id < nextId

\* A child belongs to a session, or to the call that closes one; without a child
\* nothing is asked and nothing is to be read.
ChildOfSession ==
  /\ child = "none" => requests = <<>> /\ pipe = <<>>
  /\ session = 0 /\ op.tool # "browser__close" => child = "none"
  /\ op.tool = "none" => op.at = "idle"
  /\ op.tool = "browser__close" => session = 0 /\ op.at \in {"send", "read", "done", "failed"}
  /\ op.at \in {"start", "send", "read", "done"} /\ op.tool # "browser__close" => session # 0

\* What the call was told is what it asked, but for the request whose answer it
\* waits for; and only the answer to that request names its id.
ToldAsAsked ==
  /\ op.at \in {"idle", "session", "start"} => op.sent = <<>> /\ op.got = <<>>
  /\ op.at \in {"send", "done"} => op.got = op.sent
  /\ op.at = "read" =>
       \E r \in Asked :
         /\ op.sent = Append(op.got, r) /\ r.id < nextId
         /\ \A i \in DOMAIN requests : requests[i].id = r.id => requests[i].action = r.action
         /\ \A i \in DOMAIN pipe : pipe[i].id = r.id => pipe[i].action = r.action

BrowserInv == BrowserTyped /\ IdsSpent /\ ChildOfSession /\ ToldAsAsked

\* No thread has a session, no sidecar runs, and nothing was asked.
LEMMA BrowserInvInit == BrowserInit => BrowserInv
  BY BrowserAssumption
     DEF BrowserInit, BrowserInv, BrowserTyped, BrowserTypeOK, IdsSpent, ChildOfSession,
         ToldAsAsked, NoOp, Places, Calls

\* What a sequence holds once it loses its head, or an element is appended.
LEMMA QueueFacts ==
  ASSUME NEW S, NEW s \in Seq(S)
  PROVE  /\ \A e \in S :
              /\ Append(s, e) \in Seq(S) /\ Len(Append(s, e)) = Len(s) + 1
              /\ Append(s, e)[Len(s) + 1] = e
              /\ \A i \in DOMAIN Append(s, e) :
                   Append(s, e)[i] = e \/ (i \in DOMAIN s /\ Append(s, e)[i] = s[i])
         /\ s # <<>> =>
              /\ Head(s) \in S /\ Tail(s) \in Seq(S) /\ Len(Tail(s)) = Len(s) - 1
              /\ 1 \in DOMAIN s /\ Head(s) = s[1]
              /\ \A i \in DOMAIN Tail(s) : i + 1 \in DOMAIN s /\ Tail(s)[i] = s[i + 1]
  OBVIOUS

\* The sidecar answers the oldest request: the line names the request's id.
LEMMA AnswerKeepsInv == ASSUME BrowserInv, AnswerRequest PROVE BrowserInv'
<1>1. PICK kind \in {"ok", "error", "other"} :
        pipe' = Append(pipe, Line(Head(requests), kind))
  BY DEF AnswerRequest
<1>2. /\ requests \in Seq(Asked) /\ requests # <<>> /\ requests' = Tail(requests)
      /\ pipe \in Seq(Printed) /\ child = "up"
      /\ UNCHANGED <<session, dirs, made, child, nextId, noise, op>>
  BY DEF AnswerRequest, BrowserInv, BrowserTyped
<1> DEFINE line == Line(Head(requests), kind)
<1>3. /\ Head(requests) \in Asked /\ Head(requests) = requests[1] /\ 1 \in DOMAIN requests
      /\ requests' \in Seq(Asked) /\ Len(requests') = Len(requests) - 1
      /\ \A i \in DOMAIN requests' :
           i + 1 \in DOMAIN requests /\ requests'[i] = requests[i + 1]
  BY <1>2, QueueFacts
<1>4. line \in Printed /\ line.id = requests[1].id /\ line.action = requests[1].action
  BY <1>3 DEF Line, Printed, Asked
<1>5. /\ pipe' \in Seq(Printed) /\ Len(pipe') = Len(pipe) + 1
      /\ \A i \in DOMAIN pipe' : pipe'[i] = line \/ (i \in DOMAIN pipe /\ pipe'[i] = pipe[i])
  <2> HIDE DEF line
  <2> QED
    BY <1>1, <1>2, <1>4, QueueFacts DEF line
<1> HIDE DEF line
<1>6. IdsSpent'
  <2>1. /\ Len(requests) <= nextId - 1 /\ Len(requests) + Len(pipe) <= nextId - 1 + noise
        /\ nextId \in Nat /\ noise \in Nat /\ Len(requests) \in Nat /\ Len(pipe) \in Nat
        /\ Len(requests') \in Nat /\ Len(pipe') \in Nat
    BY <1>2, <1>3, <1>5, BrowserAssumption DEF BrowserInv, BrowserTyped, IdsSpent
  <2>2. /\ Len(requests') <= nextId' - 1
        /\ Len(requests') + Len(pipe') <= nextId' - 1 + noise'
    BY <1>2, <1>3, <1>5, <2>1
  <2>3. \A i \in DOMAIN requests' : requests'[i].id < nextId'
    BY <1>2, <1>3 DEF BrowserInv, IdsSpent
  <2>4. \A i \in DOMAIN pipe' : pipe'[i].id < nextId'
    BY <1>2, <1>3, <1>4, <1>5 DEF BrowserInv, IdsSpent
  <2> QED
    BY <2>2, <2>3, <2>4 DEF IdsSpent
<1>7. BrowserTyped'
  BY <1>2, <1>3, <1>5, <1>6, BrowserAssumption
     DEF BrowserInv, BrowserTyped, BrowserTypeOK, IdsSpent
<1>8. ChildOfSession'
  BY <1>2 DEF BrowserInv, ChildOfSession
<1>9. ToldAsAsked'
  <2>1. CASE op.at = "read"
    <3>1. PICK r \in Asked :
            /\ op.sent = Append(op.got, r) /\ r.id < nextId
            /\ \A i \in DOMAIN requests :
                 requests[i].id = r.id => requests[i].action = r.action
            /\ \A i \in DOMAIN pipe : pipe[i].id = r.id => pipe[i].action = r.action
      BY <2>1 DEF BrowserInv, ToldAsAsked
    <3>2. \A i \in DOMAIN requests' :
            requests'[i].id = r.id => requests'[i].action = r.action
      BY <1>3, <3>1
    <3>3. \A i \in DOMAIN pipe' : pipe'[i].id = r.id => pipe'[i].action = r.action
      BY <1>3, <1>4, <1>5, <3>1
    <3> QED
      BY <1>2, <2>1, <3>1, <3>2, <3>3 DEF ToldAsAsked
  <2>2. CASE op.at # "read"
    BY <1>2, <2>2 DEF BrowserInv, ToldAsAsked
  <2> QED
    BY <2>1, <2>2
<1> QED
  BY <1>6, <1>7, <1>8, <1>9 DEF BrowserInv

\* Noise names no request, and a dead sidecar answers nothing more.
LEMMA SidecarKeepsInv == ASSUME BrowserInv, PrintNoise \/ SidecarDies PROVE BrowserInv'
<1>1. CASE PrintNoise
  <2>1. /\ pipe \in Seq(Printed) /\ noise < MaxNoise /\ noise' = noise + 1
        /\ pipe' = Append(pipe, Noise) /\ child = "up"
        /\ UNCHANGED <<session, dirs, made, child, requests, nextId, op>>
    BY <1>1 DEF PrintNoise, BrowserInv, BrowserTyped
  <2>2. Noise \in Printed /\ Noise.id = 0
    BY DEF Noise, Printed
  <2>3. /\ pipe' \in Seq(Printed) /\ Len(pipe') = Len(pipe) + 1
        /\ \A i \in DOMAIN pipe' :
             pipe'[i] = Noise \/ (i \in DOMAIN pipe /\ pipe'[i] = pipe[i])
    BY <2>1, <2>2, QueueFacts
  <2>4. IdsSpent'
    BY <2>1, <2>2, <2>3 DEF BrowserInv, BrowserTyped, IdsSpent
  <2>5. BrowserTyped'
    BY <2>1, <2>3, <2>4, BrowserAssumption
    DEF BrowserInv, BrowserTyped, BrowserTypeOK, IdsSpent
  <2>6. ChildOfSession'
    BY <2>1 DEF BrowserInv, ChildOfSession
  <2>7. ToldAsAsked'
    BY <2>1, <2>2, <2>3 DEF BrowserInv, ToldAsAsked, Asked
  <2> QED
    BY <2>4, <2>5, <2>6, <2>7 DEF BrowserInv
<1>2. CASE SidecarDies
  BY <1>2, BrowserAssumption
     DEF SidecarDies, BrowserInv, BrowserTyped, BrowserTypeOK, IdsSpent, ChildOfSession,
         ToldAsAsked
<1> QED
  BY <1>1, <1>2

\* Steps of a call that neither send nor read: it starts, uses or makes the
\* session, starts the sidecar, fails, or returns.
LEMMA CallKeepsInv ==
  ASSUME BrowserInv,
         \/ \E tool \in BrowserTools : BrowserCall(tool)
         \/ UseSession \/ EnsureStarted \/ StartFails \/ ReadNothing \/ NoMatch
         \/ ReturnTool \/ Close
  PROVE  BrowserInv'
<1> USE BrowserAssumption
    DEF BrowserInv, BrowserTyped, BrowserTypeOK, IdsSpent, ChildOfSession, ToldAsAsked,
        serviceVars, NoOp, Places, Calls, Fail
<1>1. ASSUME NEW tool \in BrowserTools, BrowserCall(tool) PROVE BrowserInv'
  <2>1. /\ op.sent = <<>> /\ op.got = <<>> /\ op.tool # "browser__close"
        /\ op' = [tool |-> tool, at |-> "session", dir |-> 0, sent |-> <<>>, got |-> <<>>]
        /\ tool # "browser__close" /\ tool # "none" /\ tool \in DOMAIN Steps
        /\ UNCHANGED <<session, dirs, made, child, requests, pipe, nextId, noise>>
    <3>1. "none" \notin DOMAIN Steps
      BY DEF Steps
    <3> QED
      BY <1>1, <3>1 DEF BrowserCall
  <2>2. op' \in Calls
    BY ONLY <2>1 DEF Calls, Places
  <2> QED
    BY <2>1, <2>2
<1>2. CASE UseSession
  <2>1. CASE session # 0
    <3>1. op' = [op EXCEPT !.at = "start", !.dir = session] /\ op.at = "session"
          /\ UNCHANGED <<session, dirs, made, nextId, child, requests, pipe, noise>>
      BY <1>2, <2>1 DEF UseSession
    <3>2. op' \in Calls
          /\ op'.at = "start" /\ op'.tool = op.tool /\ op'.sent = op.sent /\ op'.got = op.got
      <4>1. session \in Nat /\ op \in Calls
        OBVIOUS
      <4> QED
        BY ONLY <3>1, <4>1 DEF Calls, Places
    <3> QED
      BY <2>1, <3>1, <3>2
  <2>2. CASE session = 0
    <3>1. /\ op.at = "session" /\ made < MaxDirs /\ made' = made + 1
          /\ dirs' = dirs \cup {made + 1} /\ session' = made + 1 /\ nextId' = 1
          /\ op' = [op EXCEPT !.at = "start", !.dir = made + 1]
          /\ UNCHANGED <<child, requests, pipe, noise>>
      BY <1>2, <2>2 DEF UseSession
    <3>2. op' \in Calls
          /\ op'.at = "start" /\ op'.tool = op.tool /\ op'.sent = op.sent /\ op'.got = op.got
      <4>1. made + 1 \in Nat /\ op \in Calls
        OBVIOUS
      <4> QED
        BY ONLY <3>1, <4>1 DEF Calls, Places
    <3>3. child = "none" /\ requests = <<>> /\ pipe = <<>> /\ op.tool # "browser__close"
      BY <2>2, <3>1
    <3>4. BrowserTypeOK'
      BY <3>1, <3>2, <3>3
    <3> QED
      BY <3>1, <3>2, <3>3, <3>4
  <2> QED
    BY <2>1, <2>2
<1>3. CASE EnsureStarted
  BY <1>3 DEF EnsureStarted
<1>4. CASE StartFails
  BY <1>4 DEF StartFails
<1>5. CASE ReadNothing
  BY <1>5 DEF ReadNothing
<1>6. CASE NoMatch
  BY <1>6 DEF NoMatch
<1>7. CASE ReturnTool
  BY <1>7 DEF ReturnTool
<1>8. CASE Close
  <2>1. /\ session # 0 /\ session' = 0 /\ op.sent = <<>> /\ op.got = <<>>
        /\ op'.tool = "browser__close" /\ op'.at \in {"done", "send"}
        /\ op'.sent = <<>> /\ op'.got = <<>>
        /\ op' = [tool |-> op'.tool, at |-> op'.at, dir |-> session,
                  sent |-> <<>>, got |-> <<>>]
        /\ UNCHANGED <<dirs, made, child, requests, pipe, nextId, noise>>
    BY <1>8 DEF Close
  <2>2. "browser__close" \in DOMAIN Steps
    BY DEF Steps
  <2>3. op' \in Calls
    BY <2>1, <2>2
  <2> QED
    BY <2>1, <2>3
<1> QED
  BY <1>1, <1>2, <1>3, <1>4, <1>5, <1>6, <1>7, <1>8

\* The id of a request is new: nothing asked or printed names it.
LEMMA SendKeepsInv == ASSUME BrowserInv, Send PROVE BrowserInv'
<1>1. /\ op.at = "send" /\ nextId <= MaxRequests /\ nextId' = nextId + 1
      /\ nextId \in 1 .. MaxRequests /\ requests \in Seq(Asked)
      /\ op \in Calls
      /\ UNCHANGED <<session, dirs, made, child, pipe, noise>>
  BY BrowserAssumption DEF Send, BrowserInv, BrowserTyped
<1>2. CASE child = "up"
  <2>1. /\ requests' = Append(requests, Request)
        /\ op' = [op EXCEPT !.at = "read", !.sent = Append(op.sent, Request)]
    BY <1>2 DEF Send
  <2>2. Request \in Asked /\ Request.id = nextId
    <3>1. op.tool \in DOMAIN Steps /\ Len(op.got) + 1 \in Nat
      BY <1>1 DEF BrowserInv, ChildOfSession, Calls
    <3> QED
      BY <1>1, <3>1 DEF Request, Asked, Actions
  <2> HIDE DEF Request
  <2>3. /\ requests' \in Seq(Asked) /\ Len(requests') = Len(requests) + 1
        /\ \A i \in DOMAIN requests' :
             requests'[i] = Request \/ (i \in DOMAIN requests /\ requests'[i] = requests[i])
    BY <1>1, <2>1, <2>2, QueueFacts
  <2>4. /\ op' \in Calls
        /\ op'.at = "read" /\ op'.sent = Append(op.sent, Request)
        /\ op'.got = op.got /\ op'.tool = op.tool
    <3>1. Append(op.sent, Request) \in Seq(Asked)
      BY <1>1, <2>2 DEF Calls
    <3> QED
      BY ONLY <1>1, <2>1, <3>1 DEF Calls, Places
  <2>5. IdsSpent'
    <3>1. /\ Len(requests) <= nextId - 1 /\ Len(requests) + Len(pipe) <= nextId - 1 + noise
          /\ nextId \in Nat /\ noise \in Nat /\ Len(requests) \in Nat /\ Len(pipe) \in Nat
      BY <1>1, BrowserAssumption DEF BrowserInv, BrowserTyped, IdsSpent
    <3>2. /\ Len(requests') <= nextId' - 1
          /\ Len(requests') + Len(pipe') <= nextId' - 1 + noise'
      BY <1>1, <2>3, <3>1
    <3>3. \A i \in DOMAIN requests : requests[i].id < nextId /\ requests[i].id \in Nat
      <4>1. \A i \in DOMAIN requests : requests[i] \in Asked
        BY <1>1
      <4> QED
        BY <4>1 DEF BrowserInv, IdsSpent, Asked
    <3>4. \A i \in DOMAIN requests' : requests'[i].id < nextId'
      BY <1>1, <2>2, <2>3, <3>1, <3>3
    <3>5. \A i \in DOMAIN pipe : pipe[i].id < nextId /\ pipe[i].id \in Nat
      <4>1. \A i \in DOMAIN pipe : pipe[i] \in Printed
        BY DEF BrowserInv, BrowserTyped
      <4> QED
        BY <4>1 DEF BrowserInv, IdsSpent, Printed
    <3>6. \A i \in DOMAIN pipe' : pipe'[i].id < nextId'
      BY <1>1, <3>1, <3>5
    <3> QED
      BY <3>2, <3>4, <3>6 DEF IdsSpent
  <2>6. BrowserTyped'
    BY <1>1, <2>3, <2>4, <2>5, BrowserAssumption
       DEF BrowserInv, BrowserTyped, BrowserTypeOK, IdsSpent, Places
  <2>7. ChildOfSession'
    BY <1>1, <1>2, <2>4 DEF BrowserInv, ChildOfSession
  <2>8. ToldAsAsked'
    <3>1. op.got = op.sent
      BY <1>1 DEF BrowserInv, ToldAsAsked
    <3>2. /\ \A i \in DOMAIN requests : requests[i].id # nextId
          /\ \A i \in DOMAIN pipe : pipe[i].id # nextId
      BY <1>1 DEF BrowserInv, IdsSpent
    <3>3. \A i \in DOMAIN requests' :
            requests'[i].id = Request.id => requests'[i].action = Request.action
      BY <2>2, <2>3, <3>2
    <3>4. \A i \in DOMAIN pipe' : pipe'[i].id # Request.id
      BY <1>1, <2>2, <3>2
    <3> QED
      BY <1>1, <2>2, <2>4, <3>1, <3>3, <3>4 DEF ToldAsAsked
  <2> QED
    BY <2>5, <2>6, <2>7, <2>8 DEF BrowserInv
<1>3. CASE child # "up"
  <2>1. op' = [op EXCEPT !.at = "failed"] /\ UNCHANGED requests
    BY <1>3 DEF Send, Fail
  <2>2. op' \in Calls /\ op'.at = "failed" /\ op'.tool = op.tool
    BY ONLY <1>1, <2>1 DEF Calls, Places
  <2>3. IdsSpent'
    <3>1. /\ \A i \in DOMAIN requests : requests[i] \in Asked
          /\ \A i \in DOMAIN pipe : pipe[i] \in Printed
      BY DEF BrowserInv, BrowserTyped
    <3>2. \A i \in DOMAIN requests : requests[i].id < nextId'
      BY <1>1, <3>1 DEF BrowserInv, IdsSpent, Asked
    <3>3. \A i \in DOMAIN pipe : pipe[i].id < nextId'
      BY <1>1, <3>1 DEF BrowserInv, IdsSpent, Printed
    <3>4. /\ Len(requests) <= nextId' - 1
          /\ Len(requests) + Len(pipe) <= nextId' - 1 + noise
      <4>1. /\ Len(requests) <= nextId - 1 /\ Len(requests) + Len(pipe) <= nextId - 1 + noise
            /\ noise \in Nat /\ Len(requests) \in Nat /\ Len(pipe) \in Nat
        BY <1>1, BrowserAssumption DEF BrowserInv, BrowserTyped, IdsSpent
      <4> QED
        BY <1>1, <4>1
    <3> QED
      BY <1>1, <2>1, <3>2, <3>3, <3>4 DEF IdsSpent
  <2>4. BrowserTyped'
    BY <1>1, <2>1, <2>2, <2>3, BrowserAssumption
       DEF BrowserInv, BrowserTyped, BrowserTypeOK, IdsSpent, Places
  <2>5. ChildOfSession' /\ ToldAsAsked'
    BY <1>1, <2>1, <2>2 DEF BrowserInv, ChildOfSession, ToldAsAsked
  <2> QED
    BY <2>3, <2>4, <2>5 DEF BrowserInv
<1> QED
  BY <1>2, <1>3

\* A line that names the request carries the answer to it.
LEMMA ReadKeepsInv == ASSUME BrowserInv, ReadAnswer PROVE BrowserInv'
<1> DEFINE told == [id |-> Head(pipe).id, action |-> Head(pipe).action]
<1>1. /\ op.at = "read" /\ pipe # <<>> /\ pipe' = Tail(pipe) /\ pipe \in Seq(Printed)
      /\ op \in Calls
      /\ UNCHANGED <<session, dirs, made, child, requests, nextId, noise>>
  BY DEF ReadAnswer, BrowserInv, BrowserTyped
<1>2. /\ Head(pipe) = pipe[1] /\ 1 \in DOMAIN pipe
      /\ pipe' \in Seq(Printed) /\ Len(pipe') = Len(pipe) - 1
      /\ \A i \in DOMAIN pipe' : i + 1 \in DOMAIN pipe /\ pipe'[i] = pipe[i + 1]
  BY <1>1, QueueFacts
<1>3. IdsSpent'
  BY <1>1, <1>2, BrowserAssumption DEF BrowserInv, BrowserTyped, IdsSpent
<1>4. BrowserTypeOK'
  <2>1. op'.at \in Places
    BY <1>1 DEF ReadAnswer, Places
  <2> QED
    BY <1>1, <1>2, <1>3, <2>1, BrowserAssumption
       DEF BrowserInv, BrowserTyped, BrowserTypeOK, IdsSpent, Places
<1>5. PICK r \in Asked :
        /\ op.sent = Append(op.got, r) /\ r.id < nextId
        /\ \A i \in DOMAIN requests : requests[i].id = r.id => requests[i].action = r.action
        /\ \A i \in DOMAIN pipe : pipe[i].id = r.id => pipe[i].action = r.action
  BY <1>1 DEF BrowserInv, ToldAsAsked
<1>6. CASE Accepts(Head(pipe))
  <2>1. Last(op.sent) = r
    BY <1>1, <1>5 DEF Last
  <2>2. told = [id |-> r.id, action |-> r.action]
    BY <1>2, <1>5, <1>6, <2>1 DEF Accepts
  <2>3. told = r
    BY <2>2 DEF Asked
  <2>4. /\ op'.at \in {"send", "done"} /\ op'.got = op.sent /\ op'.sent = op.sent
        /\ op'.tool = op.tool
        /\ op' \in Calls
    <3>1. op' = [op EXCEPT !.got = Append(op.got, told),
                  !.at = IF Len(op.got) + 1 < Len(Steps[op.tool]) THEN "send" ELSE "done"]
      BY <1>6 DEF ReadAnswer
    <3> HIDE DEF told
    <3> QED
      BY <1>1, <1>5, <2>3, <3>1 DEF Places, Calls
  <2> QED
    BY <1>1, <1>2, <1>3, <1>4, <2>4
       DEF BrowserInv, BrowserTyped, ChildOfSession, ToldAsAsked
<1>7. CASE ~Accepts(Head(pipe))
  <2>1. op' = [op EXCEPT !.at = "failed"]
    BY <1>7 DEF ReadAnswer
  <2>2. op' \in Calls /\ op'.at = "failed" /\ op'.tool = op.tool
    BY ONLY <1>1, <2>1 DEF Calls, Places
  <2> QED
    BY <1>1, <1>2, <1>3, <1>4, <2>2
       DEF BrowserInv, BrowserTyped, ChildOfSession, ToldAsAsked
<1> QED
  BY <1>6, <1>7

\* The process ends with the session it belongs to.
LEMMA FinishCloseKeepsInv == ASSUME BrowserInv, FinishClose PROVE BrowserInv'
<1>1. /\ op.tool = "browser__close" /\ session = 0 /\ dirs' \subseteq dirs
      /\ child' = "none" /\ requests' = <<>> /\ pipe' = <<>> /\ nextId' = 1 /\ op' = NoOp
      /\ UNCHANGED <<session, made, noise>>
  BY DEF FinishClose, BrowserInv, ChildOfSession
<1>2. /\ NoOp \in Calls /\ NoOp.at = "idle" /\ NoOp.tool = "none"
      /\ NoOp.sent = <<>> /\ NoOp.got = <<>>
  BY DEF NoOp, Calls, Places
<1>3. BrowserTyped'
  BY <1>1, <1>2, BrowserAssumption DEF BrowserInv, BrowserTyped, BrowserTypeOK, Places
<1>4. IdsSpent' /\ ChildOfSession' /\ ToldAsAsked'
  BY <1>1, <1>2, BrowserAssumption
     DEF BrowserInv, BrowserTyped, IdsSpent, ChildOfSession, ToldAsAsked
<1> QED
  BY <1>3, <1>4 DEF BrowserInv

\* The inductive invariant holds in every reachable state.
LEMMA BrowserInvariant == BrowserSpec => []BrowserInv
<1>1. BrowserInv /\ UNCHANGED browserVars => BrowserInv'
  BY DEF browserVars, serviceVars, BrowserInv, BrowserTyped, BrowserTypeOK, IdsSpent,
     ChildOfSession, ToldAsAsked
<1>2. BrowserInv /\ BrowserNext => BrowserInv'
  BY AnswerKeepsInv, SidecarKeepsInv, CallKeepsInv, SendKeepsInv, ReadKeepsInv,
     FinishCloseKeepsInv DEF BrowserNext
<1> QED
  BY <1>1, <1>2, BrowserInvInit, PTL DEF BrowserSpec

\* Every variable of the browser session keeps its type, and no session is
\* without its directory.
THEOREM BrowserTypeCorrect == BrowserSpec => []BrowserTypeOK
<1>1. BrowserInv => BrowserTypeOK
  BY DEF BrowserInv, BrowserTyped
<1> QED
  BY <1>1, BrowserInvariant, PTL

\* A browser tool that succeeds reports the answers to its own requests, whatever
\* the sidecar prints beside them and whatever calls failed before, and without a
\* session and a call no sidecar runs (BrowserSidecarService::call compares ids).
THEOREM BrowserAnswersItsRequest == BrowserSpec => []AnswersItsRequest
<1>1. BrowserInv => AnswersItsRequest
  BY DEF BrowserInv, ToldAsAsked, ChildOfSession, AnswersItsRequest, NoOp
<1> QED
  BY <1>1, BrowserInvariant, PTL
=============================================================================
