------------------------------- MODULE Config -------------------------------
(***************************************************************************)
(* The configuration of src/src/config.rs: what each section may hold, what *)
(* validate refuses, and the limits that others read from it.  "" stands    *)
(* for every blank text, a set of at most one value for an Option, and a    *)
(* ratio is a percentage.                                                   *)
(***************************************************************************)
EXTENDS Naturals, Sequences

Given(S) == S # {}
The(S) == CHOOSE x \in S : TRUE
Or(S, T) == IF Given(S) THEN S ELSE T

\* The defaults of an absent file.
DefaultLogging ==
  [level |-> "info", stderr |-> TRUE, file |-> TRUE, directory |-> "logs",
   prefix |-> "openjarvis"]
DefaultSession == [backend |-> "sqlite", path |-> "session.sqlite3"]
DefaultCompact ==
  [enabled |-> FALSE, auto |-> FALSE, runtime |-> 85, visible |-> 70,
   reserved |-> {}, mock |-> {}]
DefaultLLM ==
  [protocol |-> "mock", model |-> "mock-received", window |-> {}, output |-> {},
   tokenizer |-> "chars_div4", key |-> "", keyFile |-> {}]
NoServers == [n \in {} |-> {}]
DefaultConfig ==
  [logging |-> DefaultLogging, session |-> DefaultSession, hooks |-> <<>>,
   servers |-> NoServers, compact |-> DefaultCompact, llm |-> DefaultLLM,
   feishu |-> [mode |-> "long_connection", app |-> "", sidecar |-> TRUE]]

\* known_model_token_limits; every Kimi model has the same.
KnownWindow(m) == IF m = "kimi-k2.5" THEN {262144} ELSE {}
KnownOutput(m) == IF m = "kimi-k2.5" THEN {32768} ELSE {}

\* context_window_tokens, max_output_tokens
Window(llm) == The(Or(llm.window, Or(KnownWindow(llm.model), {8192})))
MaxOutput(llm) == The(Or(llm.output, Or(KnownOutput(llm.model), {1024})))

\* effective_protocol
Protocol(llm) ==
  CASE llm.protocol \in {"mock", "mock_llm"} -> "mock"
    [] llm.protocol \in {"openai", "openai_compatible"} -> "openai_compatible"
    [] llm.protocol \in {"anthropic", "claude"} -> "anthropic"
    [] OTHER -> "unknown"

ValidLLM(llm) ==
  /\ llm.protocol # "" /\ Protocol(llm) # "unknown"
  /\ 0 \notin llm.window \cup llm.output
  /\ MaxOutput(llm) <= Window(llm)
  /\ llm.tokenizer = "chars_div4"

ValidRatio(r) == 0 < r /\ r <= 100

ValidCompact(c) ==
  /\ ValidRatio(c.runtime) /\ ValidRatio(c.visible) /\ c.visible <= c.runtime
  /\ c.auto => c.enabled
  /\ 0 \notin c.reserved /\ "" \notin c.mock

\* The levels a tracing filter takes are abstracted to one that it refuses.
ValidLogging(l) ==
  /\ l.level \notin {"", "no filter"}
  /\ l.stderr \/ l.file
  /\ l.file => l.directory # "" /\ l.prefix # ""

ValidSession(s) == s.backend = "sqlite" => s.path # ""

\* A hook is the sequence of the parts of its command.
ValidHook(parts) == Len(parts) > 0 /\ \A i \in DOMAIN parts : parts[i] # ""
ValidHooks(hooks) == \A e \in DOMAIN hooks : ValidHook(hooks[e])

\* The transports have a target each, a command or a URL.
Server(transport, target, on) ==
  [transport |-> transport, target |-> target, enabled |-> on]

\* Slip: the URL of streamable_http may be blank.
ValidServersByCommand(S) ==
  \A n \in DOMAIN S : S[n].transport = "stdio" => S[n].target # ""

ValidServers(S) == \A n \in DOMAIN S : S[n].target # ""

Valid(c) ==
  /\ ValidLogging(c.logging) /\ ValidSession(c.session) /\ ValidLLM(c.llm)
  /\ ValidHooks(c.hooks) /\ ValidServers(c.servers) /\ ValidCompact(c.compact)

\* into_agent_config: an entry of mcp.json names its transport, or has one by
\* its only target.
ValidEntry(e) ==
  \/ Given(e.command) /\ ~Given(e.url) /\ "streamable_http" \notin e.transport
  \/ Given(e.url) /\ ~Given(e.command) /\ "stdio" \notin e.transport

EntryServer(e) ==
  Server(IF Given(e.command) THEN "stdio" ELSE "streamable_http",
         The(e.command \cup e.url), The(Or(e.enabled, {TRUE})))

\* into_mcp_servers
ValidSidecar(entries) ==
  \A n \in DOMAIN entries : n # "" /\ ValidEntry(entries[n])

SidecarServers(entries) == [n \in DOMAIN entries |-> EntryServer(entries[n])]
=============================================================================
