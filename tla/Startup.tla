------------------------------ MODULE Startup ------------------------------
(***************************************************************************)
(* The start of the program (src/src/main.rs): the logging section is read  *)
(* by itself, then the whole configuration with the mcp.json beside it; it  *)
(* is installed once, and the components are built from what is installed,  *)
(* each with checks of its own.  The files may change between two reads.    *)
(***************************************************************************)
EXTENDS Config

CONSTANTS
  Yaml,     \* the configuration files that parse
  Sidecars, \* the mcp.json files that parse: [names -> entries]
  Builtin   \* BUILTIN_MCP_SERVER_NAME

VARIABLES
  config,     \* what has been loaded
  external,   \* the servers that came from mcp.json
  phase,      \* the next step of main
  installed,  \* is there a global configuration?
  registered, \* the servers known to the MCP manager
  why         \* why the start has failed

startVars == <<config, external, phase, installed, registered, why>>

\* What only the environment decides: a file, a port, another process.
Environment == "environment"

StartInit ==
  /\ config = DefaultConfig /\ external = NoServers
  /\ phase = "logging" /\ installed = FALSE
  /\ registered = NoServers /\ why = "none"

Fails(reason) ==
  /\ phase' = "failed" /\ why' = reason
  /\ UNCHANGED <<config, external, installed, registered>>

\* load_logging_config_from_path: the level is of no use without its file.
StartLogging(y) ==
  /\ phase = "logging" /\ ValidLogging(y.logging)
  /\ phase' = "load"
  /\ UNCHANGED <<config, external, installed, registered, why>>

RefuseLogging(y) ==
  /\ phase = "logging" /\ ~ValidLogging(y.logging)
  /\ Fails("logging")

\* from_yaml_path with load_external_mcp_sidecar: a server is defined once.
Merged(y, s) ==
  [y EXCEPT !.servers = [n \in DOMAIN y.servers \cup DOMAIN s |->
     IF n \in DOMAIN y.servers THEN y.servers[n] ELSE SidecarServers(s)[n]]]

Loads(y, s) ==
  /\ ValidSidecar(s)
  /\ DOMAIN y.servers \cap DOMAIN s = {}
  /\ Valid(Merged(y, s))

LoadConfig(y, s) ==
  /\ phase = "load" /\ Loads(y, s)
  /\ config' = Merged(y, s) /\ external' = SidecarServers(s)
  /\ phase' = "flags"
  /\ UNCHANGED <<installed, registered, why>>

RefuseLoad(y, s) == phase = "load" /\ ~Loads(y, s) /\ Fails("configuration")

\* --builtin-mcp replaces a server of that name.
EnableBuiltinMcp ==
  /\ phase = "flags"
  /\ config' = [config EXCEPT !.servers =
       [n \in DOMAIN @ \cup {Builtin} |->
          IF n = Builtin THEN Server("stdio", "openjarvis", TRUE) ELSE @[n]]]
  /\ external' = [n \in DOMAIN external \ {Builtin} |-> external[n]]
  /\ phase' = "install"
  /\ UNCHANGED <<installed, registered, why>>

NoBuiltinMcp ==
  /\ phase = "flags" /\ phase' = "install"
  /\ UNCHANGED <<config, external, installed, registered, why>>

\* install_global_config validates again.
Install ==
  /\ phase = "install" /\ Valid(config)
  /\ installed' = TRUE /\ phase' = "provider"
  /\ UNCHANGED <<config, external, registered, why>>

\* build_provider: a mock needs nothing; a key is given, or read from a file;
\* only the OpenAI client asks for it, and for a model.
Keyed(llm) == llm.key # "" \/ llm.keyFile = {"key"}

BuildProvider ==
  /\ phase = "provider"
  /\ \/ Protocol(config.llm) \in {"mock", "anthropic"}
     \/ Protocol(config.llm) = "openai_compatible" /\ Keyed(config.llm)
        /\ config.llm.model # ""
  /\ phase' = "hooks"
  /\ UNCHANGED <<config, external, installed, registered, why>>

RefuseProvider ==
  /\ phase = "provider"
  /\ \/ Protocol(config.llm) = "unknown" /\ Fails("protocol")
     \/ Protocol(config.llm) = "openai_compatible"
        /\ IF Keyed(config.llm) THEN config.llm.model = "" /\ Fails("model")
           ELSE Fails("credentials")

\* HookRegistry::from_config
BuildHooks ==
  /\ phase = "hooks"
  /\ IF ValidHooks(config.hooks)
     THEN /\ phase' = "tools"
          /\ UNCHANGED <<config, external, installed, registered, why>>
     ELSE Fails("hooks")

\* load_definitions registers one server after the other; McpServerDefinition
\* is validated by itself.  What becomes of an enabled one is McpManager's.
Left == DOMAIN config.servers \ DOMAIN registered

RegisterServer(n) ==
  /\ phase = "tools" /\ n \in Left
  /\ n # "" /\ config.servers[n].target # ""
  /\ registered' = [m \in DOMAIN registered \cup {n} |-> config.servers[m]]
  /\ UNCHANGED <<config, external, phase, installed, why>>

RefuseServer(n) ==
  /\ phase = "tools" /\ n \in Left
  /\ \/ n = "" /\ Fails("server name")
     \/ n # "" /\ config.servers[n].target = "" /\ Fails("server target")

BuildTools ==
  /\ phase = "tools" /\ Left = {}
  /\ phase' = "store"
  /\ UNCHANGED <<config, external, installed, registered, why>>

OpenStore ==
  /\ phase = "store" /\ phase' = "channels"
  /\ UNCHANGED <<config, external, installed, registered, why>>

\* register_channels: no mode, no channel; a webhook is not implemented, and a
\* long connection needs its credentials and its sidecar.
Connects(f) == f.mode = "long_connection" /\ f.app # "" /\ f.sidecar

StartChannels ==
  /\ phase = "channels"
  /\ IF config.feishu.mode # "" /\ ~Connects(config.feishu) THEN Fails("channel")
     ELSE /\ phase' = "up"
          /\ UNCHANGED <<config, external, installed, registered, why>>

\* Files, directories, the subscriber, the store, the sidecar process, a skill of
\* --load-skill that is not there; in the phases before, also a file that does not
\* parse.
EnvironmentFails ==
  /\ phase \in {"logging", "load", "flags", "provider", "tools", "store", "channels"}
  /\ Fails(Environment)

StartNext ==
  \/ \E y \in Yaml : StartLogging(y) \/ RefuseLogging(y)
  \/ \E y \in Yaml, s \in Sidecars : LoadConfig(y, s) \/ RefuseLoad(y, s)
  \/ EnableBuiltinMcp \/ NoBuiltinMcp \/ Install
  \/ BuildProvider \/ RefuseProvider \/ BuildHooks
  \/ \E n \in DOMAIN config.servers : RegisterServer(n) \/ RefuseServer(n)
  \/ BuildTools \/ OpenStore \/ StartChannels \/ EnvironmentFails

StartSpec == StartInit /\ [][StartNext]_startVars
-----------------------------------------------------------------------------
\* What validate leaves to the components.
Unchecked == {Environment, "credentials", "model", "server name", "channel"}

StartTypeOK ==
  /\ phase \in {"logging", "load", "flags", "install", "provider", "hooks",
                "tools", "store", "channels", "up", "failed"}
  /\ installed \in BOOLEAN /\ DOMAIN registered \subseteq DOMAIN config.servers

\* The checks of config.rs cover those of the components: a configuration that
\* was installed, after whichever files and flags, is refused by a component
\* only for a missing key or model of the OpenAI client, a blank server name in the
\* YAML file, or its channel section, none of which validate looks at; and once the program is up the
\* servers are those of the files, none lost and none redefined.
InstalledIsAccepted ==
  /\ phase = "failed" /\ installed =>
       why \in Unchecked
  /\ phase = "up" =>
       /\ registered = config.servers
       /\ \A n \in DOMAIN external : registered[n] = external[n]
=============================================================================
