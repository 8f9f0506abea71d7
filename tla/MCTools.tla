------------------------------ MODULE MCTools ------------------------------
(***************************************************************************)
(* Instances for TLC of what an agent has around its loop: the command      *)
(* sessions, the tool registry with the MCP manager, the skills, the        *)
(* browser, the memory, the budget of a thread, the start of the program    *)
(* and the slash commands.  They share no state but what the registry and   *)
(* the manager do, so a behaviour is one of one of them, which focus names; *)
(* the others stay as they start.                                           *)
(***************************************************************************)
EXTENDS CommandSession, ToolRegistry, SkillRegistry, BrowserSession, MemoryRepository,
        CompactBudget, Startup, Commands

CONSTANTS t1, t2, s1, s2

VARIABLE focus \* who takes the steps

\* Thread t1 starts s1 with pipes, of which stderr stays silent, thread t2 starts
\* s2 with a terminal, to which nothing is written.
MCThreadOf == [s \in Sessions |-> IF s = s1 THEN t1 ELSE t2]
MCStreamsOf ==
  [s \in Sessions |-> IF s = s1 THEN {"stdout", "stderr"} ELSE {"terminal"}]
MCMaxWrites == [st \in Streams |-> IF st = "stdout" THEN 2 ELSE 0]

\* The one server is named like the builtin tool bash and retried once.
MCAttempts == [s \in Servers |-> 2]
MCPlace == [n \in {"bash", "browser"} |-> IF n = "bash" THEN 1 ELSE 2]

\* Two spellings of one keyword, and of one command.
MCFold == [k \in Keywords |-> IF k = "Notion" THEN "notion" ELSE k]
MCLower == [n \in Names |-> IF n = "CLEAR" THEN "clear" ELSE n]

(* Thresholds that are refused, equal and apart; a window that the default     *)
(* reserve nearly fills, and one with an output limit of its own.              *)
MCSections ==
  {[DefaultCompact EXCEPT !.enabled = e, !.auto = a, !.visible = v, !.reserved = r] :
     e, a \in BOOLEAN, v \in {70, 85, 90}, r \in {{}, {30}}}
MCModels ==
  {[DefaultLLM EXCEPT !.window = {100}, !.output = {10}],
   [DefaultLLM EXCEPT !.window = {1100}]}
MCSummary == <<Message(8, 0), Message(4, 0)>>

\* A file differs from the default in one section, or in a server.
MCYaml ==
  LET D == DefaultConfig IN
  {[D EXCEPT !.logging.level = v, !.logging.stderr = e, !.logging.file = f] :
     v \in {"info", "no filter"}, e, f \in BOOLEAN}
  \cup {[D EXCEPT !.llm.protocol = p, !.llm.model = m, !.llm.window = w,
                  !.llm.output = o, !.llm.keyFile = k] :
          p \in {"mock", "claude", "openai", "other"}, m \in {"", "kimi-k2.5"},
          w \in {{}, {2000}}, o \in {{}, {4000}}, k \in {{}, {"key"}}}
  \cup {[D EXCEPT !.hooks = [e \in {"stop"} |-> h]] : h \in {<<>>, <<"sh">>, <<"sh", "">>}}
  \cup {[D EXCEPT !.servers = [m \in {n} |-> Server(t, x, TRUE)]] :
          n \in {"", "a", "builtin"}, t \in {"stdio", "streamable_http"}, x \in {"", "x"}}
  \cup {[D EXCEPT !.feishu.mode = m] : m \in {"", "webhook"}}
  \cup {[D EXCEPT !.feishu.app = "id"], [D EXCEPT !.session.path = ""],
        [D EXCEPT !.compact.visible = 90], [D EXCEPT !.compact.auto = TRUE]}

Entries ==
  [enabled : {{}, {FALSE}}, transport : {{}, {"stdio"}, {"streamable_http"}},
   command : {{}, {"x"}}, url : {{}, {"x"}, {""}}]

MCSidecars == {NoServers} \cup {[m \in {n} |-> e] : n \in {"", "a", "b"}, e \in Entries}

toolsVars ==
  <<focus, vars, registryVars, skillVars, browserVars, memoryVars, budgetVars,
    startVars, commandVars>>
-----------------------------------------------------------------------------
ToolsInit ==
  /\ focus \in {"commands", "registry", "skills", "browser", "memory", "budget",
                "start", "slash"}
  /\ Init /\ RegistryInit /\ SkillInit /\ BrowserInit
  /\ MemoryInit /\ BudgetInit /\ StartInit
  /\ CommandInit
  /\ focus # "registry" => known = {}
  /\ focus # "budget" =>
       /\ settings.compact = DefaultCompact /\ settings.llm.output = {10}
       /\ override = {} /\ tools = 12

\* A step of component c, beside which nothing moves.
Step(c, A) ==
  /\ focus = c /\ A /\ UNCHANGED focus
  /\ IF c = "commands" THEN TRUE ELSE UNCHANGED vars
  /\ IF c = "registry" THEN TRUE ELSE UNCHANGED registryVars
  /\ IF c = "skills" THEN TRUE ELSE UNCHANGED skillVars
  /\ IF c = "browser" THEN TRUE ELSE UNCHANGED browserVars
  /\ IF c = "memory" THEN TRUE ELSE UNCHANGED memoryVars
  /\ IF c = "budget" THEN TRUE ELSE UNCHANGED budgetVars
  /\ IF c = "start" THEN TRUE ELSE UNCHANGED startVars
  /\ IF c = "slash" THEN TRUE ELSE UNCHANGED commandVars

ToolsNext ==
  \/ Step("commands", Next)
  \/ Step("registry", RegistryNext)
  \/ Step("skills", SkillNext)
  \/ Step("browser", BrowserNext)
  \/ Step("memory", MemoryNext)
  \/ Step("budget", BudgetNext)
  \/ Step("start", StartNext)
  \/ Step("slash", CommandNext)

\* As FairSpec of CommandSession.
ToolsSpec ==
  /\ ToolsInit /\ [][ToolsNext]_toolsVars
  /\ WF_vars(Deadline) /\ \A s \in Sessions : WF_vars(Continue(s))
-----------------------------------------------------------------------------
(* The properties, each stated and explained in the module of its component.    *)

\* Every variable has its type: TypeOK of CommandSession and those of the others.
ToolsTypeOK ==
  /\ TypeOK /\ RegistryTypeOK /\ SkillTypeOK /\ BrowserTypeOK
  /\ MemoryTypeOK /\ BudgetTypeOK /\ StartTypeOK
  /\ CommandTypeOK
=============================================================================
