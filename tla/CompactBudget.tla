---------------------------- MODULE CompactBudget ----------------------------
(***************************************************************************)
(* When a thread is compacted: the estimate of compact/budget.rs, the       *)
(* thresholds of AutoCompactor (agent/feature/mod.rs) and the iterations of *)
(* AgentLoop (agent/agent_loop.rs) that measure, compact, measure again and *)
(* ask the model.  AgentWorker has the faults, hooks and commits of a turn; *)
(* here a message is the length of its texts.                               *)
(***************************************************************************)
EXTENDS Config, SequencesExt

CONSTANTS
  Sections,    \* the compact sections in configuration files
  Models,      \* the llm sections
  Sizes,       \* the characters in a text
  ToolSizes,   \* the tokens of the tools that a thread lists, without compact
  CompactTool, \* the tokens of the compact tool
  System,      \* the tokens of the system messages of a thread
  Summary,     \* the messages that a compaction leaves
  MaxMessages  \* bound on the messages of a thread before a request

VARIABLES
  settings,  \* the compact section and the llm section
  override,  \* the thread's auto_compact_override
  history,   \* the lengths of its messages that are not system messages
  tools,     \* the tokens of the tools it lists
  stage,     \* where the loop is
  request,   \* the request state: [total, offered]
  compacted  \* has this iteration compacted the thread?

budgetVars == <<settings, override, history, tools, stage, request, compacted>>

\* A message is its content, and the calls or the call id beside it.
Message(text, call) == [text |-> text, call |-> call]

NoRequest == [total |-> 0, offered |-> FALSE]

BudgetInit ==
  /\ settings \in [compact : {c \in Sections : ValidCompact(c)},
                   llm : {m \in Models : ValidLLM(m)}]
  /\ override \in {{}, {TRUE}, {FALSE}}
  /\ history = <<>> /\ tools \in ToolSizes
  /\ stage = "idle" /\ request = NoRequest /\ compacted = FALSE
-----------------------------------------------------------------------------
(* The estimate *)

\* estimate_chars_div4_tokens, estimate_message_tokens
Div4(chars) == (chars + 3) \div 4
MessageTokens(m) == 4 + Div4(m.text) + Div4(m.call)

HistoryTokens(h) == FoldSeq(LAMBDA m, n : MessageTokens(m) + n, 0, h)

\* from_config: reserved_output_tokens
Reserved ==
  The(Or(settings.llm.output,
         Or(settings.compact.reserved, {MaxOutput(settings.llm)})))

Estimate(toolTokens) == System + HistoryTokens(history) + toolTokens + Reserved

\* reaches_ratio
Reaches(total, ratio) == total * 100 >= ratio * Window(settings.llm)

AutoCompact ==
  settings.compact.enabled /\ The(Or(override, {settings.compact.auto}))

\* compact_tool_visible, by the estimate without the tool itself
Offered == AutoCompact /\ Reaches(Estimate(tools), settings.compact.visible)

\* prepare_request_state
Prepared ==
  [total |-> Estimate(tools + (IF Offered THEN CompactTool ELSE 0)),
   offered |-> Offered]

\* should_runtime_compact
Required(total) ==
  /\ settings.compact.enabled /\ history # <<>>
  /\ Reaches(total, settings.compact.runtime)
-----------------------------------------------------------------------------
(* The loop *)

BeginLoop(m) ==
  /\ stage = "idle" /\ Len(history) < MaxMessages
  /\ history' = Append(history, m) /\ stage' = "measure"
  /\ UNCHANGED <<settings, override, tools, request, compacted>>

\* Slip: the compact tool is left out of the first measure.
MeasureWithoutTool ==
  /\ stage = "measure"
  /\ stage' = IF Required(Estimate(tools)) THEN "compact" ELSE "prepare"
  /\ compacted' = FALSE
  /\ UNCHANGED <<settings, override, history, tools, request>>

Measure ==
  /\ stage = "measure"
  /\ stage' = IF Required(Prepared.total) THEN "compact" ELSE "prepare"
  /\ compacted' = FALSE
  /\ UNCHANGED <<settings, override, history, tools, request>>

\* The system messages stay, the others become the summary and a "continue".
RuntimeCompact ==
  /\ stage = "compact"
  /\ history' = Summary /\ compacted' = TRUE /\ stage' = "prepare"
  /\ UNCHANGED <<settings, override, tools, request>>

Generate ==
  /\ stage = "prepare"
  /\ request' = Prepared /\ stage' = "answer"
  /\ UNCHANGED <<settings, override, history, tools, compacted>>

\* A compaction that fails leaves run_live_thread with the turn open: the thread is
\* served again only after a restart, with the messages that were committed.
CompactionFails ==
  /\ stage = "compact" /\ stage' = "idle"
  /\ UNCHANGED <<settings, override, history, tools, request, compacted>>

\* A request, its tools or their hooks failed, perhaps after the call was
\* committed: the turn's last message says so.
FailTurn(committed, m) ==
  /\ stage = "answer" /\ stage' = "idle"
  /\ history' = Append(history \o committed, m)
  /\ UNCHANGED <<settings, override, tools, request, compacted>>

FinalAnswer(m) ==
  /\ stage = "answer" /\ stage' = "idle"
  /\ history' = Append(history, m)
  /\ UNCHANGED <<settings, override, tools, request, compacted>>

\* One call of a response (AgentWorker has several); it may load or unload a toolset.
ToolRound(m, r, size) ==
  /\ stage = "answer" /\ Len(history) < MaxMessages
  /\ history' = history \o <<m, r>> /\ tools' = size
  /\ stage' = "measure"
  /\ UNCHANGED <<settings, override, request, compacted>>

\* handle_model_requested_compact goes by the section alone: also a compact tool
\* that was not offered compacts, and its call is compacted with the rest.
CallCompact(m, r, works) ==
  /\ stage = "answer" /\ Len(history) < MaxMessages
  /\ history' = Append(
       IF settings.compact.enabled /\ works THEN Summary ELSE Append(history, m), r)
  /\ stage' = "measure"
  /\ UNCHANGED <<settings, override, tools, request, compacted>>

\* /clear
ClearBudget ==
  /\ stage = "idle" /\ history # <<>>
  /\ history' = <<>> /\ override' = {} /\ tools' \in ToolSizes
  /\ UNCHANGED <<settings, stage, request, compacted>>

TextMessages == {Message(n, 0) : n \in Sizes}
CallMessages == {Message(0, n) : n \in Sizes}

BudgetNext ==
  \/ \E m \in TextMessages : BeginLoop(m) \/ FinalAnswer(m)
  \/ \E c \in {<<>>} \cup {<<m>> : m \in CallMessages}, m \in TextMessages :
       FailTurn(c, m)
  \/ Measure \/ RuntimeCompact \/ CompactionFails \/ Generate \/ ClearBudget
  \/ \E m \in CallMessages, r \in TextMessages :
       \/ \E size \in ToolSizes : ToolRound(m, r, size)
       \/ \E works \in BOOLEAN : CallCompact(m, r, works)

BudgetSpec == BudgetInit /\ [][BudgetNext]_budgetVars
-----------------------------------------------------------------------------
BudgetTypeOK ==
  /\ override \in SUBSET BOOLEAN /\ tools \in ToolSizes
  /\ history \in Seq([text : Nat, call : Nat])
  /\ stage \in {"idle", "measure", "compact", "prepare", "answer"}
  /\ request \in [total : Nat, offered : BOOLEAN] /\ compacted \in BOOLEAN

\* With compaction enabled, a request that reaches the runtime threshold is sent
\* only after this iteration has compacted the thread, and then what it holds is
\* the summary: also when the compact tool itself, which an estimate without it
\* made visible, takes the request over the threshold.
OverBudgetIsCompacted ==
  stage = "answer" /\ settings.compact.enabled
  /\ Reaches(request.total, settings.compact.runtime) =>
    compacted /\ history = Summary
=============================================================================
