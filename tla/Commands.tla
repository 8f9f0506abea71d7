------------------------------ MODULE Commands ------------------------------
(***************************************************************************)
(* The slash commands of src/src/command.rs as ChannelRouter::handle_incoming *)
(* uses them.  The text of one message is parsed three times: is it a       *)
(* command, does it need an idle thread, what does it do.  A text is given  *)
(* by what the parser tells apart; blanks at its start are of no account.   *)
(***************************************************************************)
EXTENDS Naturals, Sequences

CONSTANTS
  Names,     \* the names that are typed, some of them not registered
  Lower,     \* [Names -> names]: to_ascii_lowercase
  MaxThread, \* bound on the messages of the thread
  Counts     \* the counts of /context detail; without one it is 20

\* with_builtin_commands; the handlers that require an idle thread
Handlers == {"test", "equal", "echo", "context", "clear"}
NeedsIdle == {"clear"}

\* "no": no "@" at the start; "glued": no blank after it; "apart": a blank.
Mentions == {"no", "glued", "apart"}
Arg(word, count) == [word |-> word, count |-> count]
NoArgument == Arg("none", 0)
Arguments ==
  {NoArgument, Arg("role", 0), Arg("same two", 0), Arg("other", 0)}
  \cup {Arg("detail", n) : n \in Counts}
Texts == [channel : {"feishu", "other"}, mention : Mentions, slash : BOOLEAN,
          name : Names \cup {""}, args : Arguments]

VARIABLES
  length,  \* the messages of the thread
  held,  \* has the thread state beside its messages?
  running, \* is the thread pending in the router?
  reply    \* what the last command was answered: [name, ok, first, last]

commandVars == <<length, held, running, reply>>

NoReply == [name |-> "", ok |-> FALSE, first |-> 0, last |-> 0]
Reply(n, ok) == [NoReply EXCEPT !.name = n, !.ok = ok]

CommandInit ==
  /\ length = 0 /\ held = FALSE /\ running = FALSE
  /\ reply = NoReply
-----------------------------------------------------------------------------
(* The parser *)

\* remove_prefix_at_if_exist: one mention, on Feishu, and only before a slash.
Stripped(t) ==
  IF t.channel = "feishu" /\ t.mention = "apart" /\ t.slash
  THEN [t EXCEPT !.mention = "no"] ELSE t

\* CommandInvocation::parse: a slash at the start, then a name.
IsInvocation(t) == t.mention = "no" /\ t.slash
Named(t) == t.name # ""

\* is_command, which fails for a slash without a name
IsCommand(t) == IsInvocation(Stripped(t))

\* Slip: the mention is not removed.
RunningReplyUnstripped(t) == IsInvocation(t) /\ Lower[t.name] \in NeedsIdle

\* running_thread_reply
RunningReply(t) == IsInvocation(Stripped(t)) /\ Lower[t.name] \in NeedsIdle
-----------------------------------------------------------------------------
(* The commands *)

\* format_context_detail_report: the last messages, by their place.
Shown(n, total) == IF n < total THEN n ELSE total
Detail(n) ==
  LET k == Shown(n, length)
  IN  [Reply("context", TRUE) EXCEPT
         !.first = IF k = 0 THEN 0 ELSE length - k + 1,
         !.last = IF k = 0 THEN 0 ELSE length]

\* ContextCommand
Context(a) ==
  CASE a.word \in {"none", "role"} -> Reply("context", TRUE)
    [] a.word = "detail" -> Detail(a.count)
    [] OTHER -> Reply("context", FALSE)

\* What the handler answers; equal needs the same argument twice, clear none.
Answer(name, a) ==
  CASE name \in {"test", "echo"} -> Reply(name, TRUE)
    [] name = "equal" -> Reply(name, a.word = "same two")
    [] name = "context" -> Context(a)
    [] name = "clear" -> Reply(name, a = NoArgument)
    [] OTHER -> Reply(name, FALSE)

\* A slash without a name ends handle_incoming with an error: no answer.
RefuseNameless(t) ==
  /\ IsCommand(t) /\ ~Named(t)
  /\ UNCHANGED commandVars

\* The thread is running, and the command needs it idle.
RejectCommand(t) ==
  /\ IsCommand(t) /\ Named(t) /\ running /\ RunningReply(t)
  /\ reply' = Reply(Lower[t.name], FALSE)
  /\ UNCHANGED <<length, held, running>>

\* try_execute_with_thread_context, clear_to_initial_state, and the store.
ExecuteCommand(t) ==
  /\ IsCommand(t) /\ Named(t) /\ ~(running /\ RunningReply(t))
  /\ LET name == Lower[t.name] IN
     /\ reply' = Answer(name, t.args)
     /\ length' = IF name = "clear" /\ t.args = NoArgument THEN 0 ELSE length
     /\ held' = IF name = "clear" /\ t.args = NoArgument THEN FALSE ELSE held
  /\ UNCHANGED running

\* Everything else is for the agent, now or from the queue.
ToAgent(t) ==
  /\ ~IsCommand(t)
  /\ running' = TRUE
  /\ UNCHANGED <<length, held, reply>>

\* The turn adds messages and may load toolsets; what it takes away is left to
\* CompactBudget and ToolRegistry.
TurnCommits(state) ==
  /\ running /\ length < MaxThread
  /\ length' = length + 1 /\ held' = (held \/ state)
  /\ UNCHANGED <<running, reply>>

TurnEnds ==
  /\ running /\ running' = FALSE
  /\ UNCHANGED <<length, held, reply>>

CommandNext ==
  \/ \E t \in Texts :
       RefuseNameless(t) \/ RejectCommand(t) \/ ExecuteCommand(t) \/ ToAgent(t)
  \/ \E state \in BOOLEAN : TurnCommits(state)
  \/ TurnEnds

CommandSpec == CommandInit /\ [][CommandNext]_commandVars
-----------------------------------------------------------------------------
CommandTypeOK ==
  /\ length \in 0 .. MaxThread /\ held \in BOOLEAN /\ running \in BOOLEAN
  /\ reply.first \in 0 .. MaxThread /\ reply.last \in 0 .. MaxThread

\* Whatever the spelling of a command, with or without a mention, in any case and
\* with any arguments: it takes messages or state from the thread only between
\* the turns, by a /clear that was answered as done, and then it takes all of
\* both.  (The three parses agree: no /clear slips past the one that asks whether
\* the thread is running.)
OnlyAnIdleClear ==
  [][length' < length \/ (held /\ ~held') =>
       ~running /\ reply' = Reply("clear", TRUE) /\ length' = 0 /\ ~held'
    ]_commandVars
=============================================================================
