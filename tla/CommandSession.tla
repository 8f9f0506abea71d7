--------------------------- MODULE CommandSession ---------------------------
(***************************************************************************)
(* The CommandSessionManager of src/src/agent/tool/command/session.rs and   *)
(* the tasks of a spawned process (command/process.rs): a reader for each   *)
(* of its streams, a waiter for its exit and a writer of its stdin.         *)
(*                                                                          *)
(* The tools are called by the agent worker, one call at a time; the tasks  *)
(* of the processes go on at every step of a call.  Output is a sequence of *)
(* numbered chunks for each stream; a chunk is the unit in which the        *)
(* max_output_tokens of a call is counted.                                  *)
(***************************************************************************)
EXTENDS Naturals, Sequences, SequencesExt

CONSTANTS
  Sessions,   \* the commands the model starts, each once
  Threads,    \* the threads whose turns call the tools
  ThreadOf,   \* [Sessions -> Threads]: in whose turn a command is started
  Streams,    \* what may be read of a process
  StreamsOf,  \* [Sessions -> SUBSET Streams]: terminal, or stdout and stderr
  NoSession,  \* no session
  Limits,     \* how many chunks max_output_tokens may let through; 0 is legal
  MaxWrites,  \* [Streams -> Nat]: bound on the chunks written to a stream
  MaxChunks,  \* bound on the calls that return a chunk of a session
  MaxInputs   \* bound on the inputs waiting for a process

ASSUME CommandAssumption ==
  /\ ThreadOf \in [Sessions -> Threads]
  /\ StreamsOf \in [Sessions -> SUBSET Streams]
  /\ NoSession \notin Sessions /\ "exit" \notin Streams
  /\ Limits \subseteq Nat
  /\ MaxWrites \in [Streams -> Nat] /\ MaxChunks \in Nat /\ MaxInputs \in Nat

VARIABLES
  life,     \* of every process
  written,  \* the chunks it has written to each stream
  read,     \* how many of them the stream's reader has sent
  inputs,   \* the inputs waiting for its stdin
  broken,   \* the sessions whose writer has ended
  events,   \* the event channel of a session
  pending,  \* its pending_output
  chunk,    \* its next_chunk_id
  snapshot, \* its status and its has_unread_output
  waiting,  \* the session whose runtime the call in work has locked
  callAt,   \* how far that call is
  late,     \* its deadline has passed
  todo,     \* the sessions that list_unread_tasks has still to refresh
  returned, \* history: the output that calls have returned
  cut,      \* history: the output that max_output_tokens cut off
  reported  \* history: the sessions a result has reported as exited

processVars == <<life, written, read, inputs, broken>>
callVars == <<waiting, callAt, late, todo>>
resultVars == <<returned, cut, reported>>
vars == <<processVars, events, pending, chunk, snapshot, callVars, resultVars>>

\* "reaped" is an exited process of which the waiter has sent the Exit.
Lives == {"none", "running", "exited", "reaped"}

\* collect_result drains the channel, waits for an event and drains again, the
\* last time after the exit; list_unread_tasks drains one session after another.
Stages == {"idle", "drain", "recv", "last", "list"}

Output(st, n) == [stream |-> st, n |-> n]
Outputs == [stream : Streams, n : Nat]
Exit == [stream |-> "exit", n |-> 0]

Init ==
  /\ life = [s \in Sessions |-> "none"]
  /\ written = [s \in Sessions |-> [st \in Streams |-> 0]]
  /\ read = [s \in Sessions |-> [st \in Streams |-> 0]]
  /\ inputs = [s \in Sessions |-> 0] /\ broken = {}
  /\ events = [s \in Sessions |-> <<>>]
  /\ pending = [s \in Sessions |-> <<>>]
  /\ chunk = [s \in Sessions |-> 0]
  /\ snapshot = [s \in Sessions |-> [done |-> FALSE, unread |-> FALSE]]
  /\ waiting = NoSession /\ callAt = "idle" /\ late = FALSE /\ todo = {}
  /\ returned = [s \in Sessions |-> <<>>]
  /\ cut = [s \in Sessions |-> {}]
  /\ reported = {}
-----------------------------------------------------------------------------
(* The process and its tasks *)

managerVars == <<pending, chunk, snapshot, callVars, resultVars>>

Write(s, st) ==
  /\ life[s] = "running" /\ written[s][st] < MaxWrites[st]
  /\ written' = [written EXCEPT ![s][st] = @ + 1]
  /\ UNCHANGED <<life, read, inputs, broken, events, managerVars>>

ProcessExits(s) ==
  /\ life[s] = "running"
  /\ life' = [life EXCEPT ![s] = "exited"]
  /\ UNCHANGED <<written, read, inputs, broken, events, managerVars>>

\* spawn_pipe_reader goes on until the end of the stream, also after the exit.
ReadStream(s, st) ==
  /\ read[s][st] < written[s][st]
  /\ read' = [read EXCEPT ![s][st] = @ + 1]
  /\ events' = [events EXCEPT ![s] = Append(@, Output(st, read[s][st] + 1))]
  /\ UNCHANGED <<life, written, inputs, broken, managerVars>>

\* The task that awaits child.wait() does not wait for the readers.
SendExit(s) ==
  /\ life[s] = "exited"
  /\ life' = [life EXCEPT ![s] = "reaped"]
  /\ events' = [events EXCEPT ![s] = Append(@, Exit)]
  /\ UNCHANGED <<written, read, inputs, broken, managerVars>>

\* The writer ends at the first input that the process does not take.
TakeInput(s) ==
  /\ inputs[s] > 0
  /\ \/ /\ life[s] = "running"
        /\ inputs' = [inputs EXCEPT ![s] = @ - 1] /\ UNCHANGED broken
     \/ inputs' = [inputs EXCEPT ![s] = 0] /\ broken' = broken \cup {s}
  /\ UNCHANGED <<life, written, read, events, managerVars>>
-----------------------------------------------------------------------------
(* The calls of the tools.  A call that is refused changes nothing: an empty  *)
(* command, one that cannot be spawned, an unknown session, one of another    *)
(* thread.                                                                    *)

Started == {s \in Sessions : life[s] # "none"}
MayCall(s) == callAt = "idle" /\ chunk[s] < MaxChunks

\* The runtime of the session is locked, and collect_result begins to drain.
Collect(s) ==
  /\ waiting' = s /\ callAt' = "drain"
  /\ UNCHANGED <<late, todo>>

ExecCommand(s) ==
  /\ MayCall(s) /\ s \notin Started
  /\ life' = [life EXCEPT ![s] = "running"]
  /\ Collect(s)
  /\ UNCHANGED <<written, read, inputs, broken, events>>
  /\ UNCHANGED <<pending, chunk, snapshot, resultVars>>

\* write_stdin without input.
Poll(t, s) ==
  /\ MayCall(s) /\ s \in Started /\ ThreadOf[s] = t
  /\ Collect(s)
  /\ UNCHANGED <<processVars, events, pending, chunk, snapshot, resultVars>>

\* write_stdin with input is refused when the exit is known, or the writer gone.
WriteStdin(t, s) ==
  /\ MayCall(s) /\ s \in Started /\ ThreadOf[s] = t
  /\ ~snapshot[s].done
  /\ s \notin broken /\ inputs[s] < MaxInputs
  /\ inputs' = [inputs EXCEPT ![s] = @ + 1]
  /\ Collect(s)
  /\ UNCHANGED <<life, written, read, broken, events>>
  /\ UNCHANGED <<pending, chunk, snapshot, resultVars>>

\* Slip: the exit is pending output as well.
ApplyAll(s) ==
  /\ events[s] # <<>>
  /\ events' = [events EXCEPT ![s] = Tail(@)]
  /\ pending' = [pending EXCEPT ![s] = Append(@, Head(events[s]))]
  /\ snapshot' = [snapshot EXCEPT ![s].unread = TRUE]

\* apply_event on the next event of the channel.
Apply(s) ==
  /\ events[s] # <<>>
  /\ events' = [events EXCEPT ![s] = Tail(@)]
  /\ IF Head(events[s]) = Exit
     THEN /\ snapshot' = [snapshot EXCEPT ![s].done = TRUE]
          /\ UNCHANGED pending
     ELSE /\ pending' = [pending EXCEPT ![s] = Append(@, Head(events[s]))]
          /\ snapshot' = [snapshot EXCEPT ![s].unread = TRUE]

\* drain_available_events takes one event after another as long as there is one,
\* however late it is ...
TakeNext(s) ==
  /\ waiting = s /\ callAt \in {"drain", "last", "list"}
  /\ Apply(s)
  /\ UNCHANGED <<processVars, chunk, callVars, resultVars>>

\* ... and ends at the first try_recv that finds none.
Drained(s) ==
  /\ waiting = s /\ callAt = "drain" /\ events[s] = <<>>
  /\ callAt' = "recv"
  /\ UNCHANGED <<processVars, events, pending, chunk, snapshot, resultVars>>
  /\ UNCHANGED <<waiting, late, todo>>

\* The loop of collect_result waits for an event until the deadline, and drains
\* what else there is, for the last time after the exit.
Receive(s) ==
  /\ waiting = s /\ callAt = "recv" /\ ~late
  /\ Apply(s)
  /\ callAt' = IF Head(events[s]) = Exit THEN "last" ELSE "drain"
  /\ UNCHANGED <<processVars, chunk, waiting, late, todo, resultVars>>

Deadline ==
  /\ callAt \in {"drain", "recv", "last"} /\ ~late
  /\ late' = TRUE
  /\ UNCHANGED <<processVars, events, pending, chunk, snapshot, resultVars>>
  /\ UNCHANGED <<waiting, callAt, todo>>

\* The waiter and the readers have dropped their ends of the channel.
Closed(s) ==
  /\ life[s] = "reaped" /\ events[s] = <<>>
  /\ \A st \in StreamsOf[s] : read[s][st] = written[s][st]

\* Slip: the call waits for the end of the process.
LoopEndsAtExit(s) ==
  \/ callAt = "last" /\ events[s] = <<>>
  \/ callAt = "recv" /\ Closed(s)

\* The exit was seen and everything behind it drained, or the deadline has
\* passed, or there is nobody left to send.
LoopEnds(s) ==
  \/ callAt = "last" /\ events[s] = <<>>
  \/ callAt = "recv" /\ (late \/ Closed(s))

Smaller(m, n) == IF m < n THEN m ELSE n

\* Slip: the output is returned and kept.
HandOverCopy(s, l) ==
  /\ returned' = [returned EXCEPT ![s] =
                    @ \o SubSeq(pending[s], 1, Smaller(l, Len(pending[s])))]
  /\ cut' = [cut EXCEPT ![s] = @ \cup {pending[s][i] : i \in l + 1 .. Len(pending[s])}]
  /\ UNCHANGED pending

\* The call takes the pending output as a whole and returns as much of it as
\* max_output_tokens lets through: the rest of it is in no later result.
HandOver(s, l) ==
  /\ returned' = [returned EXCEPT ![s] =
                    @ \o SubSeq(pending[s], 1, Smaller(l, Len(pending[s])))]
  /\ cut' = [cut EXCEPT ![s] = @ \cup {pending[s][i] : i \in l + 1 .. Len(pending[s])}]
  /\ pending' = [pending EXCEPT ![s] = <<>>]

\* Slip: the flag stays as the last event left it.
ReturnFlagged(s, l) ==
  /\ waiting = s /\ LoopEnds(s)
  /\ HandOver(s, l)
  /\ chunk' = [chunk EXCEPT ![s] = @ + 1]
  /\ reported' = IF snapshot[s].done THEN reported \cup {s} ELSE reported
  /\ waiting' = NoSession /\ callAt' = "idle" /\ late' = FALSE
  /\ UNCHANGED <<processVars, events, snapshot, todo>>

Return(s, l) ==
  /\ waiting = s /\ LoopEnds(s)
  /\ HandOver(s, l)
  /\ chunk' = [chunk EXCEPT ![s] = @ + 1]
  /\ snapshot' = [snapshot EXCEPT ![s].unread = FALSE]
  /\ reported' = IF snapshot[s].done THEN reported \cup {s} ELSE reported
  /\ waiting' = NoSession /\ callAt' = "idle" /\ late' = FALSE
  /\ UNCHANGED <<processVars, events, todo>>

\* list_unread_tasks refreshes every session, whichever thread asks, ...
ListUnreadTasks ==
  /\ callAt = "idle" /\ Started # {}
  /\ callAt' = "list" /\ todo' = Started
  /\ UNCHANGED <<processVars, events, pending, chunk, snapshot, resultVars>>
  /\ UNCHANGED <<waiting, late>>

\* ... in any order, each under its lock,
Refresh(s) ==
  /\ callAt = "list" /\ waiting = NoSession /\ s \in todo
  /\ waiting' = s
  /\ UNCHANGED <<processVars, events, pending, chunk, snapshot, resultVars>>
  /\ UNCHANGED <<callAt, late, todo>>

\* and derives the flag of a drained session from its pending output.
Refreshed(s) ==
  /\ waiting = s /\ callAt = "list" /\ events[s] = <<>>
  /\ snapshot' = [snapshot EXCEPT ![s].unread = pending[s] # <<>>]
  /\ todo' = todo \ {s} /\ waiting' = NoSession
  /\ callAt' = IF todo = {s} THEN "idle" ELSE "list"
  /\ UNCHANGED <<processVars, events, pending, chunk, late, resultVars>>
-----------------------------------------------------------------------------
Process(s) ==
  \/ \E st \in StreamsOf[s] : Write(s, st) \/ ReadStream(s, st)
  \/ ProcessExits(s) \/ SendExit(s) \/ TakeInput(s)

Start(s) ==
  \/ ExecCommand(s)
  \/ \E t \in Threads : Poll(t, s) \/ WriteStdin(t, s)

\* What a call goes on with.
Continue(s) ==
  \/ TakeNext(s) \/ Drained(s) \/ Receive(s)
  \/ \E l \in Limits : Return(s, l)
  \/ Refresh(s) \/ Refreshed(s)

Next ==
  \/ \E s \in Sessions : Process(s) \/ Start(s) \/ Continue(s)
  \/ ListUnreadTasks \/ Deadline

Spec == Init /\ [][Next]_vars

\* The agent worker's task is polled whenever it can go on, and time passes.
\* Nothing is assumed of the processes and their tasks.
FairSpec ==
  Spec /\ WF_vars(Deadline) /\ \A s \in Sessions : WF_vars(Continue(s))
-----------------------------------------------------------------------------
(* Properties *)

\* Every variable has its type; only output is pending, returned or cut off.
TypeOK ==
  /\ life \in [Sessions -> Lives]
  /\ written \in [Sessions -> [Streams -> Nat]]
  /\ read \in [Sessions -> [Streams -> Nat]]
  /\ inputs \in [Sessions -> 0 .. MaxInputs] /\ broken \subseteq Sessions
  /\ events \in [Sessions -> Seq(Outputs \cup {Exit})]
  /\ pending \in [Sessions -> Seq(Outputs)]
  /\ chunk \in [Sessions -> 0 .. MaxChunks]
  /\ snapshot \in [Sessions -> [done : BOOLEAN, unread : BOOLEAN]]
  /\ waiting \in Sessions \cup {NoSession}
  /\ callAt \in Stages /\ late \in BOOLEAN /\ todo \subseteq Sessions
  /\ returned \in [Sessions -> Seq(Outputs)]
  /\ cut \in [Sessions -> SUBSET Outputs]
  /\ reported \subseteq Sessions

\* The events of a session in the order of their way through the manager.
Got(s) == returned[s] \o pending[s] \o events[s]
ReadOf(s) == UNION {{Output(st, n) : n \in 1 .. read[s][st]} : st \in Streams}

\* What the readers read of a process is returned by a call, or on its way to
\* the next one, each chunk once and each stream in its order, except for what
\* the max_output_tokens of a call cut off: a deadline between two chunks, an exit
\* that overtakes them and list_unread_command_tasks lose, repeat and reorder
\* nothing, and what was cut off does not come back.
OutputOnce ==
  \A s \in Sessions :
    /\ \A i, j \in DOMAIN Got(s) :
         i < j /\ Got(s)[i].stream = Got(s)[j].stream => Got(s)[i].n < Got(s)[j].n
    /\ Range(Got(s)) \ {Exit} = ReadOf(s) \ cut[s]
    /\ cut[s] \subseteq ReadOf(s)

\* Between the calls a session is marked unread if and only if it has pending
\* output, also after its exit was reported: list_unread_command_tasks misses no
\* tail and lists nothing that the next poll finds empty.
UnreadIsPending ==
  callAt = "idle" =>
    \A s \in Sessions : snapshot[s].unread <=> pending[s] # <<>>

\* Every call returns, and every list, whether its process is silent, keeps its
\* streams open or has exited, unless processes never stop writing: a drain goes
\* on as long as it finds something, also after the deadline.
CallReturns ==
  \/ []<><<written' # written>>_vars
  \/ (callAt # "idle") ~> (callAt = "idle")

\* A result that says the process has exited completes its output: no later call
\* is needed for what its limit did not cut off.
ReportedIsComplete ==
  \A s \in reported, st \in Streams : \A n \in 1 .. written[s][st] :
    Output(st, n) \in Range(returned[s]) \cup cut[s]
=============================================================================
