---------------------------- MODULE WorkerProofs ----------------------------
(***************************************************************************)
(* The safety of AgentWorker for every number of requests, calls and rounds *)
(* and every combination of faults, and that it behaves as Router assumes.  *)
(*                                                                          *)
(* The inductive invariant grows in layers, each of which leans on the      *)
(* ones before: the types (TypeInv), the coherence of cache and store       *)
(* (CoherenceInv), the prefix of the histories (WrittenInv), the absence of *)
(* messages of requests to come (FreshWrittenInv), the calls of the round   *)
(* (RoundWrittenInv), and what is known of the turn (TurnWrittenInv).       *)
(***************************************************************************)
EXTENDS AgentLife, FilterProofs, TLAPS

\* The messages a compaction keeps.
SystemMessages == MessagesOf({"system"})

\* A turn has messages before it is begun, and the station says whether a
\* response is still being executed.
RoundShape ==
  /\ pc \notin {"idle", "lock", "init"} => thread.msgs # <<>>
  /\ pc = "tool" => tools # <<>>
  /\ pc \in {"save", "send"} /\ phase \in {"text", "call"} => tools # <<>>
  /\ pc \in {"idle", "lock", "init", "initSave", "begin", "loop", "generate"} =>
       tools = <<>>
  /\ pc \in {"save", "send"} /\ phase = "user" => tools = <<>>

\* The types need the shape of a round: a station that takes the head of a
\* sequence finds one.
TypeInv == TypeOK /\ RoundShape

\* Msg makes messages.
LEMMA MessageTypes ==
  /\ \A role \in Roles, r \in Requests \cup {NoReq}, c \in Calls \cup {NoCall} :
       Msg(role, r, c) \in Messages
  /\ System \in Messages /\ NoMessage \in Messages
  BY DEF Msg, Messages, MessagesOf, System, NoMessage, Roles

\* A compaction makes a history that is not empty.
LEMMA CompactedType ==
  ASSUME NEW msgs \in Seq(Messages)
  PROVE  Compacted(msgs) \in Seq(Messages) /\ Compacted(msgs) # <<>>
<1>1. Filter(msgs, SystemMessages) \in Seq(Messages)
  <2>1. Filter(msgs, SystemMessages) \in Seq(Messages \cap SystemMessages)
    BY FilterType
  <2> QED
    BY <2>1
<1>2. Msg("summary", NoReq, NoCall) \in Messages
          /\ Msg("continue", NoReq, NoCall) \in Messages
  BY MessageTypes DEF Roles
<1>3. Compacted(msgs)
          = Filter(msgs, SystemMessages) \o <<Msg("summary", NoReq, NoCall),
          Msg("continue", NoReq, NoCall)>>
  BY DEF Compacted, SystemMessages
<1>4. <<Msg("summary", NoReq, NoCall), Msg("continue", NoReq, NoCall)>> \in Seq(Messages)
  BY <1>2
<1> QED
  BY <1>1, <1>2, <1>3, <1>4

\* What the store holds of the thread.
StoreType == [rev : Nat, msgs : Seq(Messages), dedup : SUBSET Requests]

\* Where a step leaves the thread and the store.
ThreadGoes(rev, msgs, turn) ==
  /\ thread' \in ThreadType
  /\ thread'.rev = rev /\ thread'.msgs = msgs /\ thread'.turn = turn

\* A save raises the revision of the store and adds deduplication records.
StoreGoes(msgs, records) ==
  /\ store' \in StoreType
  /\ store'.rev = store.rev + 1 /\ store'.msgs = msgs
  /\ store'.dedup = store.dedup \cup records

\* commit_message keeps the revision until the save.
Appends(m) == ThreadGoes(thread.rev, Append(thread.msgs, m), thread.turn)

\* The fields of the three records.
LEMMA Kinds ==
  ASSUME TypeOK
  PROVE  /\ thread \in ThreadType /\ store \in StoreType /\ copy \in ThreadType
         /\ thread.rev \in Nat /\ thread.msgs \in Seq(Messages)
         /\ thread.turn \in Requests \cup {NoReq}
         /\ store.rev \in Nat /\ store.msgs \in Seq(Messages)
         /\ store.dedup \in SUBSET Requests
         /\ copy.rev \in Nat /\ copy.msgs \in Seq(Messages)
         /\ copy.turn \in Requests \cup {NoReq}
  BY DEF TypeOK, ThreadType, StoreType

\* A save writes the cached history and takes the new revision into the cache.
LEMMA SaveEffect ==
  ASSUME TypeOK, NEW records \in SUBSET Requests,
         store' = Saved(thread, records), thread' = [thread EXCEPT !.rev = store.rev + 1]
  PROVE  /\ StoreGoes(thread.msgs, records)
         /\ ThreadGoes(store.rev + 1, thread.msgs, thread.turn)
<1> USE Kinds
<1>1. store' = [rev |-> store.rev + 1, msgs |-> thread.msgs,
                dedup |-> store.dedup \cup records]
  BY DEF Saved
<1>2. StoreGoes(thread.msgs, records)
  BY <1>1 DEF StoreGoes, StoreType
<1>3. ThreadGoes(store.rev + 1, thread.msgs, thread.turn)
  BY DEF ThreadGoes, ThreadType
<1> QED
  BY <1>2, <1>3

\* The four ways in which the worker changes the cached thread: it replaces the
\* history, appends to it, appends and opens a turn, or closes the turn.
LEMMA RewriteEffect ==
  ASSUME TypeOK, NEW msgs \in Seq(Messages), thread' = [thread EXCEPT !.msgs = msgs]
  PROVE  ThreadGoes(thread.rev, msgs, thread.turn)
  BY Kinds DEF ThreadType, ThreadGoes

\* A message is appended.
LEMMA AppendEffect ==
  ASSUME TypeOK, NEW m \in Messages, thread' = [thread EXCEPT !.msgs = Append(@, m)]
  PROVE  Appends(m)
<1>1. Append(thread.msgs, m) \in Seq(Messages)
  BY Kinds
<1>2. thread' = [thread EXCEPT !.msgs = Append(thread.msgs, m)]
  OBVIOUS
<1> QED
  BY <1>1, <1>2, RewriteEffect DEF Appends

\* A message is appended and a turn of r opened.
LEMMA OpenEffect ==
  ASSUME TypeOK, NEW m \in Messages, NEW r \in Requests,
         thread' = [thread EXCEPT !.msgs = Append(@, m), !.turn = r]
  PROVE  ThreadGoes(thread.rev, Append(thread.msgs, m), r)
<1>1. Append(thread.msgs, m) \in Seq(Messages)
  BY Kinds
<1> QED
  BY <1>1, Kinds DEF ThreadType, ThreadGoes

\* The turn is closed.
LEMMA CloseEffect ==
  ASSUME TypeOK, thread' = [thread EXCEPT !.turn = NoReq]
  PROVE  ThreadGoes(thread.rev, thread.msgs, NoReq)
  BY Kinds DEF ThreadType, ThreadGoes
-----------------------------------------------------------------------------
\* ensure_initialized writes the system prefix into an empty thread only.
LEMMA InitializeEffect ==
  ASSUME TypeInv, Initialize
  PROVE  IF thread.msgs = <<>>
         THEN ThreadGoes(thread.rev, <<System>>, thread.turn) /\ pc' = "initSave"
         ELSE UNCHANGED thread /\ pc' = "begin"
<1>1. <<System>> \in Seq(Messages)
  BY MessageTypes
<1> QED
  BY <1>1, RewriteEffect DEF Initialize, TypeInv

\* Only the last save of a turn stores a deduplication record.
LEMMA SavesEffect ==
  ASSUME TypeInv
  PROVE  /\ SaveInitialized \/ Save =>
              StoreGoes(thread.msgs, {})
                  /\ ThreadGoes(store.rev + 1, thread.msgs, thread.turn)
         /\ SaveFinalized =>
              StoreGoes(thread.msgs, {req})
                  /\ ThreadGoes(store.rev + 1, thread.msgs, thread.turn)
<1>1. TypeOK /\ (pc # "idle" => req \in Requests)
  BY DEF TypeInv, TypeOK
<1> QED
  BY <1>1, SaveEffect DEF SaveInitialized, Save, SaveFinalized

\* begin_turn, for the user message and for the failure message of a turn that
\* was never begun.
LEMMA TurnOpens ==
  ASSUME TypeInv
  PROVE  /\ BeginTurn
             => ThreadGoes(thread.rev, Append(thread.msgs, Msg("user", req, NoCall)), req)
         /\ Fallback => ThreadGoes(thread.rev, Append(thread.msgs, ErrorText), req)
<1>1. TypeOK /\ (pc # "idle" => req \in Requests)
  BY DEF TypeInv, TypeOK
<1>2. pc # "idle" => Msg("user", req, NoCall) \in Messages /\ ErrorText \in Messages
  BY <1>1, MessageTypes DEF ErrorText, Roles
<1> QED
  BY <1>1, <1>2, OpenEffect DEF BeginTurn, Fallback

\* commit_message goes on with the save.
LEMMA CommitEffect ==
  ASSUME TypeInv, pc # "idle", NEW kind, NEW role \in Roles,
             NEW c \in Calls \cup {NoCall},
         Commit(kind, Msg(role, req, c))
  PROVE  Appends(Msg(role, req, c)) /\ pc' = "save" /\ phase' = kind
<1>1. TypeOK /\ Msg(role, req, c) \in Messages
  BY MessageTypes DEF TypeInv, TypeOK
<1> QED
  BY <1>1, AppendEffect DEF Commit

\* The next call of the response is committed once the one before is sent.
LEMMA SendThenCallEffect ==
  ASSUME TypeInv, SendThenCall
  PROVE  Appends(Msg("call", req, Head(calls))) /\ Head(calls) \in Calls
             /\ pc' = "save" /\ phase' = "call"
         /\ Tail(calls) \in Seq(Calls)
<1>1. Head(calls) \in Calls /\ Tail(calls) \in Seq(Calls)
  BY DEF SendThenCall, TypeInv, TypeOK
<1> QED
  BY <1>1, CommitEffect DEF SendThenCall, Roles

\* finalize_turn closes the turn and leaves the history.
LEMMA SendThenFinalizeEffect ==
  ASSUME TypeInv, SendThenFinalize
  PROVE  ThreadGoes(thread.rev, thread.msgs, NoReq)
  BY CloseEffect DEF SendThenFinalize, TypeInv

\* Before the model is asked the history is kept or compacted.
LEMMA PrepareEffect ==
  ASSUME TypeInv, Prepare
  PROVE  UNCHANGED thread \/ ThreadGoes(thread.rev, Compacted(thread.msgs), thread.turn)
<1>1. Compacted(thread.msgs) \in Seq(Messages)
  BY CompactedType, Kinds DEF TypeInv
<1>2. thread' = [thread EXCEPT !.msgs = Compacted(@)]
          => thread' = [thread EXCEPT !.msgs = Compacted(thread.msgs)]
  OBVIOUS
<1> QED
  BY <1>1, <1>2, RewriteEffect DEF Prepare, TypeInv

\* The last text of a turn, and the text of a failure that the loop catches.
LEMMA GenerateEffect ==
  ASSUME TypeInv
  PROVE  /\ GenerateText => Appends(Msg("text", req, NoCall)) /\ pc' = "save"
             /\ phase' = "final"
         /\ GenerateFails => Appends(ErrorText) /\ pc' = "save" /\ phase' = "failure"
         /\ SaveCaught => Appends(ErrorText) /\ pc' = "save" /\ phase' = "failure"
<1> USE DEF Roles
<1>1. GenerateText => Appends(Msg("text", req, NoCall)) /\ pc' = "save"
          /\ phase' = "final"
  BY CommitEffect DEF GenerateText
<1>2. GenerateFails => Appends(ErrorText) /\ pc' = "save" /\ phase' = "failure"
  BY CommitEffect DEF GenerateFails, Caught, ErrorText
<1>3. SaveCaught => Appends(ErrorText) /\ pc' = "save" /\ phase' = "failure"
  BY CommitEffect DEF SaveCaught, Caught, ErrorText
<1> QED
  BY <1>1, <1>2, <1>3

\* A response has calls, and each is one.
LEMMA ResponsesType ==
  ASSUME TypeInv, NEW cs \in Responses
  PROVE  /\ cs \in Seq(Calls) /\ cs # <<>>
         /\ Head(cs) \in Calls /\ Tail(cs) \in Seq(Calls)
<1>1. SeqOf(Calls, MaxCalls) \subseteq Seq(Calls)
  BY WorkerAssumption DEF SeqOf
<1> QED
  BY <1>1 DEF Responses

\* A response with calls starts with its text, or with its first call.
LEMMA GenerateCallsEffect ==
  ASSUME TypeInv, NEW cs \in Responses, NEW withText \in BOOLEAN,
             GenerateCalls(cs, withText)
  PROVE  /\ pc' = "save" /\ tools' = cs
         /\ IF withText
            THEN Appends(Msg("text", req, Head(cs))) /\ phase' = "text" /\ calls' = cs
            ELSE Appends(Msg("call", req, Head(cs))) /\ phase' = "call" /\ calls' = Tail(cs)
<1>1. Head(cs) \in Calls
  BY ResponsesType
<1> QED
  BY <1>1, CommitEffect DEF GenerateCalls, Roles

\* The call that is executed next, and its result.
LEMMA ToolsType ==
  ASSUME TypeInv, pc = "tool"
  PROVE  Head(tools) \in Calls /\ Tail(tools) \in Seq(Calls) /\ req \in Requests
         /\ Result(Head(tools)) \in Messages /\ ErrorText \in Messages
<1>1. Head(tools) \in Calls /\ Tail(tools) \in Seq(Calls) /\ req \in Requests
  BY DEF TypeInv, TypeOK, RoundShape
<1> QED
  BY <1>1, MessageTypes DEF Result, ErrorText, Roles

\* A tool adds its result.
LEMMA RunToolEffect ==
  ASSUME TypeInv, RunTool
  PROVE  Appends(Result(Head(tools))) /\ pc' = "save" /\ phase' = "result"
<1>1. Head(tools) \in Calls
  BY ToolsType DEF RunTool
<1> QED
  BY <1>1, CommitEffect DEF RunTool, Result, Roles

\* A message is appended to a history that is compacted in the same step.
LEMMA CompactedEffect ==
  ASSUME TypeInv, NEW m \in Messages,
         thread' = [thread EXCEPT !.msgs = Append(Compacted(@), m)]
  PROVE  ThreadGoes(thread.rev, Append(Compacted(thread.msgs), m), thread.turn)
<1>1. Append(Compacted(thread.msgs), m) \in Seq(Messages)
  BY CompactedType, Kinds DEF TypeInv
<1>2. thread' = [thread EXCEPT !.msgs = Append(Compacted(thread.msgs), m)]
  OBVIOUS
<1> QED
  BY <1>1, <1>2, RewriteEffect DEF TypeInv

\* The compact tool adds its result too, to the compacted history if it succeeds.
LEMMA RunCompactEffect ==
  ASSUME TypeInv, RunCompact
  PROVE  \/ ThreadGoes(thread.rev, Append(Compacted(thread.msgs),
             Result(Head(tools))), thread.turn)
         \/ Appends(Result(Head(tools)))
<1>1. TypeOK /\ Result(Head(tools)) \in Messages
  BY ToolsType DEF RunCompact, TypeInv
<1>2. \/ thread' = [thread EXCEPT !.msgs = Append(Compacted(@), Result(Head(tools)))]
      \/ thread' = [thread EXCEPT !.msgs = Append(@, Result(Head(tools)))]
  BY DEF RunCompact
<1> QED
  BY <1>1, <1>2, CompactedEffect, AppendEffect

\* A hook that fails after a tool call ends the round with the failure's text.
LEMMA ToolHookFailsEffect ==
  ASSUME TypeInv, ToolHookFails
  PROVE  /\ \/ ThreadGoes(thread.rev,
             Append(Compacted(thread.msgs), ErrorText), thread.turn)
            \/ Appends(ErrorText)
         /\ pc' = "save" /\ phase' = "failure"
<1>1. TypeOK /\ ErrorText \in Messages
  BY ToolsType DEF ToolHookFails, TypeInv
<1>2. /\ \/ thread' = [thread EXCEPT !.msgs = Append(Compacted(@), ErrorText)]
         \/ thread' = [thread EXCEPT !.msgs = Append(@, ErrorText)]
      /\ pc' = "save" /\ phase' = "failure"
  BY DEF ToolHookFails, Caught, Commit
<1> QED
  BY <1>1, <1>2, CompactedEffect, AppendEffect

\* After a restart the thread is loaded from the store.
LEMMA CrashEffect ==
  ASSUME TypeInv, Crash
  PROVE  ThreadGoes(store.rev, store.msgs, NoReq)
  BY Kinds DEF Crash, TypeInv, ThreadGoes, ThreadType

\* A command works on a copy, which /clear empties.
LEMMA StartCommandEffect ==
  ASSUME TypeInv, NEW c \in Commands, StartCommand(c)
  PROVE  /\ copy' \in ThreadType /\ copy'.rev = thread.rev
         /\ IF c \in ClearCommands THEN copy'.msgs = <<>> /\ copy'.turn = NoReq
            ELSE copy'.msgs = thread.msgs /\ copy'.turn = thread.turn
<1>1. <<>> \in Seq(Messages)
  OBVIOUS
<1> QED
  BY <1>1, Kinds DEF StartCommand, TypeInv, ThreadType

\* The compare-and-swap writes the copy.
LEMMA SaveCommandEffect ==
  ASSUME TypeInv, SaveCommand
  PROVE  /\ StoreGoes(copy.msgs, {})
         /\ copy' \in ThreadType /\ copy'.rev = store.rev + 1
         /\ copy'.msgs = copy.msgs /\ copy'.turn = copy.turn
<1> USE Kinds DEF TypeInv
<1>1. store' = [rev |-> store.rev + 1, msgs |-> copy.msgs, dedup |-> store.dedup \cup {}]
  BY DEF SaveCommand, Saved
<1>2. StoreGoes(copy.msgs, {})
  BY <1>1 DEF StoreGoes, StoreType
<1> QED
  BY <1>2 DEF SaveCommand, ThreadType
-----------------------------------------------------------------------------

\* The worker starts with nothing in hand.
LEMMA TypeInit == Init => TypeInv
<1> SUFFICES ASSUME Init PROVE TypeInv
  OBVIOUS
<1>1. thread \in ThreadType /\ copy \in ThreadType
  BY DEF Init, NoCopy, ThreadType
<1>2. store \in StoreType
  BY DEF Init, StoreType
<1>3. round \in 0 .. MaxRounds /\ cmd = NoCmd /\ NoCmd \notin Commands
          /\ commands \subseteq Commands
  BY WorkerAssumption DEF Init
<1>4. TypeOK
BY <1>1, <1>2, <1>3 DEF Init, TypeOK, StoreType, Stations, Phases
<1>5. RoundShape
BY DEF Init, RoundShape
<1> QED
  BY <1>4, <1>5 DEF TypeInv

\* The events that go to the router.
SentEvents == [type : EventTypes, req : Requests, msg : Messages]

\* What is sent is an event.
LEMMA SendType ==
  ASSUME TypeInv, pc # "idle"
  PROVE  /\ pc = "send" /\ SendMessage =>
              sent' \in Seq(SentEvents)
         /\ \A type \in EventTypes :
              Append(sent, Event(type, req, NoMessage))
                \in Seq(SentEvents)
<1>1. req \in Requests
  BY DEF TypeInv, TypeOK
<1>2. pc = "send" => Last(thread.msgs) \in Messages
  BY Kinds DEF TypeInv, RoundShape, Last
<1>3. pc = "send" => Event("message", req, Last(thread.msgs)) \in SentEvents
  BY <1>1, <1>2 DEF SentEvents, Event, EventTypes
<1>4. sent \in Seq(SentEvents)
  BY DEF TypeInv, TypeOK, SentEvents
<1>5. \A type \in EventTypes : Event(type, req, NoMessage) \in SentEvents
  BY <1>1, MessageTypes DEF SentEvents, Event
<1>6. \A type \in EventTypes : Append(sent,
          Event(type, req, NoMessage)) \in Seq(SentEvents)
  BY <1>4, <1>5
<1>7. pc = "send" /\ SendMessage => sent' \in Seq(SentEvents)
  BY <1>3, <1>4 DEF SendMessage
<1> QED
  BY <1>6, <1>7

\* The values that end a request or a command are of their types.
LEMMA EndType ==
  /\ NoCopy \in ThreadType /\ 0 \in 0 .. MaxRounds /\ MaxRounds \in Nat
  /\ NoReq \notin Requests /\ NoCmd \notin Commands
  /\ \A S : <<>> \in Seq(S)
<1>1. NoCopy \in ThreadType
  BY DEF NoCopy, ThreadType
<1> QED
  BY <1>1, WorkerAssumption

\* Every step keeps the types ...
LEMMA TypeStep == ASSUME TypeInv, Next PROVE TypeOK'
<1> USE DEF TypeInv, TypeOK, SentEvents, ThreadGoes, StoreGoes, StoreType, Stations, Phases,
   loopVars, sentVars, commandVars
<1>1. CASE Lock \/ BeginFails
  BY <1>1 DEF Lock, BeginFails
<1>2. CASE Initialize
  BY <1>2, InitializeEffect DEF Initialize
<1>3. CASE SaveInitialized
  BY <1>3, SavesEffect DEF SaveInitialized
<1>4. CASE BeginTurn
  BY <1>4, TurnOpens DEF BeginTurn
<1>5. CASE Save
  BY <1>5, SavesEffect DEF Save
<1>6. CASE SendThenLoop
  BY <1>6, SendType DEF SendThenLoop, SendMessage
<1>7. CASE SendThenCall
  BY <1>7, SendThenCallEffect, SendType DEF SendThenCall, SendMessage, Appends
<1>8. CASE SendThenTool
  BY <1>8, SendType DEF SendThenTool, SendMessage
<1>9. CASE SendThenFinalize
  BY <1>9, SendThenFinalizeEffect, SendType DEF SendThenFinalize, SendMessage
<1>10. CASE SaveCaught
  BY <1>10, GenerateEffect DEF SaveCaught, Appends
<1>11. CASE SaveEscapes
  BY <1>11 DEF SaveEscapes
<1>12. CASE Prepare
  BY <1>12, PrepareEffect, CompactedType, Kinds DEF Prepare
<1>13. CASE PrepareFails
  BY <1>13 DEF PrepareFails
<1>14. CASE GenerateText
  BY <1>14, GenerateEffect DEF GenerateText, Appends
<1>15. CASE GenerateFails
  BY <1>15, GenerateEffect DEF GenerateFails, Appends
<1>16. ASSUME NEW cs \in Responses, NEW withText \in BOOLEAN, GenerateCalls(cs, withText)
       PROVE  TypeOK'
  <2>1. round' \in 0 .. MaxRounds
    BY <1>16, EndType DEF GenerateCalls
  <2>2. cs \in Seq(Calls) /\ calls' \in Seq(Calls) /\ tools' = cs
    BY <1>16, GenerateCallsEffect, ResponsesType
  <2>3. thread' \in ThreadType /\ pc' = "save" /\ phase' \in Phases
    BY <1>16, GenerateCallsEffect DEF Appends
  <2> QED
    BY <1>16, <2>1, <2>2, <2>3 DEF GenerateCalls
<1>17. CASE RunTool
  BY <1>17, RunToolEffect, ToolsType DEF RunTool, Appends
<1>18. CASE RunCompact
  BY <1>18, RunCompactEffect, ToolsType DEF RunCompact, Appends
<1>19. CASE ToolHookFails
  BY <1>19, ToolHookFailsEffect DEF ToolHookFails, Appends
<1>20. CASE Notify \/ NotifyFails
  BY <1>20 DEF Notify, NotifyFails
<1>21. CASE SaveFinalized
  BY <1>21, SavesEffect DEF SaveFinalized
<1>22. CASE SendFinalized
  BY <1>22, SendType DEF SendFinalized, EventTypes
<1>23. CASE Complete
  BY <1>23, SendType, EndType DEF Complete, Idle, EventTypes
<1>24. CASE Fallback
  BY <1>24, TurnOpens DEF Fallback
<1>25. CASE Abandon
  BY <1>25, EndType DEF Abandon, Idle
<1>26. ASSUME NEW c \in Commands, StartCommand(c) PROVE TypeOK'
  BY <1>26, StartCommandEffect, EndType DEF StartCommand
<1>27. CASE SaveCommand
  BY <1>27, SaveCommandEffect DEF SaveCommand
<1>28. CASE CommandFails
  BY <1>28, EndType DEF CommandFails, CommandDone
<1>29. CASE SyncCommand
  BY <1>29, EndType, Kinds DEF SyncCommand, CommandDone, Locked
<1>30. CASE Crash
  BY <1>30, CrashEffect, EndType DEF Crash, Idle, CommandDone
<1>31. ASSUME NEW r \in Requests, Dispatch(r) PROVE TypeOK'
  BY <1>31, EndType DEF Dispatch
<1> QED
  BY <1>1, <1>2, <1>3, <1>4, <1>5, <1>6, <1>7, <1>8, <1>9, <1>10, <1>11, <1>12,
     <1>13, <1>14, <1>15, <1>16, <1>17, <1>18, <1>19, <1>20, <1>21, <1>22, <1>23,
     <1>24, <1>25, <1>26, <1>27, <1>28, <1>29, <1>30, <1>31
     DEF Next, WorkerStep, Enter, CommitMessage, Loop, Leave, CommandStep

\* ... and the shape of a round.
LEMMA RoundShapeStep == ASSUME TypeInv, Next PROVE RoundShape'
<1> USE DEF TypeInv, RoundShape, ThreadGoes, StoreGoes, loopVars, sentVars, commandVars
<1>1. CASE Lock
  BY <1>1 DEF Lock
<1>2. CASE Initialize
  BY <1>2, InitializeEffect DEF Initialize
<1>3. CASE SaveInitialized
  BY <1>3 DEF SaveInitialized
<1>4. CASE BeginTurn
  BY <1>4, TurnOpens DEF BeginTurn
<1>5. CASE BeginFails
  BY <1>5 DEF BeginFails
<1>6. CASE Save
  BY <1>6 DEF Save
<1>7. CASE SendThenLoop
  BY <1>7 DEF SendThenLoop, SendMessage
<1>8. CASE SendThenCall
  BY <1>8 DEF SendThenCall, SendMessage, Commit
<1>9. CASE SendThenTool
  BY <1>9 DEF SendThenTool, SendMessage
<1>10. CASE SendThenFinalize
  BY <1>10 DEF SendThenFinalize, SendMessage
<1>11. CASE SaveCaught
  BY <1>11 DEF SaveCaught, Caught, Commit
<1>12. CASE SaveEscapes
  BY <1>12 DEF SaveEscapes
<1>13. CASE Prepare
  BY <1>13, PrepareEffect, CompactedType, Kinds DEF Prepare
<1>14. CASE PrepareFails
  BY <1>14 DEF PrepareFails
<1>15. CASE GenerateText
  BY <1>15 DEF GenerateText, Commit
<1>16. CASE GenerateFails
  BY <1>16 DEF GenerateFails, Caught, Commit
<1>17. ASSUME NEW cs \in Responses, NEW withText \in BOOLEAN, GenerateCalls(cs, withText)
       PROVE  RoundShape'
  BY <1>17, GenerateCallsEffect, ResponsesType, EndType DEF GenerateCalls, Appends
<1>18. CASE RunTool
  BY <1>18 DEF RunTool, Commit
<1>19. CASE RunCompact
  BY <1>19, RunCompactEffect, ToolsType DEF RunCompact, Appends
<1>20. CASE ToolHookFails
  BY <1>20, ToolHookFailsEffect DEF ToolHookFails, Appends
<1>21. CASE Notify
  BY <1>21 DEF Notify
<1>22. CASE NotifyFails
  BY <1>22 DEF NotifyFails
<1>23. CASE SaveFinalized
  BY <1>23 DEF SaveFinalized
<1>24. CASE SendFinalized
  BY <1>24 DEF SendFinalized, EventTypes
<1>25. CASE Complete
  BY <1>25 DEF Complete, Idle, EventTypes
<1>26. CASE Fallback
  BY <1>26, TurnOpens DEF Fallback
<1>27. CASE Abandon
  BY <1>27 DEF Abandon, Idle
<1>28. CASE CommandStep
  BY <1>28 DEF CommandStep, StartCommand, SaveCommand, CommandFails, CommandDone,
     SyncCommand, Locked
<1>29. CASE Crash \/ (\E r \in Requests : Dispatch(r))
  BY <1>29 DEF Crash, Idle, CommandDone, Dispatch
<1> QED
  BY <1>1, <1>2, <1>3, <1>4, <1>5, <1>6, <1>7, <1>8, <1>9, <1>10, <1>11, <1>12,
     <1>13, <1>14, <1>15, <1>16, <1>17, <1>18, <1>19, <1>20, <1>21, <1>22, <1>23,
     <1>24, <1>25, <1>26, <1>27, <1>28, <1>29
     DEF Next, WorkerStep, Enter, CommitMessage, Loop, Leave, CommandStep

\* One request at a time is dispatched, and the one in work is pending.
OwnerInv ==
  /\ pc # "idle" => pending = req
  /\ pending \notin requests

\* The worker has nothing that is not stored.
Stored ==
  pc \in {"send", "loop", "tool", "notify", "finalSave", "finalSend", "complete"}

\* The worker wrote last: the save of an older snapshot fails.
WroteLast ==
  Stored \/ pc = "generate" \/ (pc = "save" /\ phase \notin {"user", "fallback"})

\* The worker has written nothing yet of what it adds next.
Untouched ==
  pc \in {"lock", "init", "begin"} \/ (pc = "hard" /\ thread.turn = NoReq)

\* The revision says who wrote last, the worker or a command: a snapshot with an
\* older one cannot be saved, and one with the same holds what is stored, or what
\* is to be added to it.
RevisionInv ==
  /\ thread.rev <= store.rev /\ copy.rev <= store.rev
  /\ cmdAt = "sync" =>
       copy.rev = store.rev /\ copy.msgs = store.msgs /\ thread.rev < store.rev
  /\ WroteLast =>
       /\ thread.rev = store.rev /\ cmdAt # "sync"
       /\ cmdAt = "save" => copy.rev < store.rev
  /\ Stored => thread.msgs = store.msgs
  /\ Untouched /\ thread.rev = store.rev => thread.msgs = store.msgs

\* The open turn of the cached thread is that of the request in work, and none
\* when no request is outstanding.
TurnInv ==
  /\ pc \in {"save", "send", "loop", "generate", "tool"} => thread.turn = req
  /\ pc \in {"notify", "finalSave", "finalSend", "complete"} => thread.turn = NoReq
  /\ pending = NoReq /\ (cmdAt = "sync" \/ (cmdAt = "save" /\ copy.rev = store.rev)) =>
       copy.turn = NoReq

\* CacheIsStore speaks of the moments between two requests; it is inductive with
\* what ties the cache to the store in the middle of one.
CoherenceInv == TypeInv /\ OwnerInv /\ RevisionInv /\ TurnInv /\ CacheIsStore

\* Every step keeps it, one conjunct at a time.
LEMMA OwnerStep == ASSUME CoherenceInv, Next PROVE OwnerInv'
<1> USE EndType
   DEF CoherenceInv, TypeInv, TypeOK, OwnerInv, loopVars, sentVars, commandVars
<1>1. CASE Enter
  BY <1>1 DEF Enter, Lock, Initialize, SaveInitialized, BeginTurn, BeginFails
<1>2. CASE CommitMessage
  BY <1>2 DEF CommitMessage, Save, SendThenLoop, SendThenCall, Commit, SendThenTool,
     SendThenFinalize, SaveCaught, Caught, SaveEscapes
<1>3. CASE Loop
  BY <1>3 DEF Loop, Prepare, PrepareFails, GenerateText, Commit, GenerateFails,
     Caught, GenerateCalls, RunTool, RunCompact, ToolHookFails
<1>4. CASE Leave
  BY <1>4 DEF Leave, Notify, NotifyFails, SaveFinalized, SendFinalized, Complete,
     Idle, Fallback, Abandon
<1>5. CASE CommandStep
  BY <1>5 DEF CommandStep, StartCommand, SaveCommand, CommandFails, CommandDone,
     SyncCommand, Locked
<1>6. CASE Crash \/ (\E r \in Requests : Dispatch(r))
  BY <1>6 DEF Crash, Idle, CommandDone, Dispatch
<1> QED
  BY <1>1, <1>2, <1>3, <1>4, <1>5, <1>6
     DEF Next, WorkerStep, Enter, CommitMessage, Loop, Leave, CommandStep

\* Every step keeps what the revisions say.
LEMMA RevisionStep == ASSUME CoherenceInv, Next PROVE RevisionInv'
<1> USE Kinds, EndType
   DEF CoherenceInv, TypeInv, TypeOK, OwnerInv, RevisionInv, TurnInv, CacheIsStore,
   Stored, WroteLast, Untouched, ThreadGoes, StoreGoes, Current, NoCopy, Locked,
   loopVars, sentVars, commandVars
<1>1. CASE Lock
  BY <1>1 DEF Lock
<1>2. CASE Initialize
  BY <1>2, InitializeEffect DEF Initialize
<1>3. CASE SaveInitialized
  BY <1>3, SavesEffect DEF SaveInitialized
<1>4. CASE BeginTurn
  BY <1>4 DEF BeginTurn
<1>5. CASE BeginFails
  BY <1>5 DEF BeginFails
<1>6. CASE Save
  BY <1>6, SavesEffect DEF Save
<1>7. CASE SendThenLoop
  BY <1>7 DEF SendThenLoop
<1>8. CASE SendThenCall
  BY <1>8 DEF SendThenCall, Commit
<1>9. CASE SendThenTool
  BY <1>9 DEF SendThenTool
<1>10. CASE SendThenFinalize
  BY <1>10 DEF SendThenFinalize
<1>11. CASE SaveCaught
  BY <1>11 DEF SaveCaught, Caught, Commit
<1>12. CASE SaveEscapes
  BY <1>12 DEF SaveEscapes
<1>13. CASE Prepare
  BY <1>13, PrepareEffect, CompactedType, Kinds DEF Prepare
<1>14. CASE PrepareFails
  BY <1>14 DEF PrepareFails
<1>15. CASE GenerateText
  BY <1>15 DEF GenerateText, Commit
<1>16. CASE GenerateFails
  BY <1>16 DEF GenerateFails, Caught, Commit
<1>17. ASSUME NEW cs \in Responses, NEW withText \in BOOLEAN, GenerateCalls(cs, withText)
       PROVE  RevisionInv'
  BY <1>17, GenerateCallsEffect, ResponsesType DEF GenerateCalls, Appends
<1>18. CASE RunTool
  BY <1>18 DEF RunTool, Commit
<1>19. CASE RunCompact
  BY <1>19, RunCompactEffect, ToolsType DEF RunCompact, Appends
<1>20. CASE ToolHookFails
  BY <1>20, ToolHookFailsEffect DEF ToolHookFails, Appends
<1>21. CASE Notify
  BY <1>21 DEF Notify
<1>22. CASE NotifyFails
  BY <1>22 DEF NotifyFails
<1>23. CASE SaveFinalized
  BY <1>23, SavesEffect DEF SaveFinalized
<1>24. CASE SendFinalized
  BY <1>24 DEF SendFinalized
<1>25. CASE Complete
  BY <1>25 DEF Complete, Idle
<1>26. CASE Fallback
  BY <1>26 DEF Fallback
<1>27. CASE Abandon
  BY <1>27 DEF Abandon, Idle
<1>28. CASE (\E c \in Commands : StartCommand(c)) \/ CommandFails \/ SyncCommand
  BY <1>28 DEF StartCommand, CommandFails, CommandDone, SyncCommand, Locked
<1>29. CASE SaveCommand
  BY <1>29, SaveCommandEffect DEF SaveCommand
<1>30. CASE Crash \/ (\E r \in Requests : Dispatch(r))
  BY <1>30 DEF Crash, Idle, CommandDone, Dispatch
<1> QED
  BY <1>1, <1>2, <1>3, <1>4, <1>5, <1>6, <1>7, <1>8, <1>9, <1>10, <1>11, <1>12,
     <1>13, <1>14, <1>15, <1>16, <1>17, <1>18, <1>19, <1>20, <1>21, <1>22, <1>23,
     <1>24, <1>25, <1>26, <1>27, <1>28, <1>29, <1>30
     DEF Next, WorkerStep, Enter, CommitMessage, Loop, Leave, CommandStep

\* Every step keeps what the open turn says.
LEMMA TurnStep == ASSUME CoherenceInv, Next PROVE TurnInv'
<1> USE Kinds, EndType
   DEF CoherenceInv, TypeInv, TypeOK, OwnerInv, RevisionInv, TurnInv, CacheIsStore,
   Stored, WroteLast, Untouched, ThreadGoes, StoreGoes, Current, NoCopy, Locked,
   loopVars, sentVars, commandVars
<1>1. CASE Lock
  BY <1>1 DEF Lock
<1>2. CASE Initialize
  BY <1>2 DEF Initialize
<1>3. CASE SaveInitialized
  BY <1>3 DEF SaveInitialized
<1>4. CASE BeginTurn
  BY <1>4 DEF BeginTurn
<1>5. CASE BeginFails
  BY <1>5 DEF BeginFails
<1>6. CASE Save
  BY <1>6 DEF Save
<1>7. CASE SendThenLoop
  BY <1>7 DEF SendThenLoop
<1>8. CASE SendThenCall
  BY <1>8 DEF SendThenCall, Commit
<1>9. CASE SendThenTool
  BY <1>9 DEF SendThenTool
<1>10. CASE SendThenFinalize
  BY <1>10 DEF SendThenFinalize
<1>11. CASE SaveCaught
  BY <1>11 DEF SaveCaught, Caught, Commit
<1>12. CASE SaveEscapes
  BY <1>12 DEF SaveEscapes
<1>13. CASE Prepare
  BY <1>13, PrepareEffect, CompactedType, Kinds DEF Prepare
<1>14. CASE PrepareFails
  BY <1>14 DEF PrepareFails
<1>15. CASE GenerateText
  BY <1>15 DEF GenerateText, Commit
<1>16. CASE GenerateFails
  BY <1>16 DEF GenerateFails, Caught, Commit
<1>17. ASSUME NEW cs \in Responses, NEW withText \in BOOLEAN, GenerateCalls(cs, withText)
       PROVE  TurnInv'
  BY <1>17, GenerateCallsEffect, ResponsesType DEF GenerateCalls, Appends
<1>18. CASE RunTool
  BY <1>18 DEF RunTool, Commit
<1>19. CASE RunCompact
  BY <1>19, RunCompactEffect, ToolsType DEF RunCompact, Appends
<1>20. CASE ToolHookFails
  BY <1>20, ToolHookFailsEffect DEF ToolHookFails, Appends
<1>21. CASE Notify
  BY <1>21 DEF Notify
<1>22. CASE NotifyFails
  BY <1>22 DEF NotifyFails
<1>23. CASE SaveFinalized
  BY <1>23 DEF SaveFinalized
<1>24. CASE SendFinalized
  BY <1>24 DEF SendFinalized
<1>25. CASE Complete
  BY <1>25 DEF Complete, Idle
<1>26. CASE Fallback
  BY <1>26 DEF Fallback
<1>27. CASE Abandon
  BY <1>27 DEF Abandon, Idle
<1>28. ASSUME NEW c \in Commands, StartCommand(c) PROVE TurnInv'
  BY <1>28 DEF StartCommand
<1>29. CASE SaveCommand
  BY <1>29 DEF SaveCommand
<1>30. CASE CommandFails
  BY <1>30 DEF CommandFails, CommandDone
<1>31. CASE SyncCommand
  BY <1>31 DEF SyncCommand, CommandDone, Locked
<1>32. CASE Crash \/ (\E r \in Requests : Dispatch(r))
  BY <1>32 DEF Crash, Idle, CommandDone, Dispatch
<1> QED
  BY <1>1, <1>2, <1>3, <1>4, <1>5, <1>6, <1>7, <1>8, <1>9, <1>10, <1>11, <1>12,
     <1>13, <1>14, <1>15, <1>16, <1>17, <1>18, <1>19, <1>20, <1>21, <1>22, <1>23,
     <1>24, <1>25, <1>26, <1>27, <1>28, <1>29, <1>30, <1>31, <1>32
     DEF Next, WorkerStep, Enter, CommitMessage, Loop, Leave, CommandStep

\* Every step keeps the cached thread and the stored one together.
LEMMA CacheStep == ASSUME CoherenceInv, Next PROVE CacheIsStore'
<1> USE Kinds, EndType
   DEF CoherenceInv, TypeInv, TypeOK, OwnerInv, RevisionInv, TurnInv, CacheIsStore,
   Stored, WroteLast, Untouched, ThreadGoes, StoreGoes, Current, NoCopy, Locked,
   loopVars, sentVars, commandVars
<1>1. CASE Enter
  BY <1>1 DEF Enter, Lock, Initialize, SaveInitialized, BeginTurn, BeginFails
<1>2. CASE CommitMessage
  BY <1>2 DEF CommitMessage, Save, SendThenLoop, SendThenCall, Commit, SendThenTool,
     SendThenFinalize, SaveCaught, Caught, SaveEscapes
<1>3. CASE Loop
  BY <1>3 DEF Loop, Prepare, PrepareFails, GenerateText, Commit, GenerateFails,
     Caught, GenerateCalls, RunTool, RunCompact, ToolHookFails
<1>4. CASE Leave
  BY <1>4 DEF Leave, Notify, NotifyFails, SaveFinalized, SendFinalized, Complete,
     Idle, Fallback, Abandon
<1>5. CASE CommandStep
  BY <1>5 DEF CommandStep, StartCommand, SaveCommand, CommandFails, CommandDone,
     SyncCommand, Locked
<1>6. CASE Crash \/ (\E r \in Requests : Dispatch(r))
  BY <1>6 DEF Crash, Idle, CommandDone, Dispatch
<1> QED
  BY <1>1, <1>2, <1>3, <1>4, <1>5, <1>6
     DEF Next, WorkerStep, Enter, CommitMessage, Loop, Leave, CommandStep

-----------------------------------------------------------------------------
\* The types and the shape of a round hold in every state.
LEMMA TypeInvariant == Spec => []TypeInv
<1>1. TypeInv /\ [Next]_vars => TypeInv'
  <2> SUFFICES ASSUME TypeInv, [Next]_vars PROVE TypeInv'
    OBVIOUS
  <2>1. CASE Next
    BY <2>1, TypeStep, RoundShapeStep DEF TypeInv
  <2>2. CASE UNCHANGED vars
    BY <2>2 DEF vars, loopVars, sentVars, commandVars, TypeInv, TypeOK, RoundShape
  <2> QED
    BY <2>1, <2>2
<1> QED
  BY <1>1, TypeInit, PTL DEF Spec

\* The thread starts as it is stored.
LEMMA CoherenceInit == Init => CoherenceInv
<1> SUFFICES ASSUME Init PROVE CoherenceInv
  OBVIOUS
<1>1. TypeInv
  BY TypeInit
<1>2. /\ pc = "idle" /\ pending = NoReq /\ requests = Requests /\ cmdAt = "idle"
      /\ thread.rev = 0 /\ thread.msgs = <<>> /\ thread.turn = NoReq
      /\ store.rev = 0 /\ store.msgs = <<>> /\ copy.rev = 0
  BY DEF Init, NoCopy
<1>3. OwnerInv /\ RevisionInv
  BY <1>2, EndType DEF OwnerInv, RevisionInv, WroteLast, Stored, Untouched
<1>4. TurnInv /\ CacheIsStore
  BY <1>2 DEF TurnInv, CacheIsStore
<1> QED
  BY <1>1, <1>3, <1>4 DEF CoherenceInv

\* The cached thread and the store stay coherent.
LEMMA CoherenceInvariant == Spec => []CoherenceInv
<1>1. CoherenceInv /\ [Next]_vars => CoherenceInv'
  <2> SUFFICES ASSUME CoherenceInv, [Next]_vars PROVE CoherenceInv'
    OBVIOUS
  <2>1. CASE Next
    BY <2>1, TypeStep, RoundShapeStep, OwnerStep, RevisionStep, TurnStep, CacheStep
       DEF CoherenceInv, TypeInv
  <2>2. CASE UNCHANGED vars
    BY <2>2
       DEF vars, loopVars, sentVars, commandVars, CoherenceInv, TypeInv, TypeOK,
       RoundShape,
       OwnerInv, RevisionInv, TurnInv, CacheIsStore, WroteLast, Stored, Untouched
  <2> QED
    BY <2>1, <2>2
<1> QED
  BY <1>1, CoherenceInit, PTL DEF Spec

\* The worker, the cached thread, the store and the events have their types in
\* every state.
THEOREM WorkerTypeCorrect == Spec => []TypeOK
<1>1. TypeInv => TypeOK
  BY DEF TypeInv
<1> QED
  BY <1>1, TypeInvariant, PTL

\* sync_thread_handle, the save under the mutex and the reload after a restart
\* leave no cached state behind that the store does not have: between two requests
\* the cache is the stored thread, without an open turn, whatever failed before.
THEOREM WorkerCacheIsStore == Spec => []CacheIsStore
<1>1. CoherenceInv => CacheIsStore
  BY DEF CoherenceInv
<1> QED
  BY <1>1, CoherenceInvariant, PTL

\* An event goes out at three places.
LEMMA SentEffect ==
  ASSUME [Next]_vars
  PROVE  \/ sent' \in {sent, <<>>}
         \/ pc = "send" /\ SendMessage
         \/ pc = "finalSend" /\ sent' = Append(sent, Event("finalized", req, NoMessage))
         \/ pc = "complete" /\ sent' = Append(sent, Event("completed", req, NoMessage))
<1>1. CASE Enter
  BY <1>1 DEF Enter, Lock, Initialize, SaveInitialized, BeginTurn, BeginFails, sentVars
<1>2. CASE CommitMessage
  BY <1>2 DEF CommitMessage, Save, SendThenLoop, SendThenCall, SendThenTool,
     SendThenFinalize, SaveCaught, SaveEscapes, sentVars
<1>3. CASE Loop
  BY <1>3 DEF Loop, Prepare, PrepareFails, GenerateText, GenerateFails, GenerateCalls,
     RunTool, RunCompact, ToolHookFails, sentVars
<1>4. CASE Leave
  BY <1>4 DEF Leave, Notify, NotifyFails, SaveFinalized, SendFinalized, Complete,
     Fallback, Abandon, sentVars
<1>5. CASE CommandStep
  BY <1>5
     DEF CommandStep, StartCommand, SaveCommand, CommandFails, SyncCommand, sentVars
<1>6. CASE (\E r \in Requests : Dispatch(r)) \/ Crash \/ UNCHANGED vars
  BY <1>6 DEF Dispatch, Crash, vars, sentVars
<1> QED
  BY <1>1, <1>2, <1>3, <1>4, <1>5, <1>6 DEF Next, WorkerStep

\* A MessageCommitted goes to event_tx only after save_locked has stored the
\* message as the last of the thread.
THEOREM WorkerSentIsStored == Spec => SentIsStored
<1> DEFINE New == {sent'[i].msg : i \in {i \in DOMAIN sent' :
                                       i > Len(sent) /\ sent'[i].type = "message"}}
<1>1. CoherenceInv /\ [Next]_vars => [\A m \in New : store.msgs # <<>>
          /\ m = Last(store.msgs)]_vars
  <2> SUFFICES ASSUME CoherenceInv, Next, NEW m \in New
               PROVE  store.msgs # <<>> /\ m = Last(store.msgs)
    OBVIOUS
  <2>0. \/ sent' \in {sent, <<>>}
        \/ pc = "send" /\ SendMessage
        \/ sent' = Append(sent, Event("finalized", req, NoMessage))
        \/ sent' = Append(sent, Event("completed", req, NoMessage))
    BY SentEffect
  <2>1. sent \in Seq(SentEvents) /\ Len(sent) \in Nat
    BY DEF CoherenceInv, TypeInv, TypeOK, SentEvents
  <2>2. PICK i \in DOMAIN sent' : i > Len(sent) /\ sent'[i].type = "message"
      /\ m = sent'[i].msg
    OBVIOUS
  <2> HIDE DEF New
  <2>3. CASE \E e : sent' = Append(sent, e)
    <3>1. PICK e : sent' = Append(sent, e)
      BY <2>3
    <3>2. Len(sent') = Len(sent) + 1 /\ sent'[Len(sent) + 1] = e
        /\ DOMAIN sent' = 1 .. Len(sent) + 1
      BY <2>1, <3>1
    <3>3. i = Len(sent) + 1
      BY <2>1, <2>2, <3>2
    <3>4. e.type = "message" /\ m = e.msg
      BY <2>2, <3>2, <3>3
    <3>5. pc = "send" /\ SendMessage
      <4>1. sent' # Append(sent, Event("finalized", req, NoMessage))
        BY <2>1, <3>1, <3>4 DEF Event
      <4>2. sent' # Append(sent, Event("completed", req, NoMessage))
        BY <2>1, <3>1, <3>4 DEF Event
      <4>3. sent' # <<>> /\ sent' # sent
        BY <2>1, <3>1, <3>2
      <4> QED
        BY <4>1, <4>2, <4>3, <2>0
    <3>6. e = Event("message", req, Last(thread.msgs))
      <4>1. sent'[Len(sent) + 1] = Event("message", req, Last(thread.msgs))
        BY <2>1, <3>5 DEF SendMessage
      <4> QED
        BY <3>2, <4>1
    <3>7. thread.msgs = store.msgs /\ thread.msgs # <<>>
      BY <3>5 DEF CoherenceInv, RevisionInv, Stored, TypeInv, RoundShape
    <3> QED
      BY <3>4, <3>6, <3>7 DEF Event
  <2>4. CASE sent' = sent \/ sent' = <<>>
    BY <2>1, <2>2, <2>4
  <2> QED
    BY <2>0, <2>3, <2>4 DEF SendMessage
<1> QED
  BY <1>1, CoherenceInvariant, PTL DEF Spec, SentIsStored

-----------------------------------------------------------------------------
\* The last n events are those that close the request.
Closing(n) ==
  /\ n <= Len(sent)
  /\ \A i \in DOMAIN sent :
       sent[i].type = IF i + n <= Len(sent) THEN "message"
                      ELSE IF i + n = Len(sent) + 1 THEN "finalized" ELSE "completed"

\* All events are of request r.
OwnEvents(r) == \A i \in DOMAIN sent : sent[i].req = r

\* The station says how many of the closing events are out, and every event since
\* the last Dispatch is of one request.
EventInv ==
  /\ pc \notin {"idle", "complete"} => Closing(0)
  /\ pc = "complete" => Closing(1)
  /\ pc = "idle" => Closing(0) \/ Closing(2)
  /\ \E r \in Requests \cup {NoReq} : OwnEvents(r)
  /\ pc # "idle" => OwnEvents(req)

\* The record waits for the answer: at the stations before it is stored the
\* answer has been sent.
RecordInv ==
  /\ RecordedIsAnswered
  /\ pc \in {"notify", "finalSave"} => req \in answered

\* An event more, or none.
LEMMA EventsGrow ==
  ASSUME TypeInv, NEW type \in EventTypes, NEW r, NEW m,
         sent' = Append(sent, Event(type, r, m))
  PROVE  /\ Closing(0) /\ type = "message" => Closing(0)'
         /\ Closing(0) /\ type = "finalized" => Closing(1)'
         /\ Closing(1) /\ type = "completed" => Closing(2)'
         /\ OwnEvents(r) => OwnEvents(r)'
<1>1. sent \in Seq(SentEvents)
  BY DEF TypeInv, TypeOK, SentEvents
<1>2. /\ Len(sent) \in Nat /\ Len(sent') = Len(sent) + 1
      /\ DOMAIN sent = 1 .. Len(sent) /\ DOMAIN sent' = 1 .. Len(sent) + 1
      /\ \A i \in 1 .. Len(sent) : sent'[i] = sent[i]
      /\ sent'[Len(sent) + 1].type = type /\ sent'[Len(sent) + 1].req = r
  BY <1>1 DEF Event
<1>3. OwnEvents(r) => OwnEvents(r)'
  BY <1>2 DEF OwnEvents
<1>4. Closing(0) /\ type = "message" => Closing(0)'
  BY <1>2 DEF Closing
<1>5. Closing(0) /\ type = "finalized" => Closing(1)'
  BY <1>2 DEF Closing
<1>6. Closing(1) /\ type = "completed" => Closing(2)'
  BY <1>2 DEF Closing
<1> QED
  BY <1>3, <1>4, <1>5, <1>6

\* No event more, or none at all.
LEMMA EventsStay ==
  /\ UNCHANGED sent => /\ \A n : Closing(n)' <=> Closing(n)
                       /\ \A r : OwnEvents(r)' <=> OwnEvents(r)
  /\ sent' = <<>> => Closing(0)' /\ \A r : OwnEvents(r)'
<1>1. UNCHANGED sent => \A n : Closing(n)' <=> Closing(n)
  BY DEF Closing
<1>2. UNCHANGED sent => \A r : OwnEvents(r)' <=> OwnEvents(r)
  BY DEF OwnEvents
<1>3. sent' = <<>> => Closing(0)' /\ \A r : OwnEvents(r)'
  BY DEF Closing, OwnEvents
<1> QED
  BY <1>1, <1>2, <1>3

\* Every step keeps the order of the events ...
LEMMA EventStep == ASSUME TypeInv, EventInv, Next PROVE EventInv'
<1> USE EventsStay, EndType
   DEF EventInv, TypeInv, TypeOK, loopVars, sentVars, commandVars
<1>1. CASE Enter
  BY <1>1 DEF Enter, Lock, Initialize, SaveInitialized, BeginTurn, BeginFails
<1>2. CASE Save \/ SaveCaught \/ SaveEscapes
  BY <1>2 DEF Save, SaveCaught, Caught, Commit, SaveEscapes
<1>3. CASE SendThenLoop
  BY <1>3, EventsGrow DEF SendThenLoop, SendMessage, EventTypes
<1>4. CASE SendThenCall
  BY <1>4, EventsGrow DEF SendThenCall, Commit, SendMessage, EventTypes
<1>5. CASE SendThenTool
  BY <1>5, EventsGrow DEF SendThenTool, SendMessage, EventTypes
<1>6. CASE SendThenFinalize
  BY <1>6, EventsGrow DEF SendThenFinalize, SendMessage, EventTypes
<1>7. CASE Loop
  BY <1>7 DEF Loop, Prepare, PrepareFails, GenerateText, Commit, GenerateFails,
     Caught, GenerateCalls, RunTool, RunCompact, ToolHookFails
<1>8. CASE Notify \/ NotifyFails \/ SaveFinalized \/ Fallback \/ Abandon
  BY <1>8 DEF Notify, NotifyFails, SaveFinalized, Fallback, Abandon, GivesUp, Idle
<1>9. CASE SendFinalized
  BY <1>9, EventsGrow DEF SendFinalized, SendMessage, EventTypes
<1>10. CASE Complete
  BY <1>10, EventsGrow DEF Complete, Idle, EventTypes
<1>11. CASE CommandStep
  BY <1>11 DEF CommandStep, StartCommand, SaveCommand, CommandFails, CommandDone,
     SyncCommand, Locked
<1>12. CASE Crash \/ (\E r \in Requests : Dispatch(r))
  BY <1>12 DEF Crash, Idle, CommandDone, Dispatch
<1> QED
  BY <1>1, <1>2, <1>3, <1>4, <1>5, <1>6, <1>7, <1>8, <1>9, <1>10, <1>11, <1>12
     DEF Next, WorkerStep, Enter, CommitMessage, Loop, Leave, CommandStep

\* ... and the answer before the record.
LEMMA RecordStep == ASSUME TypeInv, RecordInv, Next PROVE RecordInv'
<1> USE DEF RecordInv, RecordedIsAnswered, ThreadGoes, StoreGoes, loopVars, sentVars,
   commandVars
<1>1. CASE Lock \/ Initialize \/ BeginTurn \/ BeginFails
  BY <1>1 DEF Lock, Initialize, BeginTurn, BeginFails
<1>2. CASE SaveInitialized
  BY <1>2, SavesEffect DEF SaveInitialized
<1>3. CASE Save
  BY <1>3, SavesEffect DEF Save
<1>4. CASE SendThenLoop \/ SendThenCall \/ SendThenTool \/ SendThenFinalize
           \/ SaveCaught \/ SaveEscapes
  BY <1>4 DEF SendThenLoop, SendThenCall, Commit, SendThenTool, SendThenFinalize,
     SaveCaught, Caught, SaveEscapes
<1>5. CASE Loop
  BY <1>5 DEF Loop, Prepare, PrepareFails, GenerateText, Commit, GenerateFails,
     Caught, GenerateCalls, RunTool, RunCompact, ToolHookFails
<1>6. CASE Notify \/ NotifyFails \/ SendFinalized \/ Complete \/ Fallback
           \/ Abandon
  BY <1>6 DEF Notify, NotifyFails, SendFinalized, Complete, Idle, Fallback, Abandon
<1>7. CASE SaveFinalized
  BY <1>7, SavesEffect DEF SaveFinalized
<1>8. CASE (\E c \in Commands : StartCommand(c)) \/ CommandFails \/ SyncCommand
  BY <1>8 DEF StartCommand, CommandFails, CommandDone, SyncCommand, Locked
<1>9. CASE SaveCommand
  BY <1>9, SaveCommandEffect DEF SaveCommand
<1>10. CASE Crash \/ (\E r \in Requests : Dispatch(r))
  BY <1>10 DEF Crash, Idle, CommandDone, Dispatch
<1> QED
  BY <1>1, <1>2, <1>3, <1>4, <1>5, <1>6, <1>7, <1>8, <1>9, <1>10
     DEF Next, WorkerStep, Enter, CommitMessage, Loop, Leave, CommandStep

\* run_agent_loop sends the messages of a request, finalize its TurnFinalized and
\* handle_request its RequestCompleted, in this order and each of the last two at
\* most once, through every failure that the loop catches.
THEOREM WorkerEventsInOrder == Spec => []EventsInOrder
<1>1. Init => EventInv
  BY DEF Init, EventInv, Closing, OwnEvents
<1>2. TypeInv /\ EventInv /\ [Next]_vars => EventInv'
  <2>1. UNCHANGED vars /\ EventInv => EventInv'
    BY EventsStay DEF vars, sentVars, EventInv
  <2> QED
    BY <2>1, EventStep
<1>3. TypeInv /\ EventInv => EventsInOrder
  <2> SUFFICES ASSUME TypeInv, EventInv, NEW i \in DOMAIN sent, NEW j \in DOMAIN sent
               PROVE  /\ i < j => /\ sent[i].type # "completed"
                                  /\ sent[i].type = "finalized"
                                      => sent[j].type = "completed"
                      /\ sent[i].type = "completed" =>
                           i > 1 /\ sent[i - 1].type = "finalized"
                      /\ sent[i].req = sent[j].req
    BY DEF EventsInOrder
  <2>1. Len(sent) \in Nat /\ DOMAIN sent = 1 .. Len(sent)
    BY DEF TypeInv, TypeOK
  <2>2. Closing(0) \/ Closing(1) \/ Closing(2)
    BY DEF EventInv
  <2>3. sent[i].req = sent[j].req
    BY DEF EventInv, OwnEvents
  <2>4. CASE Closing(0)
    BY <2>1, <2>3, <2>4 DEF Closing
  <2>5. CASE Closing(1)
    BY <2>1, <2>3, <2>5 DEF Closing
  <2>6. CASE Closing(2)
    BY <2>1, <2>3, <2>6 DEF Closing
  <2> QED
    BY <2>2, <2>4, <2>5, <2>6
<1> QED
  BY <1>1, <1>2, <1>3, TypeInvariant, PTL DEF Spec

\* commit_finalized_turn stores a deduplication record only of a request whose
\* final text, or failure text, has gone to the router.
THEOREM WorkerRecordedIsAnswered == Spec => []RecordedIsAnswered
<1>1. Init => RecordInv
  BY DEF Init, RecordInv, RecordedIsAnswered
<1>2. TypeInv /\ RecordInv /\ [Next]_vars => RecordInv'
  <2>1. UNCHANGED vars /\ RecordInv => RecordInv'
    BY DEF vars, sentVars, RecordInv, RecordedIsAnswered
  <2> QED
    BY <2>1, RecordStep
<1>3. RecordInv => RecordedIsAnswered
  BY DEF RecordInv
<1> QED
  BY <1>1, <1>2, <1>3, TypeInvariant, PTL DEF Spec

-----------------------------------------------------------------------------
\* A history is empty, or it starts with the only system message it has.
Prefixed(msgs) ==
  msgs # <<>> => msgs[1] = System /\ Filter(msgs, SystemMessages) = <<System>>

\* So do the three of them: each is written from another or from the prefix.
PrefixInv == Prefixed(thread.msgs) /\ Prefixed(store.msgs) /\ Prefixed(copy.msgs)

\* What a compaction leaves of a history that starts with the prefix.
Short ==
  <<System, Msg("summary", NoReq, NoCall), Msg("continue", NoReq, NoCall)>>

\* The history of a new thread.
LEMMA PrefixedSystem == Prefixed(<<System>>) /\ Prefixed(<<>>)
<1>1. System \in SystemMessages
  BY DEF System, SystemMessages, MessagesOf, Msg
<1>2. <<System>> = Append(<<>>, System) /\ <<>> \in Seq(Messages) /\ System \in Messages
  BY MessageTypes
<1>3. Filter(<<System>>, SystemMessages) = Append(Filter(<<>>, SystemMessages), System)
  BY <1>1, <1>2, FilterAppend
<1> QED
  BY <1>2, <1>3, FilterEmpty DEF Prefixed

\* No message of a turn is a system message.
LEMMA PrefixedAppend ==
  ASSUME NEW msgs \in Seq(Messages), msgs # <<>>, Prefixed(msgs),
         NEW m \in Messages, m.role # "system"
  PROVE  Prefixed(Append(msgs, m))
<1>1. m \notin SystemMessages
  BY DEF SystemMessages, MessagesOf
<1>2. Filter(Append(msgs, m), SystemMessages) = Filter(msgs, SystemMessages)
  BY <1>1, FilterAppend
<1>3. Append(msgs, m)[1] = msgs[1]
  OBVIOUS
<1> QED
  BY <1>2, <1>3 DEF Prefixed

\* A compaction finds one system message, the first one.
LEMMA CompactedIsShort ==
  ASSUME NEW msgs \in Seq(Messages), msgs # <<>>, Prefixed(msgs)
  PROVE  Compacted(msgs) = Short
<1>1. Compacted(msgs)
          = Filter(msgs, SystemMessages) \o <<Msg("summary", NoReq, NoCall),
          Msg("continue", NoReq, NoCall)>>
  BY DEF Compacted, SystemMessages
<1>2. Filter(msgs, SystemMessages) = <<System>>
  BY DEF Prefixed
<1>3. ASSUME NEW a, NEW b, NEW c PROVE <<a>> \o <<b, c>> = <<a, b, c>>
  <2> DEFINE S == {a, b, c}
             t == <<a>> \o <<b, c>>
  <2>1. <<a>> \in Seq(S) /\ <<b, c>> \in Seq(S)
    OBVIOUS
  <2>2. t \in Seq(S) /\ Len(t) = 3 /\ t[1] = a /\ t[2] = b /\ t[3] = c
    BY <2>1
  <2>3. <<a, b, c>> \in Seq(S) /\ Len(<<a, b, c>>) = 3
    OBVIOUS
  <2> HIDE DEF t, S
  <2>4. \A i \in 1 .. 3 : t[i] = <<a, b, c>>[i]
    BY <2>2
  <2>5. t = <<a, b, c>>
    BY <2>2, <2>3, <2>4
  <2> QED
    BY <2>5 DEF t
<1> QED
  BY <1>1, <1>2, <1>3 DEF Short

\* A compaction keeps the prefix.
LEMMA PrefixedShort == Prefixed(Short) /\ Short # <<>> /\ Short \in Seq(Messages)
                           /\ Len(Short) = 3
<1>1. <<System>> \in Seq(Messages) /\ Msg("summary", NoReq, NoCall) \in Messages
          /\ Msg("continue", NoReq, NoCall) \in Messages
  BY MessageTypes DEF Roles
<1>2. Short = Append(Append(<<System>>, Msg("summary", NoReq, NoCall)),
          Msg("continue", NoReq, NoCall))
  BY DEF Short
<1>3. Prefixed(Append(<<System>>, Msg("summary", NoReq, NoCall)))
  BY <1>1, PrefixedSystem, PrefixedAppend DEF Msg
<1>4. Append(<<System>>, Msg("summary", NoReq, NoCall)) \in Seq(Messages)
          /\ Append(<<System>>, Msg("summary", NoReq, NoCall)) # <<>>
  BY <1>1
<1>5. Prefixed(Short)
  BY <1>1, <1>2, <1>3, <1>4, PrefixedAppend DEF Msg
<1>6. Short # <<>> /\ Len(Short) = 3
  BY DEF Short
<1>7. Short \in Seq(Messages)
  BY <1>1, <1>2, <1>4
<1> QED
  BY <1>5, <1>6, <1>7

\* The messages of the request in work.
OwnMessages == {m \in Messages : m.role # "system" /\ m.req = req}

\* What a step makes of the histories.
ThreadStep ==
  \/ thread'.msgs \in {thread.msgs, store.msgs}
  \/ cmdAt = "sync" /\ thread'.msgs = copy.msgs
  \/ pc = "init" /\ thread.msgs = <<>> /\ thread'.msgs = <<System>>
  \/ /\ pc \notin {"idle", "lock", "init"} /\ thread.msgs # <<>>
     /\ \/ thread'.msgs = Compacted(thread.msgs)
        \/ \E m \in OwnMessages :
             thread'.msgs \in {Append(thread.msgs, m), Append(Compacted(thread.msgs), m)}
     /\ pc' \in {"generate", "save"}

\* The store takes the history of the thread or that of the command's copy.
StoreStep ==
  \/ UNCHANGED store.msgs
  \/ /\ pc \notin {"idle", "lock"} /\ store'.msgs = thread.msgs
     /\ pc' \in {"begin", "send", "finalSend"} /\ (pc' = "begin" => pc = "initSave")
  \/ cmdAt = "save" /\ store'.msgs = copy.msgs

\* The copy is taken from a thread that is not locked, and a /clear empties it.
CopyStep ==
  copy'.msgs \in {copy.msgs, <<>>}
      \/ (~Locked /\ cmdAt = "idle" /\ copy'.msgs = thread.msgs)

\* This is all the proofs below need of the 33 actions, as far as histories go.
HistoryStep == ThreadStep /\ StoreStep /\ CopyStep

\* What the worker commits is a message of its request.
LEMMA OwnTypes ==
  ASSUME TypeInv, pc # "idle"
  PROVE  /\ \A role \in Roles \ {"system"}, c \in Calls \cup {NoCall} :
              Msg(role, req, c) \in OwnMessages
         /\ ErrorText \in OwnMessages
         /\ \A c \in Calls : Result(c) \in OwnMessages
<1>1. req \in Requests
  BY DEF TypeInv, TypeOK
<1>2. \A role \in Roles \ {"system"},
          c \in Calls \cup {NoCall} : Msg(role, req, c) \in OwnMessages
  BY <1>1, MessageTypes DEF OwnMessages, Msg
<1> QED
  BY <1>2 DEF ErrorText, Result, Roles
\* Every step treats the histories this way.
LEMMA HistoryStepHolds == ASSUME TypeInv, Next PROVE HistoryStep
<1> USE DEF HistoryStep, ThreadStep, StoreStep, CopyStep, ThreadGoes, StoreGoes,
   TypeInv, RoundShape, NoCopy, Locked, loopVars, sentVars, commandVars
<1>1. CASE Lock \/ BeginFails
  BY <1>1 DEF Lock, BeginFails
<1>2. CASE Initialize
  BY <1>2, InitializeEffect DEF Initialize
<1>3. CASE SaveInitialized
  BY <1>3, SavesEffect DEF SaveInitialized
<1>4. CASE BeginTurn
  <2>1. pc \notin {"idle", "lock", "init"} /\ UNCHANGED <<store, copy>>
    BY <1>4 DEF BeginTurn
  <2>2. Msg("user", req, NoCall) \in OwnMessages
    BY <2>1, OwnTypes DEF Roles
  <2> QED
    BY <1>4, <2>1, <2>2, TurnOpens DEF Appends, BeginTurn
<1>5. CASE Save
  BY <1>5, SavesEffect DEF Save
<1>6. CASE SendThenLoop
  BY <1>6 DEF SendThenLoop
<1>7. CASE SendThenCall
  <2>1. pc = "send" /\ Head(calls) \in Calls /\ UNCHANGED <<store, copy>>
    BY <1>7, SendThenCallEffect DEF SendThenCall
  <2>2. Msg("call", req, Head(calls)) \in OwnMessages
    BY <2>1, OwnTypes DEF Roles
  <2> QED
    BY <1>7, <2>1, <2>2, SendThenCallEffect DEF Appends
<1>8. CASE SendThenTool
  BY <1>8 DEF SendThenTool
<1>9. CASE SendThenFinalize
  BY <1>9 DEF SendThenFinalize
<1>10. CASE SaveCaught
  <2>1. pc \notin {"idle", "lock", "init"} /\ UNCHANGED <<store, copy>>
    BY <1>10 DEF SaveCaught
  <2>2. ErrorText \in OwnMessages
    BY <2>1, OwnTypes
  <2> QED
    BY <1>10, <2>1, <2>2, GenerateEffect DEF Appends, SaveCaught
<1>11. CASE SaveEscapes
  BY <1>11 DEF SaveEscapes
<1>12. CASE Prepare
  BY <1>12, PrepareEffect, CompactedType, Kinds DEF Prepare
<1>13. CASE PrepareFails
  BY <1>13 DEF PrepareFails
<1>14. CASE GenerateText
  <2>1. pc \notin {"idle", "lock", "init"} /\ UNCHANGED <<store, copy>>
    BY <1>14 DEF GenerateText
  <2>2. Msg("text", req, NoCall) \in OwnMessages
    BY <2>1, OwnTypes DEF Roles
  <2> QED
    BY <1>14, <2>1, <2>2, GenerateEffect DEF Appends, GenerateText
<1>15. CASE GenerateFails
  <2>1. pc \notin {"idle", "lock", "init"} /\ UNCHANGED <<store, copy>>
    BY <1>15 DEF GenerateFails
  <2>2. ErrorText \in OwnMessages
    BY <2>1, OwnTypes
  <2> QED
    BY <1>15, <2>1, <2>2, GenerateEffect DEF Appends, GenerateFails
<1>16. ASSUME NEW cs \in Responses, NEW withText \in BOOLEAN, GenerateCalls(cs, withText)
       PROVE  HistoryStep
  <2>1. pc = "generate" /\ Head(cs) \in Calls /\ UNCHANGED <<store, copy>>
    BY <1>16, ResponsesType DEF GenerateCalls
  <2>2. Msg("text", req, Head(cs)) \in OwnMessages
      /\ Msg("call", req, Head(cs)) \in OwnMessages
    BY <2>1, OwnTypes DEF Roles
  <2> QED
    BY <1>16, <2>1, <2>2, GenerateCallsEffect DEF Appends
<1>17. CASE RunTool
  <2>1. pc \notin {"idle", "lock", "init"} /\ UNCHANGED <<store, copy>>
    BY <1>17 DEF RunTool
  <2>2. Result(Head(tools)) \in OwnMessages
    BY <1>17, OwnTypes, ToolsType DEF RunTool
  <2> QED
    BY <1>17, <2>1, <2>2, RunToolEffect DEF Appends, RunTool
<1>18. CASE RunCompact
  <2>1. pc \notin {"idle", "lock", "init"} /\ UNCHANGED <<store, copy>>
    BY <1>18 DEF RunCompact
  <2>2. Result(Head(tools)) \in OwnMessages
    BY <1>18, OwnTypes, ToolsType DEF RunCompact
  <2> QED
    BY <1>18, <2>1, <2>2, RunCompactEffect DEF Appends, RunCompact
<1>19. CASE ToolHookFails
  <2>1. pc \notin {"idle", "lock", "init"} /\ UNCHANGED <<store, copy>>
    BY <1>19 DEF ToolHookFails
  <2>2. ErrorText \in OwnMessages
    BY <2>1, OwnTypes
  <2> QED
    BY <1>19, <2>1, <2>2, ToolHookFailsEffect DEF Appends, ToolHookFails
<1>20. CASE Notify \/ NotifyFails \/ SendFinalized \/ Complete \/ Abandon
  BY <1>20 DEF Notify, NotifyFails, SendFinalized, Complete, Idle, Abandon
<1>21. CASE SaveFinalized
  BY <1>21, SavesEffect DEF SaveFinalized
<1>22. CASE Fallback
  <2>1. pc \notin {"idle", "lock", "init"} /\ UNCHANGED <<store, copy>>
    BY <1>22 DEF Fallback
  <2>2. ErrorText \in OwnMessages
    BY <2>1, OwnTypes
  <2> QED
    BY <1>22, <2>1, <2>2, TurnOpens DEF Appends, Fallback
<1>23. CASE (\E c \in Commands : StartCommand(c)) \/ CommandFails \/ SyncCommand
  BY <1>23 DEF StartCommand, CommandFails, CommandDone, SyncCommand, Locked
<1>24. CASE SaveCommand
  BY <1>24, SaveCommandEffect DEF SaveCommand
<1>25. CASE Crash \/ (\E r \in Requests : Dispatch(r))
  BY <1>25 DEF Crash, Idle, CommandDone, Dispatch
<1> QED
  BY <1>1, <1>2, <1>3, <1>4, <1>5, <1>6, <1>7, <1>8, <1>9, <1>10, <1>11, <1>12,
     <1>13, <1>14, <1>15, <1>16, <1>17, <1>18, <1>19, <1>20, <1>21, <1>22, <1>23,
     <1>24, <1>25
     DEF Next, WorkerStep, Enter, CommitMessage, Loop, Leave, CommandStep

\* Every step keeps the prefix of the three histories.
LEMMA PrefixStep == ASSUME TypeInv, PrefixInv, Next PROVE PrefixInv'
<1>1. HistoryStep
  BY HistoryStepHolds
<1>2. Prefixed(thread.msgs)'
  <2>1. thread.msgs \in Seq(Messages) /\ PrefixInv
    BY Kinds DEF TypeInv
  <2>2. CASE thread.msgs # <<>> /\ \E m \in OwnMessages :
             thread'.msgs \in {Append(thread.msgs, m), Append(Compacted(thread.msgs), m)}
    <3>1. PICK m \in OwnMessages :
             thread'.msgs \in {Append(thread.msgs, m), Append(Compacted(thread.msgs), m)}
      BY <2>2
    <3>2. m \in Messages /\ m.role # "system"
      BY DEF OwnMessages
    <3> QED
      BY <2>1, <2>2, <3>1, <3>2, PrefixedAppend, PrefixedShort, CompactedIsShort
         DEF PrefixInv
  <2>3. CASE thread.msgs # <<>> /\ thread'.msgs = Compacted(thread.msgs)
    BY <2>1, <2>3, PrefixedShort, CompactedIsShort DEF PrefixInv
  <2> QED
    BY <1>1, <2>1, <2>2, <2>3, PrefixedSystem DEF HistoryStep, ThreadStep, PrefixInv
<1>3. Prefixed(store.msgs)' /\ Prefixed(copy.msgs)'
  BY <1>1, PrefixedSystem DEF HistoryStep, StoreStep, CopyStep, PrefixInv
<1> QED
  BY <1>2, <1>3 DEF PrefixInv

\* The invariant so far.
WrittenInv == CoherenceInv /\ PrefixInv

\* Every history starts with the system prefix.
LEMMA WrittenInvariant == Spec => []WrittenInv
<1>1. Init => PrefixInv
  <2> SUFFICES ASSUME Init PROVE PrefixInv
    OBVIOUS
  <2>1. thread.msgs = <<>> /\ store.msgs = <<>> /\ copy.msgs = <<>>
    BY DEF Init, NoCopy
  <2> QED
    BY <2>1 DEF PrefixInv, Prefixed
<1>2. TypeInv /\ PrefixInv /\ [Next]_vars => PrefixInv'
  <2>1. UNCHANGED vars /\ PrefixInv => PrefixInv'
    BY DEF vars, commandVars, PrefixInv
  <2> QED
    BY <2>1, PrefixStep
<1>3. CoherenceInv => TypeInv
  BY DEF CoherenceInv
<1>4. WrittenInv <=> CoherenceInv /\ PrefixInv
  BY DEF WrittenInv
<1> QED
  BY <1>1, <1>2, <1>3, <1>4, CoherenceInvariant, PTL DEF Spec

\* ensure_initialized and compact keep the system prefix: the history that goes
\* to the model starts with it, also after a /clear, a failed turn or a restart.
THEOREM WorkerPrefixKept == Spec => []PrefixKept
<1>1. WrittenInv => PrefixKept
  BY DEF WrittenInv, CoherenceInv, TypeInv, RoundShape, PrefixInv, Prefixed, PrefixKept
<1> QED
  BY <1>1, WrittenInvariant, PTL
-----------------------------------------------------------------------------
\* No message of the history belongs to the request.
Unmentioned(msgs, r) == \A i \in DOMAIN msgs : msgs[i].req # r

\* The user message is not committed yet.
Early == pc \in {"lock", "init", "initSave", "begin"}

\* A request that is not dispatched yet, or not begun yet, has left no message
\* anywhere: its calls cannot be confused with those of an earlier one.
FreshInv ==
  /\ \A r \in requests :
       Unmentioned(thread.msgs, r) /\ Unmentioned(store.msgs, r)
           /\ Unmentioned(copy.msgs, r)
  /\ pc # "idle" => Unmentioned(copy.msgs, req)
  /\ Early => Unmentioned(thread.msgs, req)
  /\ Early \/ (pc = "save" /\ phase = "user") => Unmentioned(store.msgs, req)

\* The messages of a compaction belong to no request.
LEMMA ShortIsNobodys ==
  /\ \A i \in DOMAIN Short : Short[i].req = NoReq /\ Short[i].role # "call"
      /\ i \in 1 .. 3
  /\ \A r \in Requests : Unmentioned(Short, r) /\ Unmentioned(<<System>>, r)
      /\ Unmentioned(<<>>, r)
<1>1. /\ Short[1].req = NoReq /\ Short[2].req = NoReq /\ Short[3].req = NoReq
      /\ Short[1].role # "call" /\ Short[2].role # "call" /\ Short[3].role # "call"
  BY DEF Short, System, Msg
<1>2. DOMAIN Short = 1 .. 3 /\ 1 .. 3 = {1, 2, 3}
  BY DEF Short
<1>3. \A i \in DOMAIN Short : Short[i].req = NoReq /\ Short[i].role # "call"
          /\ i \in 1 .. 3
  BY <1>1, <1>2
<1>4. \A r \in Requests : r # NoReq
  BY EndType
<1>5. \A r \in Requests : Unmentioned(<<System>>, r) /\ Unmentioned(<<>>, r)
  BY <1>4 DEF Unmentioned, System, Msg
<1> QED
  BY <1>3, <1>4, <1>5 DEF Unmentioned

\* A message of another request, or of none, changes nothing.
LEMMA UnmentionedAppend ==
  ASSUME NEW msgs \in Seq(Messages), NEW m \in Messages, NEW r, Unmentioned(msgs, r),
             m.req # r
  PROVE  Unmentioned(Append(msgs, m), r)
  BY DEF Unmentioned

\* The worker writes messages of its own request only.
LEMMA UnmentionedStays ==
  ASSUME TypeInv, PrefixInv, HistoryStep, NEW r \in Requests, r # req,
         Unmentioned(thread.msgs, r), Unmentioned(store.msgs, r),
             Unmentioned(copy.msgs, r)
  PROVE  Unmentioned(thread.msgs, r)' /\ Unmentioned(store.msgs, r)'
             /\ Unmentioned(copy.msgs, r)'
<1>1. Unmentioned(thread'.msgs, r)
  <2>1. thread.msgs \in Seq(Messages) /\ Prefixed(thread.msgs)
    BY Kinds DEF TypeInv, PrefixInv
  <2>2. thread.msgs # <<>> => Compacted(thread.msgs) = Short
    BY <2>1, CompactedIsShort
  <2>3. \A m \in OwnMessages : Unmentioned(Append(thread.msgs, m), r)
      /\ Unmentioned(Append(Short, m), r)
    BY <2>1, UnmentionedAppend, ShortIsNobodys, PrefixedShort DEF OwnMessages
  <2> QED
    BY <2>2, <2>3, ShortIsNobodys DEF HistoryStep, ThreadStep
<1>2. Unmentioned(store'.msgs, r) /\ Unmentioned(copy'.msgs, r)
  BY ShortIsNobodys DEF HistoryStep, StoreStep, CopyStep
<1> QED
  BY <1>1, <1>2

\* How a step moves the worker between requests.
ControlStep ==
  \/ \E r \in requests : Dispatch(r)
  \/ requests' = requests /\ pc' = "idle"
  \/ /\ requests' = requests /\ pc # "idle" /\ req' = req
     /\ Early' => Early
     /\ pc' = "save" /\ phase' = "user" => pc = "begin" \/ (pc = "save" /\ phase = "user")

\* Every step moves the worker this way.
LEMMA ControlStepHolds == ASSUME TypeInv, Next PROVE ControlStep
<1> USE DEF ControlStep, Early, loopVars, sentVars, commandVars
<1>1. CASE Enter
  BY <1>1 DEF Enter, Lock, Initialize, SaveInitialized, BeginTurn, BeginFails
<1>2. CASE CommitMessage
  BY <1>2 DEF CommitMessage, Save, SendThenLoop, SendThenCall, Commit, SendThenTool,
     SendThenFinalize, SaveCaught, Caught, SaveEscapes
<1>3. CASE Loop
  BY <1>3 DEF Loop, Prepare, PrepareFails, GenerateText, Commit, GenerateFails,
     Caught, GenerateCalls, RunTool, RunCompact, ToolHookFails
<1>4. CASE Leave
  BY <1>4 DEF Leave, Notify, NotifyFails, SaveFinalized, SendFinalized, Complete,
     Idle, Fallback, Abandon
<1>5. CASE CommandStep
  BY <1>5 DEF CommandStep, StartCommand, SaveCommand, CommandFails, CommandDone,
     SyncCommand, Locked
<1>6. CASE Crash \/ (\E r \in Requests : Dispatch(r))
  BY <1>6 DEF Crash, Idle, CommandDone, Dispatch
<1> QED
  BY <1>1, <1>2, <1>3, <1>4, <1>5, <1>6
     DEF Next, WorkerStep, Enter, CommitMessage, Loop, Leave, CommandStep

\* Every step keeps the requests to come unmentioned.
LEMMA FreshStep == ASSUME WrittenInv, FreshInv, Next PROVE FreshInv'
<1>1. HistoryStep /\ ControlStep /\ TypeInv /\ PrefixInv /\ OwnerInv
  BY HistoryStepHolds, ControlStepHolds DEF WrittenInv, CoherenceInv
<1>2. ASSUME NEW r \in requests'
      PROVE  Unmentioned(thread.msgs, r)' /\ Unmentioned(store.msgs, r)'
                 /\ Unmentioned(copy.msgs, r)'
  <2>1. r \in requests /\ r \in Requests /\ r # req
    BY <1>1, EndType DEF ControlStep, Dispatch, TypeInv, TypeOK, OwnerInv
  <2> QED
    BY <1>1, <2>1, UnmentionedStays DEF FreshInv
<1>3. CASE \E r \in requests : Dispatch(r)
  BY <1>2, <1>3 DEF Dispatch, FreshInv, Early, commandVars
<1>4. CASE pc' = "idle"
  BY <1>2, <1>4 DEF FreshInv, Early
<1>5. CASE /\ pc # "idle" /\ req' = req
           /\ Early' => Early
           /\ pc' = "save" /\ phase' = "user" => pc = "begin"
               \/ (pc = "save" /\ phase = "user")
  <2>1. req \in Requests
    BY <1>1, <1>5 DEF TypeInv, TypeOK
  <2>2. Unmentioned(copy'.msgs, req)
    BY <1>1, <1>5, <2>1, ShortIsNobodys
       DEF HistoryStep, CopyStep, Locked, FreshInv, Early, TypeInv, TypeOK, Stations
  <2>3. Early' => Unmentioned(thread'.msgs, req)
    BY <1>1, <1>5, <2>1, ShortIsNobodys DEF HistoryStep, ThreadStep, FreshInv, Early
  <2>4. Early' \/ (pc' = "save" /\ phase' = "user") => Unmentioned(store'.msgs, req)
    BY <1>1, <1>5, <2>1 DEF HistoryStep, StoreStep, FreshInv, Early
  <2> QED
    BY <1>2, <1>5, <2>2, <2>3, <2>4 DEF FreshInv, Early
<1> QED
  BY <1>1, <1>3, <1>4, <1>5 DEF ControlStep

\* The invariant so far.
FreshWrittenInv == WrittenInv /\ FreshInv

\* A request that is not begun has left no message.
LEMMA FreshInvariant == Spec => []FreshWrittenInv
<1>1. Init => FreshInv
  <2> SUFFICES ASSUME Init PROVE FreshInv
    OBVIOUS
  <2>1. pc = "idle" /\ requests = Requests /\ thread.msgs = <<>>
      /\ store.msgs = <<>> /\ copy.msgs = <<>>
    BY DEF Init, NoCopy
  <2> QED
    BY <2>1, ShortIsNobodys DEF FreshInv, Early
<1>2. WrittenInv /\ FreshInv /\ [Next]_vars => FreshInv'
  <2>1. UNCHANGED vars /\ FreshInv => FreshInv'
    BY DEF vars, loopVars, commandVars, FreshInv, Early
  <2> QED
    BY <2>1, FreshStep
<1>3. FreshWrittenInv <=> WrittenInv /\ FreshInv
  BY DEF FreshWrittenInv
<1> QED
  BY <1>1, <1>2, <1>3, WrittenInvariant, PTL DEF Spec
-----------------------------------------------------------------------------
\* The turn goes on: no failure was caught and no final text was generated.
InRound ==
  \/ pc \in {"loop", "generate", "tool"}
  \/ pc \in {"save", "send"} /\ phase \in {"user", "text", "call", "result"}

\* The calls of a response are still being committed.
Calling == pc \in {"save", "send"} /\ phase \in {"text", "call"}

\* No call occurs twice: the ids of a response are unique.
Distinct(s) == \A i, j \in DOMAIN s : s[i] = s[j] => i = j

\* Every call of the request has its result after it or is one of cs.
Answered(msgs, cs) ==
  \A i \in DOMAIN msgs :
    msgs[i].role = "call" /\ msgs[i].req = req =>
      \/ msgs[i].call \in ToSet(cs)
      \/ \E j \in DOMAIN msgs : j > i /\ msgs[j] = Result(msgs[i].call)

\* While the round goes on every committed call of the request is executed or is
\* still in tools, whatever a compaction took away.
RoundInv ==
  /\ Distinct(tools)
  /\ Calling => ToSet(calls) \subseteq ToSet(tools)
  /\ InRound /\ ~Calling => calls = <<>>
  /\ Early \/ pc = "idle" => calls = <<>>
  /\ InRound => Answered(thread.msgs, tools)

\* The calls of a response are its head and the others.
LEMMA ToSetParts ==
  ASSUME NEW s \in Seq(Calls), s # <<>>
  PROVE  /\ ToSet(s) = {Head(s)} \cup ToSet(Tail(s))
         /\ Distinct(s) => Distinct(Tail(s)) /\ Head(s) \notin ToSet(Tail(s))
<1>1. /\ Len(s) \in Nat /\ Len(s) > 0 /\ DOMAIN s = 1 .. Len(s)
      /\ Head(s) = s[1] /\ DOMAIN Tail(s) = 1 .. Len(s) - 1
      /\ \A i \in 1 .. Len(s) - 1 : Tail(s)[i] = s[i + 1]
  OBVIOUS
<1>2. \A i \in 2 .. Len(s) : i - 1 \in 1 .. Len(s) - 1 /\ Tail(s)[i - 1] = s[i]
  BY <1>1
<1>3. ToSet(s) = {Head(s)} \cup ToSet(Tail(s))
  <2>1. ASSUME NEW i \in DOMAIN s PROVE s[i] \in {Head(s)} \cup ToSet(Tail(s))
    <3>1. i = 1 \/ i \in 2 .. Len(s)
      BY <1>1
    <3> QED
      BY <1>1, <1>2, <3>1 DEF ToSet
  <2>2. ASSUME NEW i \in DOMAIN Tail(s) PROVE Tail(s)[i] \in ToSet(s)
    BY <1>1 DEF ToSet
  <2>3. Head(s) \in ToSet(s)
    BY <1>1 DEF ToSet
  <2> QED
    BY <2>1, <2>2, <2>3 DEF ToSet
<1>4. ASSUME Distinct(s) PROVE Distinct(Tail(s))
  BY <1>1, <1>4 DEF Distinct
<1>5. ASSUME Distinct(s) PROVE Head(s) \notin ToSet(Tail(s))
  BY <1>1, <1>5 DEF Distinct, ToSet
<1> QED
  BY <1>3, <1>4, <1>5

\* A call that is committed is one that will be executed ...
LEMMA AnsweredAppend ==
  ASSUME NEW msgs \in Seq(Messages), NEW cs, Answered(msgs, cs), NEW m \in Messages,
         m.role = "call" => m.call \in ToSet(cs)
  PROVE  Answered(Append(msgs, m), cs)
<1> DEFINE new == Append(msgs, m)
<1>1. /\ Len(msgs) \in Nat /\ DOMAIN msgs = 1 .. Len(msgs)
      /\ DOMAIN new = 1 .. Len(msgs) + 1
      /\ \A i \in 1 .. Len(msgs) : new[i] = msgs[i]
      /\ new[Len(msgs) + 1] = m
  OBVIOUS
<1> HIDE DEF new
<1> SUFFICES ASSUME NEW i \in DOMAIN new, new[i].role = "call", new[i].req = req,
                    new[i].call \notin ToSet(cs)
             PROVE  \E j \in DOMAIN new : j > i /\ new[j] = Result(new[i].call)
  BY DEF Answered, new
<1>2. i \in 1 .. Len(msgs)
  BY <1>1
<1>3. PICK j \in DOMAIN msgs : j > i /\ msgs[j] = Result(msgs[i].call)
  BY <1>1, <1>2 DEF Answered
<1> QED
  BY <1>1, <1>2, <1>3

\* ... its result makes it answered ...
LEMMA AnsweredResult ==
  ASSUME NEW msgs \in Seq(Messages), NEW cs \in Seq(Calls), cs # <<>>, Answered(msgs, cs),
         Result(Head(cs)) \in Messages
  PROVE  Answered(Append(msgs, Result(Head(cs))), Tail(cs))
<1> DEFINE m == Result(Head(cs))
           new == Append(msgs, m)
<1>1. /\ Len(msgs) \in Nat /\ DOMAIN msgs = 1 .. Len(msgs)
      /\ DOMAIN new = 1 .. Len(msgs) + 1
      /\ \A i \in 1 .. Len(msgs) : new[i] = msgs[i]
      /\ new[Len(msgs) + 1] = m
  OBVIOUS
<1>2. m.role # "call"
  BY DEF Result, Msg
<1> HIDE DEF new
<1> SUFFICES ASSUME NEW i \in DOMAIN new, new[i].role = "call", new[i].req = req,
                    new[i].call \notin ToSet(Tail(cs))
             PROVE  \E j \in DOMAIN new : j > i /\ new[j] = Result(new[i].call)
  BY DEF Answered, new
<1>3. i \in 1 .. Len(msgs) /\ new[i] = msgs[i]
  BY <1>1, <1>2
<1>4. CASE msgs[i].call \in ToSet(cs)
  <2>1. msgs[i].call = Head(cs)
    BY <1>3, <1>4, ToSetParts
  <2> QED
    BY <1>1, <1>3, <2>1
<1>5. CASE msgs[i].call \notin ToSet(cs)
  <2>1. PICK j \in DOMAIN msgs : j > i /\ msgs[j] = Result(msgs[i].call)
    BY <1>1, <1>3, <1>5 DEF Answered
  <2> QED
    BY <1>1, <1>3, <2>1
<1> QED
  BY <1>4, <1>5

\* ... a compaction leaves no call ...
LEMMA AnsweredShort == ASSUME NEW cs PROVE Answered(Short, cs)
  BY ShortIsNobodys DEF Answered

\* ... and a new request has none.
LEMMA AnsweredUnmentioned ==
  ASSUME NEW msgs, NEW cs, Unmentioned(msgs, req) PROVE Answered(msgs, cs)
  BY DEF Unmentioned, Answered

\* Answered of the next state, when the request stays.
LEMMA AnsweredNext ==
  ASSUME req' = req, Answered(thread'.msgs, tools') PROVE Answered(thread.msgs, tools)'
  BY DEF Answered, Result

\* Every step keeps the round.
LEMMA RoundStep == ASSUME FreshWrittenInv, RoundInv, Next PROVE RoundInv'
<1> USE Kinds
   DEF FreshWrittenInv, WrittenInv, CoherenceInv, PrefixInv, TypeInv, TypeOK,
   RoundShape, RevisionInv, FreshInv, RoundInv, InRound, Calling, Early, ThreadGoes,
   StoreGoes, loopVars, sentVars, commandVars
<1>1. CASE Lock \/ Initialize \/ SaveInitialized \/ BeginFails
  BY <1>1 DEF Lock, Initialize, SaveInitialized, BeginFails
<1>2. CASE BeginTurn
  <2>1. /\ Answered(thread.msgs, tools)
        /\ thread'.msgs = Append(thread.msgs, Msg("user", req, NoCall))
        /\ UNCHANGED <<req, tools>>
    BY <1>2, AnsweredUnmentioned, TurnOpens DEF BeginTurn
  <2>2. Msg("user", req, NoCall) \in Messages /\ Msg("user", req, NoCall).role # "call"
    BY <1>2, OwnTypes DEF BeginTurn, OwnMessages, Roles, Msg
  <2>3. Answered(thread'.msgs, tools')
    BY <2>1, <2>2, AnsweredAppend
  <2> QED
    BY <1>2, <2>1, <2>3, AnsweredNext DEF BeginTurn
<1>3. CASE Save
  <2>1. InRound => Answered(thread'.msgs, tools')
    BY <1>3, SavesEffect DEF Save
  <2> QED
    BY <1>3, <2>1, AnsweredNext DEF Save
<1>4. CASE SendThenLoop
  <2>1. Answered(thread'.msgs, tools')
    BY <1>4 DEF SendThenLoop
  <2> QED
    BY <1>4, <2>1, AnsweredNext DEF SendThenLoop
<1>5. CASE SendThenCall
  <2>1. /\ Answered(thread.msgs, tools) /\ Calling /\ calls \in Seq(Calls) /\ calls # <<>>
        /\ thread'.msgs = Append(thread.msgs, Msg("call", req, Head(calls)))
        /\ UNCHANGED <<req, tools>> /\ calls' = Tail(calls)
    BY <1>5, SendThenCallEffect DEF SendThenCall, Appends
  <2>2. Head(calls) \in ToSet(tools) /\ ToSet(Tail(calls)) \subseteq ToSet(tools)
    BY <2>1, ToSetParts
  <2>3. Msg("call", req, Head(calls)) \in Messages
      /\ Msg("call", req, Head(calls)).call = Head(calls)
    BY <1>5, SendThenCallEffect, OwnTypes DEF SendThenCall, OwnMessages, Roles, Msg
  <2>4. Answered(thread'.msgs, tools')
    BY <2>1, <2>2, <2>3, AnsweredAppend
  <2> QED
    BY <2>1, <2>2, <2>4, AnsweredNext, SendThenCallEffect, <1>5
<1>6. CASE SendThenTool
  <2>1. Answered(thread'.msgs, tools')
    BY <1>6 DEF SendThenTool
  <2> QED
    BY <1>6, <2>1, AnsweredNext DEF SendThenTool
<1>7. CASE SendThenFinalize \/ SaveCaught \/ SaveEscapes
  BY <1>7 DEF SendThenFinalize, SaveCaught, Caught, Commit, SaveEscapes
<1>8. CASE Prepare
  <2>1. thread.msgs # <<>> /\ Prefixed(thread.msgs) /\ UNCHANGED <<req, tools, calls>>
    BY <1>8 DEF Prepare
  <2>2. thread'.msgs \in {thread.msgs, Short}
    BY <1>8, <2>1, PrepareEffect, CompactedIsShort
  <2>3. Answered(thread'.msgs, tools')
    BY <1>8, <2>1, <2>2, AnsweredShort DEF Prepare
  <2> QED
    BY <1>8, <2>1, <2>3, AnsweredNext DEF Prepare
<1>9. CASE PrepareFails \/ GenerateText \/ GenerateFails \/ ToolHookFails
  BY <1>9 DEF PrepareFails, GenerateText, Commit, GenerateFails, Caught,
     ToolHookFails
<1>10. ASSUME NEW cs \in Responses, NEW withText \in BOOLEAN, GenerateCalls(cs, withText)
       PROVE  RoundInv'
  <2>1. /\ tools = <<>> /\ tools' = cs /\ calls' \in {cs, Tail(cs)} /\ req' = req
        /\ pc' = "save" /\ phase' \in {"text", "call"} /\ cs \in Seq(Calls) /\ cs # <<>>
    BY <1>10, GenerateCallsEffect, ResponsesType DEF GenerateCalls
  <2>2. Head(cs) \in ToSet(cs) /\ ToSet(Tail(cs)) \subseteq ToSet(cs)
    BY <2>1, ToSetParts
  <2>7. Distinct(cs)
    BY DEF Responses, Distinct
  <2>3. Answered(thread.msgs, cs)
    BY <1>10, <2>1 DEF GenerateCalls, Answered, ToSet
  <2>4. \A role \in {"text", "call"} :
          Msg(role, req, Head(cs)) \in Messages
              /\ Msg(role, req, Head(cs)).call = Head(cs)
    BY <1>10, ResponsesType, OwnTypes DEF GenerateCalls, OwnMessages, Roles, Msg
  <2>5. \A role \in {"text", "call"} : Answered(Append(thread.msgs,
      Msg(role, req, Head(cs))), cs)
    BY <2>2, <2>3, <2>4, AnsweredAppend
  <2>6. Answered(thread'.msgs, tools')
    BY <1>10, <2>1, <2>5, GenerateCallsEffect DEF Appends
  <2> QED
    BY <2>1, <2>2, <2>6, <2>7, AnsweredNext
<1>11. CASE RunTool
  <2>1. /\ tools \in Seq(Calls) /\ tools # <<>> /\ Answered(thread.msgs, tools)
        /\ calls = <<>>
        /\ tools' = Tail(tools) /\ req' = req /\ calls' = calls
        /\ thread'.msgs = Append(thread.msgs, Result(Head(tools)))
        /\ pc' = "save" /\ phase' = "result"
    BY <1>11, RunToolEffect DEF RunTool, Appends
  <2>2. Answered(thread'.msgs, tools')
    BY <1>11, <2>1, ToolsType, AnsweredResult DEF RunTool
  <2> QED
    BY <2>1, <2>2, ToSetParts, AnsweredNext
<1>12. CASE RunCompact
  <2>1. /\ tools \in Seq(Calls) /\ tools # <<>> /\ Answered(thread.msgs, tools)
        /\ calls = <<>>
        /\ tools' = Tail(tools) /\ req' = req /\ calls' = calls
        /\ pc' = "save" /\ phase' = "result" /\ thread.msgs # <<>>
        /\ Prefixed(thread.msgs)
    BY <1>12 DEF RunCompact
  <2>2. thread'.msgs \in {Append(thread.msgs, Result(Head(tools))), Append(Short,
      Result(Head(tools)))}
    BY <1>12, <2>1, RunCompactEffect, CompactedIsShort DEF Appends
  <2>3. Result(Head(tools)) \in Messages
    BY <1>12, ToolsType DEF RunCompact
  <2>4. Answered(thread'.msgs, tools')
    BY <2>1, <2>2, <2>3, AnsweredResult, AnsweredShort, PrefixedShort
  <2> QED
    BY <2>1, <2>4, ToSetParts, AnsweredNext
<1>13. CASE Leave
  BY <1>13 DEF Leave, Notify, NotifyFails, SaveFinalized, SendFinalized, Complete,
     Idle, Distinct, Fallback, Abandon
<1>14. ASSUME NEW c \in Commands, StartCommand(c) PROVE RoundInv'
  BY <1>14, AnsweredNext DEF StartCommand
<1>15. CASE SaveCommand
  BY <1>15, AnsweredNext DEF SaveCommand
<1>16. CASE CommandFails
  BY <1>16, AnsweredNext DEF CommandFails, CommandDone
<1>17. CASE SyncCommand
  BY <1>17 DEF SyncCommand, Locked, CommandDone
<1>18. CASE Crash \/ (\E r \in Requests : Dispatch(r))
  BY <1>18 DEF Crash, Idle, Distinct, CommandDone, Dispatch
<1> QED
  BY <1>1, <1>2, <1>3, <1>4, <1>5, <1>6, <1>7, <1>8, <1>9, <1>10, <1>11, <1>12,
     <1>13, <1>14, <1>15, <1>16, <1>17, <1>18
     DEF Next, WorkerStep, Enter, CommitMessage, Loop, Leave, CommandStep

\* The invariant so far.
RoundWrittenInv == FreshWrittenInv /\ RoundInv

\* No call of a round is forgotten.
LEMMA RoundInvariant == Spec => []RoundWrittenInv
<1>1. Init => RoundInv
  BY DEF Init, RoundInv, InRound, Calling, Early, Distinct
<1>2. FreshWrittenInv /\ RoundInv /\ [Next]_vars => RoundInv'
  <2>1. UNCHANGED vars /\ RoundInv => RoundInv'
    BY
       DEF vars, loopVars, commandVars, RoundInv, InRound, Calling, Early, Distinct,
       Answered, Result
  <2> QED
    BY <2>1, RoundStep
<1>3. RoundWrittenInv <=> FreshWrittenInv /\ RoundInv
  BY DEF RoundWrittenInv
<1> QED
  BY <1>1, <1>2, <1>3, FreshInvariant, PTL DEF Spec

\* execute_tool_calls runs through all calls of a response before the loop asks
\* the model again: every call of the turn that is in the history has its result
\* after it.
THEOREM WorkerRoundsComplete == Spec => []RoundsComplete
<1>1. RoundWrittenInv => RoundsComplete
  <2> SUFFICES ASSUME RoundWrittenInv, pc = "generate" PROVE RoundsComplete
    BY DEF RoundsComplete
  <2>1. Answered(thread.msgs, tools) /\ tools = <<>>
    BY
       DEF RoundWrittenInv, FreshWrittenInv, WrittenInv, CoherenceInv, TypeInv,
       RoundShape, RoundInv, InRound
  <2>2. ToSet(<<>>) = {}
    BY DEF ToSet
  <2> QED
    BY <2>1, <2>2 DEF Answered, RoundsComplete
<1> QED
  BY <1>1, RoundInvariant, PTL
-----------------------------------------------------------------------------
\* A command is saved while the turn waits: only before its first save can the
\* command's save succeed.
CommandBeside ==
  /\ InRound /\ UNCHANGED <<pc, phase, req, tools, sent, thread>>
  /\ \/ UNCHANGED store
     \/ pc = "save" /\ phase = "user" /\ store'.msgs = copy.msgs

\* How a turn goes on.
RoundGoes ==
  InRound' =>
    \/ BeginTurn
    \/ InRound /\ (Save \/ SendThenLoop \/ SendThenTool)
    \/ SendThenCall \/ Prepare
    \/ \E cs \in Responses, withText \in BOOLEAN : GenerateCalls(cs, withText)
    \/ RunTool \/ RunCompact
    \/ CommandBeside

\* Every step that ends in a round goes on with it this way.
LEMMA RoundGoesHolds == ASSUME CoherenceInv, Next PROVE RoundGoes
<1> USE Kinds
   DEF RoundGoes, CoherenceInv, RevisionInv, TypeInv, InRound, loopVars, sentVars,
   commandVars
<1>1. CASE Enter
  BY <1>1 DEF Enter, Lock, Initialize, SaveInitialized, BeginTurn, BeginFails
<1>2. CASE CommitMessage
  BY <1>2 DEF CommitMessage, Save, SendThenLoop, SendThenCall, Commit, SendThenTool,
     SendThenFinalize, SaveCaught, Caught, SaveEscapes
<1>3. CASE Loop
  BY <1>3 DEF Loop, Prepare, PrepareFails, GenerateText, Caught, Commit,
     GenerateFails, GenerateCalls, RunTool, RunCompact, ToolHookFails
<1>4. CASE Leave
  BY <1>4 DEF Leave, Notify, NotifyFails, SaveFinalized, SendFinalized, Complete,
     Idle, Fallback, Abandon
<1>5. CASE (\E c \in Commands : StartCommand(c)) \/ CommandFails \/ SyncCommand
  BY <1>5 DEF StartCommand, CommandBeside, CommandFails, CommandDone, SyncCommand,
     Locked
<1>6. CASE SaveCommand
  BY <1>6, SaveCommandEffect
     DEF SaveCommand, Current, StoreGoes, WroteLast, Stored, CommandBeside
<1>7. CASE Crash \/ (\E r \in Requests : Dispatch(r))
  BY <1>7 DEF Crash, Idle, CommandDone, Dispatch
<1> QED
  BY <1>1, <1>2, <1>3, <1>4, <1>5, <1>6, <1>7
     DEF Next, WorkerStep, Enter, CommitMessage, Loop, Leave, CommandStep

\* The messages the router has heard of since the request was dispatched.
Heard == {sent[k].msg : k \in DOMAIN sent}

\* Of the first n messages those of request r are in H.
Known(msgs, n, r, H) ==
  \A i \in DOMAIN msgs : i <= n /\ msgs[i].req = r => msgs[i] \in H

\* The history has no last text of request r.
Unfinished(msgs, r) ==
  \A i \in DOMAIN msgs :
    msgs[i].req = r => msgs[i].role = "user" \/ msgs[i].call # NoCall

\* It has no result of the calls cs.
Unrun(msgs, r, cs) ==
  \A i \in DOMAIN msgs, c \in ToSet(cs) : msgs[i] # Msg("result", r, c)

\* The last message of the cached thread may not be sent yet.
Committing == pc \in {"save", "send"}

\* Whatever is stored of the turn has been sent, but for the last message.
HeardInv ==
  /\ InRound => Known(thread.msgs, IF Committing THEN Len(thread.msgs) - 1
                                   ELSE Len(thread.msgs), req, Heard)
  /\ pc = "generate" => Known(store.msgs, Len(store.msgs), req, Heard)

\* No final text is stored while the turn goes on.
UnfinishedInv ==
  /\ InRound => Unfinished(thread.msgs, req)
  /\ InRound \/ (pc = "save" /\ phase = "final") => Unfinished(store.msgs, req)

\* No result is stored of a call that is still to be executed.
UnrunInv ==
  InRound => Unrun(thread.msgs, req, tools) /\ Unrun(store.msgs, req, tools)

\* What the histories hold of the turn in work.
HistoryInv == HeardInv /\ UnfinishedInv /\ UnrunInv
\* The invariant so far.
TurnWrittenInv == RoundWrittenInv /\ HistoryInv

\* An event adds the message it carries.
LEMMA HeardGrows ==
  ASSUME TypeInv
  PROVE  /\ UNCHANGED sent => Heard' = Heard
         /\ \A m : sent' = Append(sent, Event("message", req, m))
             => Heard' = Heard \cup {m}
<1>1. ASSUME NEW m, sent' = Append(sent, Event("message", req, m))
      PROVE  Heard' = Heard \cup {m}
  <2>1. sent \in Seq(SentEvents)
    BY DEF TypeInv, TypeOK, SentEvents
  <2>2. /\ Len(sent) \in Nat /\ DOMAIN sent = 1 .. Len(sent)
        /\ DOMAIN sent' = 1 .. Len(sent) + 1
        /\ \A k \in 1 .. Len(sent) : sent'[k] = sent[k]
        /\ sent'[Len(sent) + 1] = Event("message", req, m)
    BY <1>1, <2>1
  <2>3. Event("message", req, m).msg = m
    BY DEF Event
  <2>4. Heard' \subseteq Heard \cup {m}
    BY <2>2, <2>3 DEF Heard
  <2>5. Heard \subseteq Heard'
    BY <2>2 DEF Heard
  <2>6. m \in Heard'
    <3>1. Len(sent) + 1 \in DOMAIN sent' /\ sent'[Len(sent) + 1].msg = m
      BY <2>2, <2>3
    <3> QED
      BY <3>1 DEF Heard
  <2> QED
    BY <2>4, <2>5, <2>6
<1>2. UNCHANGED sent => Heard' = Heard
  BY DEF Heard
<1> QED
  BY <1>1, <1>2

\* A message more.
LEMMA HistoryAppend ==
  ASSUME NEW msgs \in Seq(Messages), NEW m \in Messages, NEW r, NEW H, NEW cs
  PROVE  /\ Known(msgs, Len(msgs), r, H) =>
              Known(Append(msgs, m), Len(Append(msgs, m)) - 1, r, H)
         /\ Unfinished(msgs, r) /\ (m.role = "user" \/ m.call # NoCall) =>
              Unfinished(Append(msgs, m), r)
         /\ Unrun(msgs, r, cs) /\ (\A c \in ToSet(cs) : m # Msg("result", r, c)) =>
              Unrun(Append(msgs, m), r, cs)
<1> DEFINE new == Append(msgs, m)
<1>1. /\ Len(msgs) \in Nat /\ DOMAIN msgs = 1 .. Len(msgs)
      /\ DOMAIN new = 1 .. Len(msgs) + 1
      /\ \A i \in 1 .. Len(msgs) : new[i] = msgs[i]
      /\ new[Len(msgs) + 1] = m /\ Len(new) = Len(msgs) + 1
  OBVIOUS
<1> HIDE DEF new
<1>2. Known(msgs, Len(msgs), r, H) => Known(new, Len(new) - 1, r, H)
  BY <1>1 DEF Known
<1>3. Unfinished(msgs, r) /\ (m.role = "user" \/ m.call # NoCall) => Unfinished(new, r)
  BY <1>1 DEF Unfinished
<1>4. Unrun(msgs, r, cs) /\ (\A c \in ToSet(cs) : m # Msg("result", r, c))
          => Unrun(new, r, cs)
  BY <1>1 DEF Unrun
<1> QED
  BY <1>2, <1>3, <1>4 DEF new

\* A history without messages of the request satisfies all three.
LEMMA HistoryUnmentioned ==
  ASSUME NEW msgs, NEW r \in Requests, Unmentioned(msgs, r), NEW n, NEW H, NEW cs
  PROVE  Known(msgs, n, r, H) /\ Unfinished(msgs, r) /\ Unrun(msgs, r, cs)
<1>1. \A c : Msg("result", r, c).req = r
  BY DEF Msg
<1> QED
  BY <1>1 DEF Known, Unfinished, Unrun, Unmentioned

\* The fields of a message.
LEMMA OwnFields ==
  \A role, r, c : /\ Msg(role, r, c).role = role /\ Msg(role, r, c).req = r
                  /\ Msg(role, r, c).call = c
  BY DEF Msg

\* An event makes the last message known.
LEMMA KnownWhenSent ==
  ASSUME TurnWrittenInv, pc = "send", InRound, SendMessage
  PROVE  Known(thread.msgs, Len(thread.msgs), req, Heard')
<1>1. TypeInv /\ HeardInv
  BY
     DEF TurnWrittenInv, HistoryInv, RoundWrittenInv, FreshWrittenInv, WrittenInv,
     CoherenceInv
<1>2. Known(thread.msgs, Len(thread.msgs) - 1, req, Heard)
  BY <1>1 DEF HeardInv, Committing
<1>3. Heard' = Heard \cup {Last(thread.msgs)}
  BY <1>1, HeardGrows DEF SendMessage
<1>4. Len(thread.msgs) \in Nat /\ DOMAIN thread.msgs = 1 .. Len(thread.msgs)
  BY <1>1, Kinds DEF TypeInv
<1>5. Last(thread.msgs) = thread.msgs[Len(thread.msgs)]
  BY DEF Last
<1> QED
  BY <1>2, <1>3, <1>4, <1>5 DEF Known

\* What the steps of a round do to the histories.
LEMMA BeginAdds ==
  ASSUME TurnWrittenInv, BeginTurn
  PROVE  /\ Msg("user", req, NoCall) \in Messages /\ req \in Requests
         /\ thread'.msgs = Append(thread.msgs, Msg("user", req, NoCall))
         /\ Unmentioned(thread.msgs, req) /\ Unmentioned(store.msgs, req)
         /\ pc' = "save" /\ phase' = "user" /\ tools = <<>>
         /\ UNCHANGED <<req, store, sent, tools>>
<1>1. TypeInv /\ FreshInv /\ pc = "begin"
  BY
     DEF TurnWrittenInv, RoundWrittenInv, FreshWrittenInv, WrittenInv, CoherenceInv,
     BeginTurn
<1>2. req \in Requests /\ Msg("user", req, NoCall) \in Messages
  BY <1>1, MessageTypes DEF TypeInv, TypeOK, Roles
<1> QED
  BY <1>1, <1>2, TurnOpens
     DEF BeginTurn, ThreadGoes, FreshInv, Early, TypeInv, RoundShape, sentVars

\* A call of the response goes to the end of the history.
LEMMA CallAdds ==
  ASSUME TurnWrittenInv, SendThenCall
  PROVE  /\ Msg("call", req, Head(calls)) \in Messages /\ Head(calls) \in Calls
         /\ thread'.msgs = Append(thread.msgs, Msg("call", req, Head(calls)))
         /\ pc = "send" /\ InRound /\ SendMessage /\ pc' = "save" /\ phase' = "call"
         /\ UNCHANGED <<req, store, tools>>
<1>1. TypeInv /\ pc = "send" /\ InRound
  BY
     DEF TurnWrittenInv, RoundWrittenInv, FreshWrittenInv, WrittenInv, CoherenceInv,
     SendThenCall, InRound
<1>2. Head(calls) \in Calls
  BY <1>1, SendThenCallEffect
<1>3. Msg("call", req, Head(calls)) \in Messages
  BY <1>1, <1>2, OwnTypes DEF OwnMessages, Roles
<1> QED
  BY <1>1, <1>2, <1>3, SendThenCallEffect DEF SendThenCall, Appends, ThreadGoes

\* The model is asked about the stored history, or about its compaction.
LEMMA PrepareKeeps ==
  ASSUME TurnWrittenInv, Prepare
  PROVE  /\ thread'.msgs \in {thread.msgs, Short} /\ store.msgs = thread.msgs
         /\ pc = "loop" /\ pc' = "generate"
         /\ UNCHANGED <<req, store, sent, tools>>
<1>1. TypeInv /\ RevisionInv /\ PrefixInv /\ pc = "loop"
  BY
     DEF TurnWrittenInv, RoundWrittenInv, FreshWrittenInv, WrittenInv, CoherenceInv,
     Prepare
<1>2. Compacted(thread.msgs) = Short
  BY <1>1, Kinds, CompactedIsShort DEF TypeInv, RoundShape, PrefixInv
<1> QED
  BY <1>1, <1>2, PrepareEffect
     DEF Prepare, ThreadGoes, RevisionInv, Stored, loopVars, sentVars

\* A response adds its first message.
LEMMA GenerateAdds ==
  ASSUME TurnWrittenInv, NEW cs \in Responses, NEW withText \in BOOLEAN,
             GenerateCalls(cs, withText)
  PROVE  /\ \E role \in {"text", "call"} :
              /\ Msg(role, req, Head(cs)) \in Messages
              /\ thread'.msgs = Append(thread.msgs, Msg(role, req, Head(cs)))
         /\ cs \in Seq(Calls) /\ Head(cs) \in Calls /\ tools' = cs
         /\ pc = "generate" /\ pc' = "save" /\ phase' \in {"text", "call"}
         /\ UNCHANGED <<req, store, sent>>
<1>1. TypeInv /\ pc = "generate"
  BY
     DEF TurnWrittenInv, RoundWrittenInv, FreshWrittenInv, WrittenInv, CoherenceInv,
     GenerateCalls
<1>2. cs \in Seq(Calls) /\ Head(cs) \in Calls
  BY <1>1, ResponsesType
<1>3. \A role \in {"text", "call"} : Msg(role, req, Head(cs)) \in Messages
  BY <1>1, <1>2, OwnTypes DEF OwnMessages, Roles
<1> QED
  BY <1>1, <1>2, <1>3, GenerateCallsEffect
     DEF GenerateCalls, Appends, ThreadGoes, sentVars

\* A call that is executed adds its result and leaves tools.
LEMMA ToolAdds ==
  ASSUME TurnWrittenInv, RunTool \/ RunCompact
  PROVE  /\ Result(Head(tools)) \in Messages /\ tools \in Seq(Calls) /\ tools # <<>>
         /\ Head(tools) \in Calls
         /\ thread'.msgs \in {Append(thread.msgs, Result(Head(tools))), Append(Short,
             Result(Head(tools)))}
         /\ pc = "tool" /\ pc' = "save" /\ phase' = "result" /\ tools' = Tail(tools)
         /\ UNCHANGED <<req, store, sent>>
<1>1. TypeInv /\ PrefixInv /\ pc = "tool"
  BY
     DEF TurnWrittenInv, RoundWrittenInv, FreshWrittenInv, WrittenInv, CoherenceInv,
     RunTool, RunCompact
<1>2. Compacted(thread.msgs) = Short
  BY <1>1, Kinds, CompactedIsShort DEF TypeInv, RoundShape, PrefixInv
<1>3. tools \in Seq(Calls) /\ tools # <<>>
  BY <1>1 DEF TypeInv, TypeOK, RoundShape
<1>4. CASE RunTool
  BY <1>1, <1>3, <1>4, RunToolEffect, ToolsType
     DEF RunTool, Appends, ThreadGoes, sentVars
<1>5. CASE RunCompact
  BY <1>1, <1>2, <1>3, <1>5, RunCompactEffect, ToolsType
     DEF RunCompact, Appends, ThreadGoes, sentVars
<1> QED
  BY <1>4, <1>5

\* A save stores the message and an event makes it known.
LEMMA PassesOn ==
  ASSUME TurnWrittenInv, InRound, Save \/ SendThenLoop \/ SendThenTool
  PROVE  /\ thread'.msgs = thread.msgs /\ store'.msgs = thread.msgs
         /\ \/ pc = "save" /\ pc' = "send" /\ UNCHANGED <<sent, phase>>
            \/ pc = "send" /\ SendMessage /\ pc' \in {"loop", "tool"}
         /\ UNCHANGED <<req, tools>>
<1>1. TypeInv /\ RevisionInv
  BY DEF TurnWrittenInv, RoundWrittenInv, FreshWrittenInv, WrittenInv, CoherenceInv
<1>2. CASE Save
  BY <1>1, <1>2, SavesEffect DEF Save, StoreGoes, ThreadGoes, loopVars, sentVars
<1>3. CASE SendThenLoop \/ SendThenTool
  BY <1>1, <1>3 DEF SendThenLoop, SendThenTool, RevisionInv, Stored, loopVars
<1> QED
  BY <1>2, <1>3
-----------------------------------------------------------------------------
\* Every step keeps the thread's messages known ...
LEMMA KnownStep ==
  ASSUME TurnWrittenInv, Next, InRound'
  PROVE  Known(thread'.msgs, IF Committing' THEN Len(thread'.msgs) - 1
                             ELSE Len(thread'.msgs), req', Heard')
<1>1. TypeInv /\ HeardInv /\ RoundGoes /\ thread.msgs \in Seq(Messages)
          /\ Short \in Seq(Messages)
  BY RoundGoesHolds, Kinds, PrefixedShort
     DEF TurnWrittenInv, HistoryInv, RoundWrittenInv, FreshWrittenInv, WrittenInv,
     CoherenceInv, TypeInv
<1>2. UNCHANGED sent => Heard' = Heard
  BY <1>1, HeardGrows
<1>3. InRound => req \in Requests
  BY <1>1 DEF InRound, TypeInv, TypeOK
<1>4. CASE BeginTurn
  <2>1. Known(thread.msgs, Len(thread.msgs), req, Heard)
    BY <1>4, BeginAdds, HistoryUnmentioned
  <2> QED
    BY <1>1, <1>2, <1>4, <2>1, BeginAdds, HistoryAppend DEF Committing
<1>5. CASE InRound /\ (Save \/ SendThenLoop \/ SendThenTool)
  <2>1. CASE pc = "save" /\ pc' = "send" /\ UNCHANGED sent
    BY <1>1, <1>2, <1>5, <2>1, PassesOn DEF HeardInv, Committing
  <2>2. CASE pc = "send" /\ SendMessage /\ pc' \in {"loop", "tool"}
    BY <1>5, <2>2, PassesOn, KnownWhenSent DEF Committing
  <2> QED
    BY <1>5, <2>1, <2>2, PassesOn
<1>6. CASE SendThenCall
  <2>1. Known(thread.msgs, Len(thread.msgs), req, Heard')
    BY <1>6, CallAdds, KnownWhenSent
  <2> QED
    BY <1>1, <1>6, <2>1, CallAdds, HistoryAppend DEF Committing
<1>7. CASE Prepare
  <2>1. InRound /\ ~Committing /\ ~Committing'
    BY <1>7, PrepareKeeps DEF InRound, Committing
  <2>2. Known(Short, Len(Short), req, Heard)
    BY <1>3, <2>1, ShortIsNobodys, HistoryUnmentioned
  <2> QED
    BY <1>1, <1>2, <1>7, <2>1, <2>2, PrepareKeeps DEF HeardInv
<1>8. ASSUME NEW cs \in Responses, NEW withText \in BOOLEAN, GenerateCalls(cs, withText)
      PROVE  Known(thread'.msgs, IF Committing' THEN Len(thread'.msgs) - 1
                                 ELSE Len(thread'.msgs), req', Heard')
  <2>1. Known(thread.msgs, Len(thread.msgs), req, Heard)
    BY <1>1, <1>8, GenerateAdds DEF InRound, Committing, HeardInv
  <2> QED
    BY <1>1, <1>2, <1>8, <2>1, GenerateAdds, HistoryAppend DEF Committing
<1>9. CASE RunTool \/ RunCompact
  <2>1. InRound /\ ~Committing /\ Committing'
    BY <1>9, ToolAdds DEF InRound, Committing
  <2>2. Known(thread.msgs, Len(thread.msgs), req, Heard)
      /\ Known(Short, Len(Short), req, Heard)
    BY <1>1, <1>3, <2>1, ShortIsNobodys, HistoryUnmentioned DEF HeardInv
  <2> QED
    BY <1>1, <1>2, <1>9, <2>1, <2>2, ToolAdds, HistoryAppend
<1>10. CASE CommandBeside
  BY <1>1, <1>2, <1>10 DEF CommandBeside, HeardInv, Committing, InRound
<1> QED
  BY <1>1, <1>4, <1>5, <1>6, <1>7, <1>8, <1>9, <1>10 DEF RoundGoes

\* The final text is generated while the store stands still.
FinalGoes ==
  pc' = "save" /\ phase' = "final" =>
    /\ pc = "generate" \/ (pc = "save" /\ phase = "final")
    /\ UNCHANGED <<req, store>>

\* Every step that ends there comes from there.
LEMMA FinalGoesHolds == ASSUME CoherenceInv, Next PROVE FinalGoes
<1> USE Kinds
   DEF FinalGoes, CoherenceInv, RevisionInv, WroteLast, Current, TypeInv, loopVars,
   sentVars, commandVars
<1>1. CASE Enter
  BY <1>1 DEF Enter, Lock, Initialize, SaveInitialized, BeginTurn, BeginFails
<1>2. CASE CommitMessage
  BY <1>2 DEF CommitMessage, Save, SendThenLoop, SendThenCall, Commit, SendThenTool,
     SendThenFinalize, SaveCaught, Caught, SaveEscapes
<1>3. CASE Loop
  BY <1>3 DEF Loop, Prepare, PrepareFails, GenerateText, Commit, GenerateFails,
     Caught, GenerateCalls, RunTool, RunCompact, ToolHookFails
<1>4. CASE Leave
  BY <1>4 DEF Leave, Notify, NotifyFails, SaveFinalized, SendFinalized, Complete,
     Idle, Fallback, Abandon
<1>5. CASE CommandStep
  BY <1>5 DEF CommandStep, StartCommand, SaveCommand, CommandFails, CommandDone,
     SyncCommand, Locked
<1>6. CASE Crash \/ (\E r \in Requests : Dispatch(r))
  BY <1>6 DEF Crash, Idle, CommandDone, Dispatch
<1> QED
  BY <1>1, <1>2, <1>3, <1>4, <1>5, <1>6
     DEF Next, WorkerStep, Enter, CommitMessage, Loop, Leave, CommandStep

\* ... those of the store are known before the model is asked ...
LEMMA KnownStoreStep ==
  ASSUME TurnWrittenInv, Next, pc' = "generate"
  PROVE  Known(store'.msgs, Len(store'.msgs), req', Heard')
<1>1. TypeInv /\ HeardInv /\ RoundGoes /\ InRound'
  BY RoundGoesHolds
     DEF TurnWrittenInv, HistoryInv, RoundWrittenInv, FreshWrittenInv, WrittenInv,
     CoherenceInv, InRound
<1>2. UNCHANGED sent => Heard' = Heard
  BY <1>1, HeardGrows
<1>3. CASE Prepare
  BY <1>1, <1>2, <1>3, PrepareKeeps DEF HeardInv, InRound, Committing
<1>4. CASE CommandBeside
  BY <1>1, <1>2, <1>4 DEF CommandBeside, HeardInv
<1>5. CASE BeginTurn \/ (InRound /\ (Save \/ SendThenLoop \/ SendThenTool))
          \/ SendThenCall
           \/ (\E cs \in Responses, withText \in BOOLEAN : GenerateCalls(cs, withText))
           \/ RunTool \/ RunCompact
  BY <1>5, BeginAdds, PassesOn, CallAdds, GenerateAdds, ToolAdds
<1> QED
  BY <1>1, <1>3, <1>4, <1>5 DEF RoundGoes

\* ... no final text is written early ...
LEMMA UnfinishedStep ==
  ASSUME TurnWrittenInv, Next
  PROVE  /\ InRound' => Unfinished(thread'.msgs, req') /\ Unfinished(store'.msgs, req')
         /\ pc' = "save" /\ phase' = "final" => Unfinished(store'.msgs, req')
<1>1. /\ TypeInv /\ UnfinishedInv /\ RoundGoes /\ FinalGoes /\ FreshInv
      /\ thread.msgs \in Seq(Messages) /\ Short \in Seq(Messages)
  BY RoundGoesHolds, FinalGoesHolds, Kinds, PrefixedShort
     DEF TurnWrittenInv, HistoryInv, RoundWrittenInv, FreshWrittenInv, WrittenInv,
     CoherenceInv, TypeInv
<1>2. InRound => req \in Requests
  BY <1>1 DEF InRound, TypeInv, TypeOK
<1>3. /\ \A role, r : \A c \in Calls : Msg(role, r, c).call # NoCall
      /\ \A r : Msg("user", r, NoCall).role = "user"
  BY WorkerAssumption, OwnFields
<1>4. InRound => Unfinished(Short, req)
  BY <1>2, ShortIsNobodys, HistoryUnmentioned
<1>5. CASE pc' = "save" /\ phase' = "final"
  BY <1>1, <1>5 DEF FinalGoes, UnfinishedInv, InRound
<1> SUFFICES ASSUME InRound'
             PROVE  Unfinished(thread'.msgs, req') /\ Unfinished(store'.msgs, req')
  BY <1>5
<1>6. CASE BeginTurn
  <2>1. Unfinished(thread.msgs, req) /\ Unfinished(store.msgs, req)
    BY <1>6, BeginAdds, HistoryUnmentioned
  <2> QED
    BY <1>1, <1>3, <1>6, <2>1, BeginAdds, HistoryAppend
<1>7. CASE InRound /\ (Save \/ SendThenLoop \/ SendThenTool)
  BY <1>1, <1>7, PassesOn DEF UnfinishedInv
<1>8. CASE SendThenCall
  BY <1>1, <1>3, <1>8, CallAdds, HistoryAppend DEF UnfinishedInv
<1>9. CASE Prepare
  BY <1>1, <1>4, <1>9, PrepareKeeps DEF UnfinishedInv, InRound
<1>10. ASSUME NEW cs \in Responses, NEW withText \in BOOLEAN, GenerateCalls(cs, withText)
       PROVE  Unfinished(thread'.msgs, req') /\ Unfinished(store'.msgs, req')
  <2>1. InRound
    BY <1>10, GenerateAdds DEF InRound
  <2> QED
    BY <1>1, <1>3, <1>10, <2>1, GenerateAdds, HistoryAppend DEF UnfinishedInv
<1>11. CASE RunTool \/ RunCompact
  <2>1. InRound /\ Result(Head(tools)).call # NoCall
    BY <1>3, <1>11, ToolAdds DEF InRound, Result
  <2> QED
    BY <1>1, <1>4, <1>11, <2>1, ToolAdds, HistoryAppend DEF UnfinishedInv
<1>12. CASE CommandBeside
  <2>1. Unmentioned(copy.msgs, req) /\ req \in Requests
    BY <1>1, <1>2, <1>12 DEF CommandBeside, FreshInv, InRound
  <2> QED
    BY <1>1, <1>12, <2>1, HistoryUnmentioned DEF CommandBeside, UnfinishedInv
<1> QED
  BY <1>1, <1>6, <1>7, <1>8, <1>9, <1>10, <1>11, <1>12 DEF RoundGoes

\* The calls of a response occur in no result of the history.
LEMMA ResponsesAreNew ==
  ASSUME TypeInv, NEW cs \in Responses, NEW msgs \in Seq(Messages),
         Known(msgs, Len(msgs), req, Heard)
  PROVE  /\ Unrun(msgs, req, cs)
         /\ \A i \in DOMAIN msgs, role \in Roles : msgs[i] # Msg(role, req, Head(cs))
<1>1. \A m \in Heard, c \in ToSet(cs) : m.call # c
  BY DEF Heard, Responses, ToSet
<1>2. ASSUME NEW i \in DOMAIN msgs, NEW c \in ToSet(cs), NEW role
      PROVE  msgs[i] # Msg(role, req, c)
  <2>1. msgs[i].req = req => msgs[i] \in Heard
    BY DEF Known
  <2> QED
    BY <1>1, <2>1, OwnFields
<1>3. Head(cs) \in ToSet(cs)
  BY ResponsesType DEF ToSet
<1> QED
  BY <1>2, <1>3 DEF Unrun

\* What holds of all calls holds of the others.
LEMMA UnrunTail ==
  ASSUME NEW msgs, NEW cs \in Seq(Calls), cs # <<>>, Unrun(msgs, req, cs)
  PROVE  Unrun(msgs, req, Tail(cs))
  BY ToSetParts DEF Unrun

\* ... and no result before its call is executed.
LEMMA UnrunStep ==
  ASSUME TurnWrittenInv, Next, InRound'
  PROVE  Unrun(thread'.msgs, req', tools') /\ Unrun(store'.msgs, req', tools')
<1>1. /\ TypeInv /\ UnrunInv /\ HeardInv /\ RoundGoes /\ FreshInv /\ RoundInv
      /\ thread.msgs \in Seq(Messages) /\ store.msgs \in Seq(Messages)
      /\ Short \in Seq(Messages)
  BY RoundGoesHolds, Kinds, PrefixedShort
     DEF TurnWrittenInv, HistoryInv, RoundWrittenInv, FreshWrittenInv, WrittenInv,
     CoherenceInv, TypeInv
<1>2. InRound => req \in Requests
  BY <1>1 DEF InRound, TypeInv, TypeOK
<1>3. \A cs : InRound => Unrun(Short, req, cs)
  BY <1>2, ShortIsNobodys, HistoryUnmentioned
<1>4. \A role \in {"user", "text", "call"} :
        \A r, d, c : Msg(role, r, d) # Msg("result", r, c)
  BY OwnFields
<1>5. CASE BeginTurn
  <2>1. Unrun(thread.msgs, req, tools) /\ Unrun(store.msgs, req, tools)
    BY <1>5, BeginAdds, HistoryUnmentioned
  <2> QED
    BY <1>1, <1>4, <1>5, <2>1, BeginAdds, HistoryAppend
<1>6. CASE InRound /\ (Save \/ SendThenLoop \/ SendThenTool)
  BY <1>1, <1>6, PassesOn DEF UnrunInv
<1>7. CASE SendThenCall
  BY <1>1, <1>4, <1>7, CallAdds, HistoryAppend DEF UnrunInv
<1>8. CASE Prepare
  BY <1>1, <1>3, <1>8, PrepareKeeps DEF UnrunInv, InRound
<1>9. ASSUME NEW cs \in Responses, NEW withText \in BOOLEAN, GenerateCalls(cs, withText)
      PROVE  Unrun(thread'.msgs, req', tools') /\ Unrun(store'.msgs, req', tools')
  <2>1. Known(thread.msgs, Len(thread.msgs), req, Heard)
      /\ Known(store.msgs, Len(store.msgs), req, Heard)
    BY <1>1, <1>9, GenerateAdds DEF InRound, Committing, HeardInv
  <2>2. Unrun(thread.msgs, req, cs) /\ Unrun(store.msgs, req, cs)
    BY <1>1, <2>1, ResponsesAreNew
  <2> QED
    BY <1>1, <1>4, <1>9, <2>2, GenerateAdds, HistoryAppend
<1>10. CASE RunTool \/ RunCompact
  <2>1. InRound /\ UNCHANGED <<req, store>> /\ tools' = Tail(tools)
      /\ tools \in Seq(Calls) /\ tools # <<>>
    BY <1>10, ToolAdds DEF InRound
  <2>2. /\ Unrun(thread.msgs, req, Tail(tools)) /\ Unrun(store.msgs, req, Tail(tools))
        /\ Unrun(Short, req, Tail(tools))
    BY <1>1, <1>3, <2>1, UnrunTail DEF UnrunInv
  <2>3. \A c \in ToSet(Tail(tools)) : Result(Head(tools)) # Msg("result", req, c)
    <3>1. Head(tools) \notin ToSet(Tail(tools))
      BY <1>1, <2>1, ToSetParts DEF RoundInv
    <3> QED
      BY <3>1, OwnFields DEF Result
  <2> QED
    BY <1>1, <1>10, <2>1, <2>2, <2>3, ToolAdds, HistoryAppend
<1>11. CASE CommandBeside
  <2>1. Unmentioned(copy.msgs, req) /\ req \in Requests
    BY <1>1, <1>2, <1>11 DEF CommandBeside, FreshInv, InRound
  <2> QED
    BY <1>1, <1>11, <2>1, HistoryUnmentioned DEF CommandBeside, UnrunInv
<1> QED
  BY <1>1, <1>5, <1>6, <1>7, <1>8, <1>9, <1>10, <1>11 DEF RoundGoes

\* The events tell what the history has of the request; it has no last text of
\* it while the turn goes on, and no result of a call still to be executed.
LEMMA HistoryInvariant == Spec => []TurnWrittenInv
<1>1. Init => HistoryInv
  BY DEF Init, HistoryInv, HeardInv, UnfinishedInv, UnrunInv, InRound
<1>2. RoundWrittenInv /\ HistoryInv /\ [Next]_vars => HistoryInv'
  <2>1. UNCHANGED vars /\ HistoryInv => HistoryInv'
    BY
       DEF vars, loopVars, sentVars, HistoryInv, HeardInv, UnfinishedInv, UnrunInv,
       InRound,
       Known, Unfinished, Unrun, Heard, Committing
  <2>2. ASSUME TurnWrittenInv, Next PROVE HistoryInv'
    <3>1. HeardInv'
      BY <2>2, KnownStep, KnownStoreStep DEF HeardInv, Known
    <3>2. UnfinishedInv'
      BY <2>2, UnfinishedStep DEF UnfinishedInv, Unfinished
    <3>3. UnrunInv'
      BY <2>2, UnrunStep DEF UnrunInv, Unrun
    <3> QED
      BY <3>1, <3>2, <3>3 DEF HistoryInv
  <2> QED
    BY <2>1, <2>2 DEF TurnWrittenInv
<1>3. TurnWrittenInv <=> RoundWrittenInv /\ HistoryInv
  BY DEF TurnWrittenInv
<1> QED
  BY <1>1, <1>2, <1>3, RoundInvariant, PTL DEF Spec
-----------------------------------------------------------------------------
\* A snapshot that may be saved is what NoLostUpdate lets a save make of the
\* stored history.
Related(new, old) == IsPrefix(old, new) \/ Rewritten(new, old)

\* The cached thread, and a command's copy, that the compare-and-swap would let
\* pass.
RelatedThread == thread.rev = store.rev => Related(thread.msgs, store.msgs)
RelatedCopy ==
  cmdAt = "save" /\ copy.rev = store.rev =>
    Related(copy.msgs, store.msgs) \/ (copy.msgs = <<>> /\ cmd \in ClearCommands)
RelatedInv == RelatedThread /\ RelatedCopy

\* IsPrefix, element by element.
LEMMA PrefixIs ==
  ASSUME NEW s \in Seq(Messages), NEW t \in Seq(Messages)
  PROVE  IsPrefix(s, t) <=> Len(s) <= Len(t) /\ \A i \in 1 .. Len(s) : s[i] = t[i]
<1>1. Len(s) \in Nat /\ Len(t) \in Nat /\ SubSeq(s, 1, Len(s)) = s
  OBVIOUS
<1>2. ASSUME Len(s) <= Len(t)
      PROVE  s = SubSeq(t, 1, Len(s)) <=> \A i \in 1 .. Len(s) : s[i] = t[i]
  <2>1. /\ Len(SubSeq(t, 1, Len(s))) = Len(s) /\ SubSeq(t, 1, Len(s)) \in Seq(Messages)
        /\ \A i \in 1 .. Len(s) : SubSeq(t, 1, Len(s))[i] = t[i]
    BY <1>1, <1>2
  <2> QED
    BY <2>1
<1> QED
  BY <1>1, <1>2 DEF IsPrefix

\* A history extends itself and the empty one.
LEMMA RelatedSame == ASSUME NEW s \in Seq(Messages) PROVE Related(s, s)
                         /\ Related(s, <<>>)
<1>1. <<>> \in Seq(Messages) /\ Len(<<>>) = 0 /\ Len(s) \in Nat
  OBVIOUS
<1>2. IsPrefix(s, s)
  BY <1>1, PrefixIs
<1>3. IsPrefix(<<>>, s)
  <2>1. Len(<<>>) <= Len(s) /\ \A i \in 1 .. Len(<<>>) : <<>>[i] = s[i]
    BY <1>1
  <2> QED
    BY <1>1, <2>1, PrefixIs
<1> QED
  BY <1>2, <1>3 DEF Related

\* A message more extends it.
LEMMA RelatedExtended ==
  ASSUME NEW s \in Seq(Messages), NEW m \in Messages PROVE Related(Append(s, m), s)
<1>1. /\ Append(s, m) \in Seq(Messages) /\ Len(Append(s, m)) = Len(s) + 1
      /\ Len(s) \in Nat
      /\ \A i \in 1 .. Len(s) : Append(s, m)[i] = s[i]
  OBVIOUS
<1>2. IsPrefix(s, Append(s, m))
  <2>1. Len(s) <= Len(Append(s, m)) /\ \A i \in 1 .. Len(s) : s[i] = Append(s, m)[i]
    BY <1>1
  <2> QED
    BY <1>1, <2>1, PrefixIs
<1> QED
  BY <1>2 DEF Related

\* A message that the store does not have keeps the relation.
LEMMA RelatedAppend ==
  ASSUME NEW new \in Seq(Messages), NEW old \in Seq(Messages), Related(new, old),
         NEW m \in Messages, m \notin ToSet(old)
  PROVE  Related(Append(new, m), old)
<1> DEFINE longer == Append(new, m)
<1>1. /\ Len(new) \in Nat /\ Len(longer) = Len(new) + 1 /\ longer \in Seq(Messages)
      /\ \A i \in 1 .. Len(new) : longer[i] = new[i]
      /\ longer[Len(new) + 1] = m
  OBVIOUS
<1>2. ASSUME NEW s \in Seq(Messages), IsPrefix(s, new) PROVE IsPrefix(s, longer)
  <2>1. Len(s) \in Nat /\ Len(s) <= Len(new) /\ \A i \in 1 .. Len(s) : s[i] = new[i]
    BY <1>2, PrefixIs
  <2> HIDE DEF longer
  <2> QED
    BY <1>1, <2>1, PrefixIs
<1> HIDE DEF longer
<1>3. CASE Rewritten(new, old)
  <2>1. IsPrefix(Compacted(<<System>>), longer)
    <3>1. Compacted(<<System>>) \in Seq(Messages)
      <4>1. <<System>> \in Seq(Messages)
        BY MessageTypes
      <4> QED
        BY <4>1, CompactedType
    <3> QED
      BY <1>2, <1>3, <3>1 DEF Rewritten
  <2>2. \A i \in 4 .. Len(longer) : longer[i] \notin ToSet(old)
    BY <1>1, <1>3 DEF Rewritten
  <2> QED
    BY <2>1, <2>2 DEF Related, Rewritten, longer
<1> QED
  BY <1>2, <1>3 DEF Related, longer

\* A compaction is a rewrite.
LEMMA RelatedShort ==
  ASSUME NEW old \in Seq(Messages)
  PROVE  /\ Related(Short, old)
         /\ \A m \in Messages : m \notin ToSet(old) => Related(Append(Short, m), old)
<1>1. <<System>> \in Seq(Messages) /\ <<System>> # <<>>
  BY MessageTypes
<1>2. Compacted(<<System>>) = Short
  BY <1>1, PrefixedSystem, CompactedIsShort
<1>3. Rewritten(Short, old)
  BY <1>2, PrefixedShort, PrefixIs DEF Rewritten
<1> QED
  BY <1>3, PrefixedShort, RelatedAppend DEF Related

\* The final text of the request is not in a history that has no last text.
LEMMA LastTextIsNew ==
  ASSUME NEW msgs, Unfinished(msgs, req)
  PROVE  ErrorText \notin ToSet(msgs) /\ Msg("text", req, NoCall) \notin ToSet(msgs)
  BY OwnFields DEF Unfinished, ErrorText, ToSet

\* Every step keeps the relation of the thread ...
LEMMA RelatedThreadStep == ASSUME TurnWrittenInv, RelatedInv, Next PROVE RelatedThread'
<1> USE Kinds
   DEF TurnWrittenInv, HistoryInv, RoundWrittenInv, FreshWrittenInv, WrittenInv,
   CoherenceInv, PrefixInv, TypeInv, RoundShape, RevisionInv, RelatedInv,
   RelatedThread, ThreadGoes, StoreGoes, loopVars, sentVars, commandVars
<1>1. CASE Lock \/ BeginFails
  BY <1>1 DEF Lock, BeginFails
<1>2. CASE Initialize
  <2>1. thread.msgs = <<>> /\ thread.rev = store.rev => store.msgs = <<>>
    BY <1>2 DEF Initialize, Untouched
  <2>2. <<System>> \in Seq(Messages) /\ UNCHANGED store
    BY <1>2, MessageTypes DEF Initialize
  <2>3. CASE thread.msgs = <<>>
    <3>1. thread'.rev = thread.rev /\ thread'.msgs = <<System>>
      BY <1>2, <2>3, InitializeEffect
    <3> QED
      BY <2>1, <2>2, <2>3, <3>1, RelatedSame
  <2>4. CASE thread.msgs # <<>>
    BY <1>2, <2>2, <2>4, InitializeEffect
  <2> QED
    BY <2>3, <2>4
<1>3. CASE SaveInitialized
  BY <1>3, SavesEffect, RelatedSame DEF SaveInitialized
<1>4. CASE BeginTurn
  <2>1. thread.rev = store.rev => thread.msgs = store.msgs
    BY <1>4 DEF BeginTurn, Untouched
  <2>2. Msg("user", req, NoCall) \in Messages
    BY <1>4, BeginAdds
  <2> QED
    BY <1>4, <2>1, <2>2, TurnOpens, RelatedExtended DEF BeginTurn
<1>5. CASE Save
  BY <1>5, SavesEffect, RelatedSame DEF Save
<1>6. CASE SendThenLoop
  BY <1>6 DEF SendThenLoop
<1>7. CASE SendThenCall
  <2>1. thread.msgs = store.msgs /\ UNCHANGED store
    BY <1>7 DEF SendThenCall, Stored
  <2> QED
    BY <1>7, <2>1, CallAdds, RelatedExtended
<1>8. CASE SendThenTool
  BY <1>8 DEF SendThenTool
<1>9. CASE SendThenFinalize
  BY <1>9 DEF SendThenFinalize
<1>10. CASE SaveCaught
  <2>1. ErrorText \in Messages /\ ErrorText \notin ToSet(store.msgs)
    BY <1>10, LastTextIsNew, OwnTypes
       DEF SaveCaught, OwnMessages, InRound, UnfinishedInv, Roles
  <2>2. thread'.msgs = Append(thread.msgs, ErrorText) /\ thread'.rev = thread.rev
      /\ UNCHANGED store
    BY <1>10, GenerateEffect DEF Appends, SaveCaught
  <2> QED
    BY <2>1, <2>2, RelatedAppend
<1>11. CASE SaveEscapes
  BY <1>11 DEF SaveEscapes
<1>12. CASE Prepare
  BY <1>12, PrepareKeeps, RelatedSame, RelatedShort
<1>13. CASE PrepareFails
  BY <1>13 DEF PrepareFails
<1>14. CASE GenerateText
  <2>1. Msg("text", req, NoCall) \in Messages
      /\ Msg("text", req, NoCall) \notin ToSet(store.msgs)
    BY <1>14, LastTextIsNew, OwnTypes
       DEF GenerateText, OwnMessages, InRound, UnfinishedInv, Roles
  <2>2. thread'.msgs = Append(thread.msgs, Msg("text", req, NoCall))
      /\ thread'.rev = thread.rev /\ UNCHANGED store
    BY <1>14, GenerateEffect DEF Appends, GenerateText
  <2> QED
    BY <2>1, <2>2, RelatedAppend
<1>15. CASE GenerateFails
  <2>1. ErrorText \in Messages /\ ErrorText \notin ToSet(store.msgs)
    BY <1>15, LastTextIsNew, OwnTypes
       DEF GenerateFails, OwnMessages, InRound, UnfinishedInv, Roles
  <2>2. thread'.msgs = Append(thread.msgs, ErrorText) /\ thread'.rev = thread.rev
      /\ UNCHANGED store
    BY <1>15, GenerateEffect DEF Appends, GenerateFails
  <2> QED
    BY <2>1, <2>2, RelatedAppend
<1>16. ASSUME NEW cs \in Responses, NEW withText \in BOOLEAN, GenerateCalls(cs, withText)
       PROVE  RelatedThread'
  <2>1. PICK role \in {"text", "call"} :
          /\ Msg(role, req, Head(cs)) \in Messages
          /\ thread'.msgs = Append(thread.msgs, Msg(role, req, Head(cs)))
    BY <1>16, GenerateAdds
  <2>2. Known(store.msgs, Len(store.msgs), req, Heard)
    BY <1>16, GenerateAdds DEF HeardInv
  <2>3. Msg(role, req, Head(cs)) \notin ToSet(store.msgs)
    BY <2>2, ResponsesAreNew DEF Roles, ToSet
  <2>4. thread'.rev = thread.rev /\ UNCHANGED store
    BY <1>16, GenerateCallsEffect DEF Appends, GenerateCalls
  <2> QED
    BY <2>1, <2>3, <2>4, RelatedAppend
<1>17. CASE RunTool
  <2>1. thread.msgs = store.msgs /\ UNCHANGED store
      /\ Result(Head(tools)) \notin ToSet(store.msgs)
    <3>1. thread.msgs = store.msgs /\ InRound /\ UNCHANGED store
      BY <1>17 DEF RunTool, Stored, InRound
    <3>2. Head(tools) \in ToSet(tools)
      BY <1>17, ToolAdds, ToSetParts
    <3> QED
      BY <3>1, <3>2 DEF UnrunInv, Unrun, Result, ToSet
  <2> QED
    BY <1>17, <2>1, ToolAdds, RelatedExtended, RelatedShort
<1>18. CASE RunCompact
  <2>1. thread.msgs = store.msgs /\ UNCHANGED store
      /\ Result(Head(tools)) \notin ToSet(store.msgs)
    <3>1. thread.msgs = store.msgs /\ InRound /\ UNCHANGED store
      BY <1>18 DEF RunCompact, Stored, InRound
    <3>2. Head(tools) \in ToSet(tools)
      BY <1>18, ToolAdds, ToSetParts
    <3> QED
      BY <3>1, <3>2 DEF UnrunInv, Unrun, Result, ToSet
  <2> QED
    BY <1>18, <2>1, ToolAdds, RelatedExtended, RelatedShort
<1>19. CASE ToolHookFails
  <2>1. thread.msgs = store.msgs /\ UNCHANGED store /\ ErrorText \notin ToSet(store.msgs)
    BY <1>19, LastTextIsNew DEF ToolHookFails, Stored, InRound, UnfinishedInv
  <2>2. ErrorText \in Messages /\ Compacted(thread.msgs) = Short
    BY <1>19, OwnTypes, CompactedIsShort DEF ToolHookFails, OwnMessages
  <2> QED
    BY <1>19, <2>1, <2>2, ToolHookFailsEffect, RelatedExtended, RelatedShort DEF Appends
<1>20. CASE Notify \/ NotifyFails \/ SendFinalized \/ Complete \/ Abandon
  BY <1>20 DEF Notify, NotifyFails, SendFinalized, Complete, Idle, Abandon
<1>21. CASE SaveFinalized
  BY <1>21, SavesEffect, RelatedSame DEF SaveFinalized
<1>22. CASE Fallback
  <2>1. thread.rev = store.rev => thread.msgs = store.msgs
    BY <1>22 DEF Fallback, Untouched
  <2>2. ErrorText \in Messages
    BY <1>22, OwnTypes DEF Fallback, OwnMessages
  <2> QED
    BY <1>22, <2>1, <2>2, TurnOpens, RelatedExtended DEF Fallback
<1>23. CASE (\E c \in Commands : StartCommand(c)) \/ CommandFails
  BY <1>23 DEF StartCommand, CommandFails, CommandDone
<1>24. CASE SaveCommand
  BY <1>24, SaveCommandEffect DEF SaveCommand
<1>25. CASE SyncCommand
  BY <1>25, RelatedSame DEF SyncCommand
<1>26. CASE Crash
  BY <1>26, CrashEffect, RelatedSame DEF Crash
<1>27. ASSUME NEW r \in Requests, Dispatch(r) PROVE RelatedThread'
  BY <1>27 DEF Dispatch
<1> QED
  BY <1>1, <1>2, <1>3, <1>4, <1>5, <1>6, <1>7, <1>8, <1>9, <1>10, <1>11, <1>12,
     <1>13, <1>14, <1>15, <1>16, <1>17, <1>18, <1>19, <1>20, <1>21, <1>22, <1>23,
     <1>24, <1>25, <1>26, <1>27
     DEF Next, WorkerStep, Enter, CommitMessage, Loop, Leave, CommandStep

\* ... and that of the copy to the store.
LEMMA RelatedCopyStep == ASSUME TurnWrittenInv, RelatedInv, Next PROVE RelatedCopy'
<1> USE Kinds
   DEF TurnWrittenInv, RoundWrittenInv, FreshWrittenInv, WrittenInv, CoherenceInv,
   TypeInv, RevisionInv, RelatedInv, RelatedThread, RelatedCopy, StoreGoes, loopVars,
   sentVars, commandVars
<1>1. CASE Lock \/ Initialize \/ BeginTurn \/ BeginFails
  BY <1>1 DEF Lock, Initialize, BeginTurn, BeginFails
<1>2. CASE SaveInitialized
  BY <1>2, SavesEffect DEF SaveInitialized
<1>3. CASE Save
  BY <1>3, SavesEffect DEF Save
<1>4. CASE SendThenLoop \/ SendThenCall \/ SendThenTool \/ SendThenFinalize
           \/ SaveCaught \/ SaveEscapes
  BY <1>4 DEF SendThenLoop, SendThenCall, Commit, SendThenTool, SendThenFinalize,
     SaveCaught, Caught, SaveEscapes
<1>5. CASE Loop
  BY <1>5 DEF Loop, Prepare, PrepareFails, GenerateText, Commit, GenerateFails,
     Caught, GenerateCalls, RunTool, RunCompact, ToolHookFails
<1>6. CASE Notify \/ NotifyFails \/ SendFinalized \/ Complete \/ Fallback
           \/ Abandon
  BY <1>6 DEF Notify, NotifyFails, SendFinalized, Complete, Idle, Fallback, Abandon
<1>7. CASE SaveFinalized
  BY <1>7, SavesEffect DEF SaveFinalized
<1>8. CASE CommandStep
  BY <1>8 DEF CommandStep, StartCommand, SaveCommand, CommandFails, CommandDone,
     SyncCommand, Locked
<1>9. CASE Crash \/ (\E r \in Requests : Dispatch(r))
  BY <1>9 DEF Crash, Idle, CommandDone, Dispatch
<1> QED
  BY <1>1, <1>2, <1>3, <1>4, <1>5, <1>6, <1>7, <1>8, <1>9
     DEF Next, WorkerStep, Enter, CommitMessage, Loop, Leave, CommandStep

\* The store is written by a save that passes the compare-and-swap.
LEMMA StoreWrites ==
  ASSUME TypeInv, [Next]_vars
  PROVE  \/ UNCHANGED store
         \/ thread.rev = store.rev /\ store'.msgs = thread.msgs
         \/ cmdAt = "save" /\ copy.rev = store.rev /\ store'.msgs = copy.msgs
<1>1. CASE SaveInitialized \/ Save \/ SaveFinalized
  BY <1>1, SavesEffect DEF SaveInitialized, Save, SaveFinalized, Current, StoreGoes
<1>2. CASE SaveCommand
  BY <1>2, SaveCommandEffect DEF SaveCommand, Current, StoreGoes
<1>3. CASE Lock \/ Initialize \/ BeginTurn \/ BeginFails
  BY <1>3 DEF Lock, Initialize, BeginTurn, BeginFails
<1>4. CASE SendThenLoop \/ SendThenCall \/ SendThenTool \/ SendThenFinalize
          \/ SaveCaught \/ SaveEscapes
  BY <1>4
     DEF SendThenLoop, SendThenCall, SendThenTool, SendThenFinalize, SaveCaught,
     SaveEscapes
<1>5. CASE Loop
  BY <1>5 DEF Loop, Prepare, PrepareFails, GenerateText, GenerateFails, GenerateCalls,
     RunTool, RunCompact, ToolHookFails
<1>6. CASE Notify \/ NotifyFails \/ SendFinalized \/ Complete \/ Fallback \/ Abandon
  BY <1>6 DEF Notify, NotifyFails, SendFinalized, Complete, Fallback, Abandon
<1>7. CASE (\E c \in Commands : StartCommand(c)) \/ CommandFails \/ SyncCommand
  BY <1>7 DEF StartCommand, CommandFails, SyncCommand
<1>8. CASE (\E r \in Requests : Dispatch(r)) \/ Crash \/ UNCHANGED vars
  BY <1>8 DEF Dispatch, Crash, vars
<1> QED
  BY <1>1, <1>2, <1>3, <1>4, <1>5, <1>6, <1>7, <1>8
     DEF Next, WorkerStep, Enter, CommitMessage, Leave, CommandStep

\* A save extends the stored history, empties it for a /clear, or puts a
\* summary in its place: the compare-and-swap on the revision keeps every older
\* snapshot out, whoever took it.
THEOREM WorkerNoLostUpdate == Spec => NoLostUpdate
<1>1. Init => RelatedInv
  <2> SUFFICES ASSUME Init PROVE RelatedInv
    OBVIOUS
  <2>1. thread.msgs = <<>> /\ store.msgs = <<>> /\ cmdAt = "idle"
    BY DEF Init
  <2>2. Related(<<>>, <<>>)
    <3>1. <<>> \in Seq(Messages)
      OBVIOUS
    <3> QED
      BY <3>1, RelatedSame
  <2> QED
    BY <2>1, <2>2 DEF RelatedInv, RelatedThread, RelatedCopy
<1>2. TurnWrittenInv /\ RelatedInv /\ [Next]_vars => RelatedInv'
  <2>1. UNCHANGED vars /\ RelatedInv => RelatedInv'
    BY DEF vars, commandVars, RelatedInv, RelatedThread, RelatedCopy
  <2> QED
    BY <2>1, RelatedThreadStep, RelatedCopyStep DEF RelatedInv
<1>3. TurnWrittenInv /\ RelatedInv /\ [Next]_vars =>
        [\/ IsPrefix(store.msgs, store'.msgs)
         \/ store'.msgs = <<>> /\ cmd \in ClearCommands
         \/ Rewritten(store'.msgs, store.msgs)]_vars
  <2> SUFFICES ASSUME TurnWrittenInv, RelatedInv, [Next]_vars
               PROVE  \/ Related(store'.msgs, store.msgs)
                      \/ store'.msgs = <<>> /\ cmd \in ClearCommands
    BY DEF Related
  <2>1. TypeInv /\ store.msgs \in Seq(Messages)
    BY Kinds
       DEF TurnWrittenInv, RoundWrittenInv, FreshWrittenInv, WrittenInv,
       CoherenceInv, TypeInv
  <2> QED
    BY <2>1, StoreWrites, RelatedSame DEF RelatedInv, RelatedThread, RelatedCopy
<1> QED
  BY <1>1, <1>2, <1>3, HistoryInvariant, PTL DEF Spec, NoLostUpdate
-----------------------------------------------------------------------------
\* A step that Router takes no notice of.
Quiet ==
  /\ UNCHANGED <<req, sent, store.dedup>>
  /\ Stage' = Stage

\* An event makes the channel longer.
LEMMA LengthGrows ==
  ASSUME TypeInv, NEW e, sent' = Append(sent, e) PROVE Len(sent') = Len(sent) + 1
  BY DEF TypeInv, TypeOK

\* The stations at which the worker is `locked' in the sense of RequestLife.
LEMMA StageIs ==
  ASSUME TypeInv
  PROVE  /\ (Stage = "idle") <=> (pc = "idle")
         /\ (Stage = "taken") <=> (pc = "lock")
         /\ (Stage = "committed") <=> (pc \in {"finalSend", "complete"})
         /\ (Stage = "locked") <=> (pc \notin {"idle", "lock", "finalSend", "complete"})
  BY DEF Stage

\* The steps that neither begin nor end a request and send nothing.
LEMMA QuietSteps ==
  ASSUME TypeInv,
         \/ Initialize \/ SaveInitialized \/ BeginTurn \/ BeginFails
         \/ Save \/ SaveCaught \/ SaveEscapes \/ Loop
         \/ Notify \/ NotifyFails \/ Fallback
         \/ CommandStep
  PROVE  Quiet
<1> USE DEF Quiet, Stage, loopVars, sentVars
<1>1. CASE Initialize \/ BeginTurn \/ BeginFails
  BY <1>1 DEF Initialize, BeginTurn, BeginFails
<1>2. CASE SaveInitialized \/ Save
  BY <1>2, SavesEffect DEF SaveInitialized, Save, StoreGoes
<1>3. CASE SaveCaught \/ SaveEscapes
  BY <1>3 DEF SaveCaught, SaveEscapes, Caught, Commit
<1>4. CASE Loop
  BY <1>4 DEF Loop, Prepare, PrepareFails, GenerateText, GenerateFails, GenerateCalls,
     RunTool, RunCompact, ToolHookFails, Caught, Commit
<1>5. CASE Notify \/ NotifyFails \/ Fallback
  BY <1>5 DEF Notify, NotifyFails, Fallback
<1>6. CASE (\E c \in Commands : StartCommand(c)) \/ CommandFails \/ SyncCommand
  BY <1>6 DEF StartCommand, CommandFails, SyncCommand
<1>7. CASE SaveCommand
  BY <1>7, SaveCommandEffect DEF SaveCommand, StoreGoes
<1> QED
  BY <1>1, <1>2, <1>3, <1>4, <1>5, <1>6, <1>7 DEF CommandStep

\* Every step of the worker is one of RequestLife or a stutter.
LEMMA LifeStep == ASSUME TypeInv, [Next]_vars PROVE [Life!Next]_(Life!vars)
<1> USE DEF loopVars, sentVars
<1>1. CASE Quiet
  BY <1>1 DEF Quiet, Life!vars
<1>2. ASSUME NEW r \in Requests, Dispatch(r) PROVE Life!Next
  BY <1>2, StageIs DEF Dispatch, Life!Next, Life!Take, Stage
<1>3. CASE Lock
  BY <1>3 DEF Lock, Life!Next, Life!Lock, Stage
<1>4. CASE SendThenLoop \/ SendThenCall \/ SendThenTool \/ SendThenFinalize
          \/ SendFinalized
  <2>1. Len(sent') = Len(sent) + 1
    BY <1>4, LengthGrows
       DEF SendThenLoop, SendThenCall, SendThenTool, SendThenFinalize, SendFinalized,
       SendMessage
  <2>2. /\ Stage \in {"locked", "committed"} /\ Stage' = Stage
        /\ UNCHANGED <<req, store>>
    BY <1>4
       DEF SendThenLoop, SendThenCall, SendThenTool, SendThenFinalize, SendFinalized,
       Commit, Stage
  <2> QED
    BY <2>1, <2>2 DEF Life!Next, Life!Emit
<1>5. CASE SaveFinalized
  <2>1. store'.dedup = store.dedup \cup {req}
    BY <1>5, SavesEffect DEF StoreGoes
  <2> QED
    BY <1>5, <2>1 DEF SaveFinalized, Stage, Life!Next, Life!CommitTurn
<1>6. CASE Complete
  <2>1. Len(sent') = Len(sent) + 1
    BY <1>6, LengthGrows DEF Complete
  <2> QED
    BY <1>6, <2>1 DEF Complete, Idle, Stage, Life!Next, Life!Complete
<1>7. CASE Abandon
  BY <1>7 DEF Abandon, GivesUp, Idle, Stage, Life!Next, Life!Abandon
<1>8. CASE Crash
  BY <1>8 DEF Crash, Idle, Stage, Life!Next, Life!Crash
<1>9. CASE UNCHANGED vars
  BY <1>9 DEF vars, Stage, Life!vars
<1>10. CASE \/ Initialize \/ SaveInitialized \/ BeginTurn \/ BeginFails
           \/ Save \/ SaveCaught \/ SaveEscapes \/ Loop
           \/ Notify \/ NotifyFails \/ Fallback \/ CommandStep
  BY <1>1, <1>10, QuietSteps
<1> QED
  BY <1>1, <1>2, <1>3, <1>4, <1>5, <1>6, <1>7, <1>8, <1>9, <1>10
     DEF Next, WorkerStep, Enter, CommitMessage, Leave

\* Router may use the worker as RequestLife.
THEOREM WorkerImplementsLife == Spec => ImplementsLife
<1>1. Init => Life!Init
  BY DEF Init, Life!Init, Stage
<1>2. TypeInv /\ [Next]_vars => [Life!Next]_(Life!vars)
  BY LifeStep
<1> QED
  BY <1>1, <1>2, TypeInvariant, PTL DEF Spec, ImplementsLife, Life!Spec
=============================================================================
