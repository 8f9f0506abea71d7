--------------------------- MODULE ProcessProofs ---------------------------
(***************************************************************************)
(* Proofs about CommandSession: the tools lose no output of a process but   *)
(* what a limit cuts off, return none twice, and list a session as unread   *)
(* just when a poll would find output.                                      *)
(***************************************************************************)
EXTENDS CommandSession, SequenceTheorems, TLAPS

\* What goes through the channel of a session.
ExitOrOutput == Outputs \cup {Exit}

\* The exit is no output: no stream is called so.
LEMMA ExitIsNoOutput == \A n \in Nat, st \in Streams : Exit # Output(st, n) /\ Exit \notin Outputs
  BY CommandAssumption DEF Exit, Outputs, Output

\* The types of the maps the manager keeps, at one session.
LEMMA SessionTypes ==
  ASSUME TypeOK, NEW s \in Sessions
  PROVE  /\ events[s] \in Seq(ExitOrOutput)
         /\ pending[s] \in Seq(Outputs) /\ returned[s] \in Seq(Outputs)
         /\ pending[s] \in Seq(ExitOrOutput) /\ returned[s] \in Seq(ExitOrOutput)
         /\ read[s] \in [Streams -> Nat] /\ written[s] \in [Streams -> Nat]
         /\ snapshot[s] \in [done : BOOLEAN, unread : BOOLEAN]
         /\ cut[s] \subseteq Outputs
<1>1. \A q \in Seq(Outputs) : q \in Seq(ExitOrOutput)
  BY DEF ExitOrOutput
<1> QED
  BY <1>1 DEF TypeOK, ExitOrOutput

\* The first event of a channel and the others.
LEMMA HeadAndTail ==
  ASSUME TypeOK, NEW s \in Sessions, events[s] # <<>>
  PROVE  /\ Head(events[s]) \in ExitOrOutput /\ Tail(events[s]) \in Seq(ExitOrOutput)
         /\ events[s] = <<Head(events[s])>> \o Tail(events[s])
         /\ \A i \in DOMAIN Tail(events[s]) :
              i + 1 \in DOMAIN events[s] /\ Tail(events[s])[i] = events[s][i + 1]
         /\ Head(events[s]) # Exit => Head(events[s]) \in Outputs
<1>1. events[s] \in Seq(ExitOrOutput)
  BY SessionTypes
<1>2. \A q \in Seq(ExitOrOutput) :
        q # <<>> => /\ Head(q) \in ExitOrOutput /\ Tail(q) \in Seq(ExitOrOutput)
                    /\ q = <<Head(q)>> \o Tail(q)
                    /\ \A i \in DOMAIN Tail(q) : i + 1 \in DOMAIN q /\ Tail(q)[i] = q[i + 1]
  OBVIOUS
<1> QED
  BY <1>1, <1>2 DEF ExitOrOutput

\* A flag of a snapshot is set.
LEMMA FlagType ==
  ASSUME TypeOK, NEW s \in Sessions, NEW b \in BOOLEAN
  PROVE  /\ [snapshot EXCEPT ![s].done = b] \in [Sessions -> [done : BOOLEAN, unread : BOOLEAN]]
         /\ [snapshot EXCEPT ![s].unread = b] \in [Sessions -> [done : BOOLEAN, unread : BOOLEAN]]
<1>1. snapshot \in [Sessions -> [done : BOOLEAN, unread : BOOLEAN]]
  BY DEF TypeOK
<1> QED
  BY <1>1

\* apply_event keeps the types.
LEMMA ApplyType ==
  ASSUME TypeOK, NEW s \in Sessions, Apply(s)
  PROVE  /\ pending' \in [Sessions -> Seq(Outputs)]
         /\ events' \in [Sessions -> Seq(Outputs \cup {Exit})]
         /\ snapshot' \in [Sessions -> [done : BOOLEAN, unread : BOOLEAN]]
<1>1. events[s] # <<>>
  BY DEF Apply
<1>2. events' \in [Sessions -> Seq(Outputs \cup {Exit})]
  BY <1>1, HeadAndTail DEF Apply, TypeOK, ExitOrOutput
<1>3. snapshot' \in [Sessions -> [done : BOOLEAN, unread : BOOLEAN]]
  <2>1. \/ snapshot' = [snapshot EXCEPT ![s].done = TRUE]
        \/ snapshot' = [snapshot EXCEPT ![s].unread = TRUE]
    BY DEF Apply
  <2>2. TRUE \in BOOLEAN
    OBVIOUS
  <2>3. /\ [snapshot EXCEPT ![s].done = TRUE] \in [Sessions -> [done : BOOLEAN, unread : BOOLEAN]]
        /\ [snapshot EXCEPT ![s].unread = TRUE] \in [Sessions -> [done : BOOLEAN, unread : BOOLEAN]]
    BY <2>2, FlagType
  <2> QED
    BY <2>1, <2>3
<1>4. pending \in [Sessions -> Seq(Outputs)]
  BY DEF TypeOK
<1>5. CASE Head(events[s]) = Exit
  BY <1>2, <1>3, <1>4, <1>5 DEF Apply
<1>6. CASE Head(events[s]) # Exit
  <2>1. Head(events[s]) \in Outputs
    BY <1>1, <1>6, HeadAndTail
  <2>2. pending' = [pending EXCEPT ![s] = Append(@, Head(events[s]))]
    BY <1>6 DEF Apply
  <2>3. pending' \in [Sessions -> Seq(Outputs)]
    BY <1>4, <2>1, <2>2
  <2> QED
    BY <1>2, <1>3, <2>3
<1> QED
  BY <1>5, <1>6

\* A limit splits the pending output in what is returned and what is cut off.
LEMMA LimitSplits ==
  ASSUME NEW q \in Seq(Outputs), NEW l \in Nat
  PROVE  LET kept == SubSeq(q, 1, Smaller(l, Len(q)))
             rest == SubSeq(q, Smaller(l, Len(q)) + 1, Len(q))
         IN  /\ kept \in Seq(Outputs) /\ rest \in Seq(Outputs)
             /\ q = kept \o rest
             /\ Range(rest) = {q[i] : i \in l + 1 .. Len(q)}
<1> DEFINE k == Smaller(l, Len(q))
<1>1. Len(q) \in Nat /\ k \in 0 .. Len(q) /\ k <= l /\ (k = l \/ k = Len(q))
  BY DEF Smaller
<1> HIDE DEF k
<1>2. q = SubSeq(q, 1, k) \o SubSeq(q, k + 1, Len(q))
  <2>1. 1 \in 1 .. Len(q) + 1 /\ k \in 1 - 1 .. Len(q) /\ Len(q) \in k .. Len(q)
    BY <1>1
  <2> QED
    BY <2>1, ConcatAdjacentSubSeq, SubSeqFull
<1>3. /\ SubSeq(q, 1, k) \in Seq(Outputs)
      /\ SubSeq(q, k + 1, Len(q)) \in Seq(Outputs)
      /\ Range(SubSeq(q, k + 1, Len(q))) = {q[i] : i \in l + 1 .. Len(q)}
  <2>1. \A i \in 1 .. Len(q) : q[i] \in Outputs
    BY ElementOfSeq
  <2>2. SubSeq(q, 1, k) \in Seq(Outputs)
    BY <1>1, <2>1, SubSeqProperties
  <2> DEFINE rest == SubSeq(q, k + 1, Len(q))
  <2>3. /\ rest \in Seq(Outputs) /\ Len(rest) = Len(q) - k
        /\ \A i \in 1 .. Len(q) - (k + 1) + 1 : rest[i] = q[(k + 1) + i - 1]
    BY <1>1, <2>1, SubSeqProperties
  <2> HIDE DEF rest
  <2>4. \A i \in 1 .. Len(q) - k : rest[i] = q[k + i]
    BY <1>1, <2>3
  <2>5. Range(rest) = {rest[i] : i \in 1 .. Len(q) - k}
    BY <2>3, RangeEquality
  <2>6. \A i \in 1 .. Len(q) - k : k + i \in l + 1 .. Len(q) /\ rest[i] = q[k + i]
    BY <1>1, <2>4
  <2>7. \A j \in l + 1 .. Len(q) : j - k \in 1 .. Len(q) - k /\ rest[j - k] = q[j]
    BY <1>1, <2>4
  <2>8. ASSUME NEW x \in Range(rest)
        PROVE  x \in {q[i] : i \in l + 1 .. Len(q)}
    <3>1. PICK i \in 1 .. Len(q) - k : x = rest[i]
      BY <2>5
    <3>2. x = q[k + i] /\ k + i \in l + 1 .. Len(q)
      BY <2>6, <3>1
    <3> QED
      BY <3>2
  <2>9. ASSUME NEW x \in {q[i] : i \in l + 1 .. Len(q)}
        PROVE  x \in Range(rest)
    <3>1. PICK j \in l + 1 .. Len(q) : x = q[j]
      OBVIOUS
    <3>2. j - k \in 1 .. Len(q) - k /\ x = rest[j - k]
      BY <2>7, <3>1
    <3> QED
      BY <2>5, <3>2
  <2>10. Range(rest) = {q[i] : i \in l + 1 .. Len(q)}
    BY <2>8, <2>9
  <2> QED
    BY <2>2, <2>3, <2>10 DEF rest
<1> QED
  BY <1>2, <1>3 DEF k

\* The result of a call keeps the types.
LEMMA HandOverType ==
  ASSUME TypeOK, NEW s \in Sessions, NEW l \in Nat, HandOver(s, l)
  PROVE  /\ returned' \in [Sessions -> Seq(Outputs)]
         /\ cut' \in [Sessions -> SUBSET Outputs]
         /\ pending' \in [Sessions -> Seq(Outputs)]
<1>1. pending[s] \in Seq(Outputs) /\ returned[s] \in Seq(Outputs) /\ cut[s] \subseteq Outputs
  BY SessionTypes
<1>2. SubSeq(pending[s], 1, Smaller(l, Len(pending[s]))) \in Seq(Outputs)
  BY <1>1, LimitSplits
<1>3. {pending[s][i] : i \in l + 1 .. Len(pending[s])} \subseteq Outputs
  BY <1>1
<1>4. returned[s] \o SubSeq(pending[s], 1, Smaller(l, Len(pending[s]))) \in Seq(Outputs)
  BY <1>1, <1>2
<1> QED
  BY <1>3, <1>4 DEF HandOver, TypeOK
-----------------------------------------------------------------------------
\* A call that collects has a chunk to return: the bound was checked when it began.
CallInv == callAt \in {"drain", "recv", "last"} /\ waiting # NoSession => chunk[waiting] < MaxChunks

\* has_unread_output goes with pending_output also while a call waits.
UnreadInv == \A s \in Sessions : snapshot[s].unread <=> pending[s] # <<>>

\* The exit is sent once, by the task that awaited the process.
ExitInv ==
  \A s \in Sessions : life[s] # "reaped" =>
    \A i \in DOMAIN events[s] : events[s][i] # Exit

ProcessInv == TypeOK /\ CallInv /\ UnreadInv /\ ExitInv

\* No session is there at the start.
LEMMA TypeInit == Init => ProcessInv
<1> SUFFICES ASSUME Init PROVE ProcessInv
  OBVIOUS
<1>1. <<>> \in Seq(Outputs) /\ <<>> \in Seq(Outputs \cup {Exit}) /\ DOMAIN <<>> = {}
  OBVIOUS
<1>2. TypeOK
  <2>1. /\ life \in [Sessions -> Lives]
        /\ written \in [Sessions -> [Streams -> Nat]] /\ read \in [Sessions -> [Streams -> Nat]]
        /\ inputs \in [Sessions -> 0 .. MaxInputs] /\ chunk \in [Sessions -> 0 .. MaxChunks]
    BY CommandAssumption DEF Init, Lives
  <2>2. snapshot \in [Sessions -> [done : BOOLEAN, unread : BOOLEAN]]
    BY DEF Init
  <2>3. /\ events \in [Sessions -> Seq(Outputs \cup {Exit})]
        /\ pending \in [Sessions -> Seq(Outputs)] /\ returned \in [Sessions -> Seq(Outputs)]
    BY <1>1 DEF Init
  <2>4. /\ waiting \in Sessions \cup {NoSession} /\ callAt \in Stages /\ late \in BOOLEAN
        /\ todo \subseteq Sessions /\ cut \in [Sessions -> SUBSET Outputs]
        /\ broken \subseteq Sessions /\ reported \subseteq Sessions
    BY DEF Init, Stages
  <2> QED
    BY <2>1, <2>2, <2>3, <2>4 DEF TypeOK
<1> QED
  BY <1>1, <1>2 DEF Init, ProcessInv, CallInv, UnreadInv, ExitInv

\* The tasks of a process keep the invariant: they add to the channel of its
\* session.
LEMMA ProcessKeepsType ==
  ASSUME ProcessInv, NEW s \in Sessions, Process(s)
  PROVE  ProcessInv'
<1> USE DEF ProcessInv, CallInv, UnreadInv, ExitInv, managerVars, callVars, resultVars, Lives
<1>1. ASSUME NEW st \in StreamsOf[s], Write(s, st) PROVE ProcessInv'
  <2>1. written[s][st] + 1 \in Nat /\ st \in Streams
    BY CommandAssumption, SessionTypes
  <2>2. written' \in [Sessions -> [Streams -> Nat]]
    BY <1>1, <2>1 DEF Write, TypeOK
  <2> QED
    BY <1>1, <2>2 DEF Write, TypeOK
<1>2. ASSUME NEW st \in StreamsOf[s], ReadStream(s, st) PROVE ProcessInv'
  <2> DEFINE o == Output(st, read[s][st] + 1)
  <2>1. st \in Streams /\ read[s][st] + 1 \in Nat /\ events[s] \in Seq(ExitOrOutput)
    BY CommandAssumption, SessionTypes
  <2>2. o \in Outputs /\ o # Exit
    BY <2>1, ExitIsNoOutput DEF Output, Outputs
  <2>3. events' = [events EXCEPT ![s] = Append(@, o)]
    BY <1>2 DEF ReadStream
  <2>4. read' \in [Sessions -> [Streams -> Nat]]
    BY <1>2, <2>1 DEF ReadStream, TypeOK
  <2> HIDE DEF o
  <2>5. Append(events[s], o) \in Seq(ExitOrOutput)
    BY <2>1, <2>2 DEF ExitOrOutput
  <2>6. events' \in [Sessions -> Seq(Outputs \cup {Exit})]
    BY <2>3, <2>5 DEF ExitOrOutput, TypeOK
  <2>7. ExitInv'
    <3> SUFFICES ASSUME NEW r \in Sessions, life[r] # "reaped", NEW i \in DOMAIN events'[r]
                 PROVE  events'[r][i] # Exit
      BY <1>2 DEF ReadStream
    <3> QED
      BY <2>1, <2>2, <2>3 DEF TypeOK
  <2> QED
    BY <1>2, <2>4, <2>6, <2>7 DEF ReadStream, TypeOK
<1>3. CASE ProcessExits(s)
  BY <1>3 DEF ProcessExits, TypeOK
<1>4. CASE SendExit(s)
  <2>1. Append(events[s], Exit) \in Seq(Outputs \cup {Exit})
    BY SessionTypes DEF ExitOrOutput
  <2> QED
    BY <1>4, <2>1 DEF SendExit, TypeOK
<1>5. CASE TakeInput(s)
  <2>1. inputs[s] > 0 => inputs[s] - 1 \in 0 .. MaxInputs
    BY CommandAssumption DEF TypeOK
  <2>2. inputs' \in [Sessions -> 0 .. MaxInputs] /\ broken' \subseteq Sessions
    <3>1. 0 \in 0 .. MaxInputs
      BY CommandAssumption
    <3>2. CASE inputs' = [inputs EXCEPT ![s] = @ - 1] /\ UNCHANGED broken
      BY <1>5, <2>1, <3>2 DEF TakeInput, TypeOK
    <3>3. CASE inputs' = [inputs EXCEPT ![s] = 0] /\ broken' = broken \cup {s}
      BY <3>1, <3>3 DEF TypeOK
    <3> QED
      BY <1>5, <3>2, <3>3 DEF TakeInput
  <2> QED
    BY <1>5, <2>2 DEF TakeInput, TypeOK
<1> QED
  BY <1>1, <1>2, <1>3, <1>4, <1>5 DEF Process

\* A call begins with a chunk to return.
LEMMA StartKeepsType ==
  ASSUME ProcessInv, NEW s \in Sessions, Start(s)
  PROVE  ProcessInv'
<1> USE DEF ProcessInv, CallInv, UnreadInv, ExitInv, MayCall, Collect, processVars, resultVars,
           Stages
<1>1. CASE ExecCommand(s)
  BY <1>1 DEF ExecCommand, TypeOK, Lives, Started
<1>2. ASSUME NEW t \in Threads, Poll(t, s) PROVE ProcessInv'
  BY <1>2 DEF Poll, TypeOK
<1>3. ASSUME NEW t \in Threads, WriteStdin(t, s) PROVE ProcessInv'
  <2>1. inputs[s] + 1 \in 0 .. MaxInputs
    BY <1>3, CommandAssumption DEF WriteStdin, TypeOK
  <2>2. inputs' \in [Sessions -> 0 .. MaxInputs]
    BY <1>3, <2>1 DEF WriteStdin, TypeOK
  <2> QED
    BY <1>3, <2>2 DEF WriteStdin, TypeOK
<1> QED
  BY <1>1, <1>2, <1>3 DEF Start

\* An event that is applied leaves the flag with the pending output, and no exit
\* that was not there.
LEMMA ApplyKeeps ==
  ASSUME ProcessInv, NEW s \in Sessions, Apply(s), UNCHANGED life
  PROVE  UnreadInv' /\ ExitInv'
<1>1. events[s] # <<>> /\ TypeOK
  BY DEF Apply, ProcessInv
<1>2. ExitInv'
  <2>1. events'[s] = Tail(events[s]) /\ \A r \in Sessions \ {s} : events'[r] = events[r]
    BY <1>1 DEF Apply, TypeOK
  <2> SUFFICES ASSUME NEW r \in Sessions, life[r] # "reaped", NEW i \in DOMAIN events'[r]
               PROVE  events'[r][i] # Exit
    BY DEF ExitInv
  <2>2. \A j \in DOMAIN events[r] : events[r][j] # Exit
    BY DEF ProcessInv, ExitInv
  <2>3. CASE r = s
    <3>1. events'[r] = Tail(events[s])
      BY <2>1, <2>3
    <3>2. i \in DOMAIN Tail(events[s])
      BY <3>1
    <3>3. i + 1 \in DOMAIN events[s] /\ Tail(events[s])[i] = events[s][i + 1]
      BY <1>1, <3>2, HeadAndTail
    <3> QED
      BY <2>2, <2>3, <3>1, <3>3
  <2>4. CASE r # s
    BY <2>1, <2>2, <2>4
  <2> QED
    BY <2>3, <2>4
<1>3. UnreadInv'
  <2>1. CASE Head(events[s]) = Exit
    BY <1>1, <2>1 DEF Apply, ProcessInv, UnreadInv, TypeOK
  <2>2. CASE Head(events[s]) # Exit
    <3>1. Head(events[s]) \in Outputs /\ pending[s] \in Seq(Outputs)
      BY <1>1, <2>2, HeadAndTail, SessionTypes
    <3>2. Append(pending[s], Head(events[s])) # <<>>
      BY <3>1, AppendProperties
    <3>3. /\ pending' = [pending EXCEPT ![s] = Append(@, Head(events[s]))]
          /\ snapshot' = [snapshot EXCEPT ![s].unread = TRUE]
      BY <2>2 DEF Apply
    <3> QED
      BY <1>1, <3>2, <3>3 DEF ProcessInv, UnreadInv, TypeOK
  <2> QED
    BY <2>1, <2>2
<1> QED
  BY <1>2, <1>3

\* Every further step of a call keeps the invariant.
LEMMA ContinueKeepsType ==
  ASSUME ProcessInv, NEW s \in Sessions, Continue(s)
  PROVE  ProcessInv'
<1> USE DEF processVars, callVars, resultVars
<1>1. CASE TakeNext(s)
  BY <1>1, ApplyType, ApplyKeeps DEF TakeNext, ProcessInv, TypeOK, CallInv
<1>2. CASE Drained(s)
  BY <1>2 DEF Drained, ProcessInv, TypeOK, CallInv, UnreadInv, ExitInv, Stages
<1>3. CASE Receive(s)
  BY <1>3, ApplyType, ApplyKeeps DEF Receive, ProcessInv, TypeOK, CallInv, Stages
<1>4. ASSUME NEW l \in Limits, Return(s, l) PROVE ProcessInv'
  <2>1. s # NoSession /\ chunk[s] < MaxChunks /\ l \in Nat /\ TypeOK
    BY <1>4, CommandAssumption DEF Return, LoopEnds, ProcessInv, CallInv
  <2>2. chunk' \in [Sessions -> 0 .. MaxChunks]
    BY <1>4, <2>1, CommandAssumption DEF Return, TypeOK
  <2>3. snapshot' \in [Sessions -> [done : BOOLEAN, unread : BOOLEAN]]
    BY <1>4, <2>1 DEF Return, TypeOK
  <2>4. HandOver(s, l)
    BY <1>4 DEF Return
  <2>5. TypeOK'
    BY <1>4, <2>1, <2>2, <2>3, <2>4, HandOverType DEF Return, TypeOK, Stages
  <2>6. UnreadInv'
    BY <1>4, <2>1 DEF Return, HandOver, ProcessInv, UnreadInv, TypeOK
  <2>7. CallInv' /\ ExitInv'
    BY <1>4 DEF Return, ProcessInv, CallInv, ExitInv
  <2> QED
    BY <2>5, <2>6, <2>7 DEF ProcessInv
<1>5. CASE Refresh(s)
  BY <1>5 DEF Refresh, ProcessInv, TypeOK, CallInv, UnreadInv, ExitInv, Stages
<1>6. CASE Refreshed(s)
  <2>1. snapshot' \in [Sessions -> [done : BOOLEAN, unread : BOOLEAN]]
    BY <1>6 DEF Refreshed, ProcessInv, TypeOK
  <2>2. UnreadInv'
    BY <1>6 DEF Refreshed, ProcessInv, TypeOK, UnreadInv
  <2> QED
    BY <1>6, <2>1, <2>2 DEF Refreshed, ProcessInv, TypeOK, CallInv, ExitInv, Stages
<1> QED
  BY <1>1, <1>2, <1>3, <1>4, <1>5, <1>6 DEF Continue

\* The types, the call in work and the snapshots hold together in every state.
LEMMA ProcessInvariant == Spec => []ProcessInv
<1>1. ProcessInv /\ [Next]_vars => ProcessInv'
  <2> USE DEF ProcessInv, TypeOK, CallInv, UnreadInv, ExitInv, processVars, callVars, resultVars,
             Stages
  <2>1. ASSUME ProcessInv, ListUnreadTasks PROVE ProcessInv'
    BY <2>1 DEF ListUnreadTasks, Started
  <2>2. ASSUME ProcessInv, Deadline PROVE ProcessInv'
    BY <2>2 DEF Deadline
  <2>3. ASSUME ProcessInv, UNCHANGED vars PROVE ProcessInv'
    BY <2>3 DEF vars
  <2> QED
    BY <2>1, <2>2, <2>3, ProcessKeepsType, StartKeepsType, ContinueKeepsType DEF Next
<1> QED
  BY <1>1, TypeInit, PTL DEF Spec

\* The manager and the tasks of its processes keep their types.
THEOREM ProcessTypeCorrect == Spec => []TypeOK
<1>1. ProcessInv => TypeOK
  BY DEF ProcessInv
<1> QED
  BY <1>1, ProcessInvariant, PTL

\* list_unread_command_tasks lists a session just when it has pending output.
THEOREM ProcessUnreadIsPending == Spec => []UnreadIsPending
<1>1. ProcessInv => UnreadIsPending
  BY DEF ProcessInv, UnreadInv, UnreadIsPending
<1> QED
  BY <1>1, ProcessInvariant, PTL
-----------------------------------------------------------------------------
\* Each stream in its order, and the exit once.
Ordered(q) ==
  \A i, j \in DOMAIN q : i < j /\ q[i].stream = q[j].stream => q[i].n < q[j].n

\* OutputOnce at one session.
OutputAt(s) ==
  /\ Ordered(Got(s))
  /\ Range(Got(s)) \ {Exit} = ReadOf(s) \ cut[s]
  /\ cut[s] \subseteq ReadOf(s)

\* A sequence stays ordered when its new last element is the latest of its
\* stream.
LEMMA AppendOrdered ==
  ASSUME NEW a \in Seq(ExitOrOutput), Ordered(a), NEW o \in ExitOrOutput,
         \A i \in DOMAIN a : a[i].stream = o.stream => a[i].n < o.n
  PROVE  Ordered(Append(a, o)) /\ Range(Append(a, o)) = Range(a) \cup {o}
<1> DEFINE q == Append(a, o)
<1>1. /\ Len(a) \in Nat /\ DOMAIN a = 1 .. Len(a) /\ DOMAIN q = 1 .. Len(a) + 1
      /\ q[Len(a) + 1] = o /\ \A i \in 1 .. Len(a) : q[i] = a[i]
  OBVIOUS
<1> HIDE DEF q
<1>2. Ordered(q)
  <2> SUFFICES ASSUME NEW i \in DOMAIN q, NEW j \in DOMAIN q, i < j, q[i].stream = q[j].stream
               PROVE  q[i].n < q[j].n
    BY DEF Ordered
  <2>1. i \in DOMAIN a /\ q[i] = a[i]
    BY <1>1
  <2>2. CASE j \in DOMAIN a
    BY <1>1, <2>1, <2>2 DEF Ordered
  <2>3. CASE j = Len(a) + 1
    BY <1>1, <2>1, <2>3
  <2> QED
    BY <1>1, <2>2, <2>3
<1>3. Range(q) = Range(a) \cup {o}
  BY <1>1 DEF Range
<1> QED
  BY <1>2, <1>3 DEF q

\* What is taken out of the middle of an ordered sequence leaves it ordered, and
\* is in no other place of it.
LEMMA RemoveOrdered ==
  ASSUME NEW a \in Seq(ExitOrOutput), NEW b \in Seq(ExitOrOutput), NEW c \in Seq(ExitOrOutput),
         Ordered((a \o b) \o c)
  PROVE  /\ Ordered(a \o c)
         /\ Range((a \o b) \o c) = Range(a \o c) \cup Range(b)
         /\ Range(a \o c) \cap Range(b) = {}
<1> DEFINE q == (a \o b) \o c
           r == a \o c
           k == Len(a)
           l == Len(b)
           m == Len(c)
<1>1. /\ k \in Nat /\ l \in Nat /\ m \in Nat
      /\ DOMAIN a = 1 .. k /\ DOMAIN b = 1 .. l /\ DOMAIN c = 1 .. m
      /\ DOMAIN r = 1 .. k + m /\ DOMAIN q = 1 .. k + l + m
  OBVIOUS
<1>2. /\ \A i \in 1 .. k : r[i] = a[i] /\ q[i] = a[i]
      /\ \A i \in 1 .. l : q[k + i] = b[i]
      /\ \A i \in 1 .. m : r[k + i] = c[i] /\ q[k + l + i] = c[i]
  OBVIOUS
<1>3. \A i, j \in DOMAIN q : i < j /\ q[i].stream = q[j].stream => q[i].n < q[j].n
  BY DEF Ordered
<1> HIDE DEF q, r, k, l, m
<1> DEFINE at(i) == IF i <= k THEN i ELSE i + l
<1>4. \A i \in DOMAIN r : at(i) \in DOMAIN q /\ at(i) \notin k + 1 .. k + l /\ r[i] = q[at(i)]
  <2> SUFFICES ASSUME NEW i \in DOMAIN r
               PROVE  at(i) \in DOMAIN q /\ at(i) \notin k + 1 .. k + l /\ r[i] = q[at(i)]
    OBVIOUS
  <2>1. CASE i <= k
    BY <1>1, <1>2, <2>1
  <2>2. CASE i > k
    <3>1. i - k \in 1 .. m /\ k + (i - k) = i /\ k + l + (i - k) = i + l
      BY <1>1, <2>2
    <3>2. r[k + (i - k)] = c[i - k] /\ q[k + l + (i - k)] = c[i - k]
      BY <1>2, <3>1
    <3> QED
      BY <1>1, <2>2, <3>1, <3>2
  <2> QED
    BY <1>1, <2>1, <2>2
<1>5. \A i, j \in DOMAIN r : i < j => at(i) < at(j)
  BY <1>1
<1>6. Ordered(r)
  <2> SUFFICES ASSUME NEW i \in DOMAIN r, NEW j \in DOMAIN r, i < j, r[i].stream = r[j].stream
               PROVE  r[i].n < r[j].n
    BY DEF Ordered
  <2> QED
    BY <1>3, <1>4, <1>5
<1>7. \A i \in DOMAIN b : k + i \in DOMAIN q /\ k + i \in k + 1 .. k + l /\ q[k + i] = b[i]
  BY <1>1, <1>2
<1>8. Range(q) = Range(r) \cup Range(b)
  <2>1. \A j \in DOMAIN q : q[j] \in Range(r) \cup Range(b)
    <3> SUFFICES ASSUME NEW j \in DOMAIN q PROVE q[j] \in Range(r) \cup Range(b)
      OBVIOUS
    <3>1. CASE j <= k
      BY <1>1, <1>2, <3>1 DEF Range
    <3>2. CASE j > k /\ j <= k + l
      <4>1. j - k \in 1 .. l /\ k + (j - k) = j
        BY <1>1, <3>2
      <4> QED
        BY <1>1, <1>2, <4>1 DEF Range
    <3>3. CASE j > k + l
      <4>1. j - k - l \in 1 .. m /\ k + l + (j - k - l) = j /\ k + (j - k - l) \in DOMAIN r
        BY <1>1, <3>3
      <4>2. q[j] = c[j - k - l] /\ r[k + (j - k - l)] = c[j - k - l]
        BY <1>2, <4>1
      <4> QED
        BY <4>1, <4>2 DEF Range
    <3> QED
      BY <1>1, <3>1, <3>2, <3>3
  <2> QED
    BY <1>4, <1>7, <2>1 DEF Range
<1>9. Range(r) \cap Range(b) = {}
  <2> SUFFICES ASSUME NEW i \in DOMAIN r, NEW j \in DOMAIN b, r[i] = b[j] PROVE FALSE
    BY DEF Range
  <2>1. at(i) \in DOMAIN q /\ k + j \in DOMAIN q /\ at(i) # k + j /\ q[at(i)] = q[k + j]
    BY <1>4, <1>7
  <2>2. at(i) < k + j \/ k + j < at(i)
    BY <1>1, <2>1
  <2>3. q[k + j].n \in Nat
    <3>1. b[j] \in ExitOrOutput
      BY <1>1, ElementOfSeq
    <3> QED
      BY <1>7, <3>1 DEF ExitOrOutput, Exit, Outputs
  <2>4. q[at(i)].n < q[k + j].n \/ q[k + j].n < q[at(i)].n
    BY <1>3, <2>1, <2>2
  <2> QED
    BY <2>1, <2>3, <2>4
<1> QED
  BY <1>6, <1>8, <1>9 DEF q, r

\* The events of a session as one sequence.
LEMMA GotType ==
  ASSUME TypeOK, NEW s \in Sessions
  PROVE  Got(s) \in Seq(ExitOrOutput)
<1>1. \A a, b, c \in Seq(ExitOrOutput) : (a \o b) \o c \in Seq(ExitOrOutput)
  OBVIOUS
<1> QED
  BY <1>1, SessionTypes DEF Got

\* A session that no step touches keeps its output.
LEMMA OtherSession ==
  ASSUME NEW r \in Sessions, OutputAt(r), returned'[r] = returned[r], pending'[r] = pending[r],
         events'[r] = events[r], read'[r] = read[r], cut'[r] = cut[r]
  PROVE  OutputAt(r)'
<1>1. Got(r)' = Got(r) /\ ReadOf(r)' = ReadOf(r)
  BY DEF Got, ReadOf
<1> QED
  BY <1>1 DEF OutputAt

\* A reader sends the next chunk of its stream, behind all that it has sent.
LEMMA ReadKeepsOutput ==
  ASSUME ProcessInv, NEW s \in Sessions, OutputAt(s), NEW st \in StreamsOf[s], ReadStream(s, st)
  PROVE  OutputAt(s)'
<1> DEFINE o == Output(st, read[s][st] + 1)
<1>1. TypeOK /\ st \in Streams /\ read[s] \in [Streams -> Nat] /\ Got(s) \in Seq(ExitOrOutput)
  BY CommandAssumption, SessionTypes, GotType DEF ProcessInv
<1>2. o \in Outputs /\ o # Exit /\ o.stream = st /\ o.n = read[s][st] + 1
  BY <1>1, ExitIsNoOutput DEF Output, Outputs
<1>3. o \notin ReadOf(s)
  <2> SUFFICES ASSUME NEW x \in Streams, NEW n \in 1 .. read[s][x], o = Output(x, n) PROVE FALSE
    BY DEF ReadOf
  <2>1. x = st /\ n = read[s][st] + 1
    BY <1>2 DEF Output
  <2> QED
    BY <1>1, <2>1
<1>4. ReadOf(s)' = ReadOf(s) \cup {o}
  <2>1. read'[s] = [read[s] EXCEPT ![st] = @ + 1]
    BY <1>1 DEF ReadStream, TypeOK
  <2>2. read'[s][st] = read[s][st] + 1 /\ \A x \in Streams \ {st} : read'[s][x] = read[s][x]
    BY <1>1, <2>1
  <2>3. \A p : p \in ReadOf(s)' <=> \E x \in Streams : \E n \in 1 .. read'[s][x] : p = Output(x, n)
    BY DEF ReadOf
  <2>4. \A p : p \in ReadOf(s) <=> \E x \in Streams : \E n \in 1 .. read[s][x] : p = Output(x, n)
    BY DEF ReadOf
  <2>5. 1 .. read[s][st] + 1 = (1 .. read[s][st]) \cup {read[s][st] + 1}
    BY <1>1
  <2> QED
    BY <1>1, <2>2, <2>3, <2>4, <2>5
<1>5. \A i \in DOMAIN Got(s) : Got(s)[i].stream = st => Got(s)[i].n < o.n
  <2> SUFFICES ASSUME NEW i \in DOMAIN Got(s), Got(s)[i].stream = st PROVE Got(s)[i].n < o.n
    OBVIOUS
  <2>1. Got(s)[i] # Exit
    BY <1>1, CommandAssumption DEF Exit
  <2>2. Got(s)[i] \in ReadOf(s)
    BY <2>1 DEF OutputAt, Range
  <2>3. PICK x \in Streams : \E n \in 1 .. read[s][x] : Got(s)[i] = Output(x, n)
    BY <2>2 DEF ReadOf
  <2> QED
    BY <1>1, <1>2, <2>3 DEF Output
<1>6. Got(s)' = Append(Got(s), o)
  <2>1. events'[s] = Append(events[s], o)
    BY <1>1 DEF ReadStream, TypeOK
  <2>2. returned'[s] = returned[s] /\ pending'[s] = pending[s]
    BY DEF ReadStream, managerVars, resultVars
  <2>3. \A a, b, c \in Seq(ExitOrOutput) : \A p \in ExitOrOutput :
          (a \o b) \o Append(c, p) = Append((a \o b) \o c, p)
    OBVIOUS
  <2>4. o \in ExitOrOutput
    BY <1>2 DEF ExitOrOutput
  <2>5. /\ returned[s] \in Seq(ExitOrOutput) /\ pending[s] \in Seq(ExitOrOutput)
        /\ events[s] \in Seq(ExitOrOutput)
    BY <1>1, SessionTypes
  <2> HIDE DEF o
  <2>6. (returned[s] \o pending[s]) \o Append(events[s], o)
          = Append((returned[s] \o pending[s]) \o events[s], o)
    BY <2>3, <2>4, <2>5
  <2> QED
    BY <2>1, <2>2, <2>6 DEF Got
<1>7. cut'[s] = cut[s]
  BY DEF ReadStream, managerVars, resultVars
<1>8. Ordered(Append(Got(s), o)) /\ Range(Append(Got(s), o)) = Range(Got(s)) \cup {o}
  <2>1. o \in ExitOrOutput
    BY <1>2 DEF ExitOrOutput
  <2> HIDE DEF o
  <2> QED
    BY <1>1, <1>2, <1>5, <2>1, AppendOrdered DEF OutputAt
<1> HIDE DEF o
<1> QED
  BY <1>2, <1>3, <1>4, <1>6, <1>7, <1>8 DEF OutputAt

\* The waiter sends the one exit.
LEMMA ExitKeepsOutput ==
  ASSUME ProcessInv, NEW s \in Sessions, OutputAt(s), SendExit(s)
  PROVE  OutputAt(s)'
<1>1. TypeOK /\ Got(s) \in Seq(ExitOrOutput) /\ Exit \in ExitOrOutput
  BY GotType DEF ProcessInv, ExitOrOutput
<1>2. \A i \in DOMAIN Got(s) : Got(s)[i].stream # "exit"
  <2>1. \A p \in Outputs : p.stream # "exit"
    BY CommandAssumption DEF Outputs
  <2>2. \A i \in DOMAIN events[s] : events[s][i] \in Outputs
    <3>1. events[s] \in Seq(ExitOrOutput)
      BY <1>1, SessionTypes
    <3>2. \A i \in DOMAIN events[s] : events[s][i] \in ExitOrOutput /\ events[s][i] # Exit
      BY <3>1, ElementOfSeq DEF SendExit, ProcessInv, ExitInv
    <3> QED
      BY <3>2 DEF ExitOrOutput
  <2>3. events[s] \in Seq(Outputs)
    <3>1. events[s] \in Seq(ExitOrOutput)
      BY <1>1, SessionTypes
    <3> QED
      BY <2>2, <3>1
  <2>4. Got(s) \in Seq(Outputs)
    <3>1. \A a, b, c \in Seq(Outputs) : (a \o b) \o c \in Seq(Outputs)
      OBVIOUS
    <3> QED
      BY <1>1, <2>3, <3>1, SessionTypes DEF Got
  <2> QED
    BY <2>1, <2>4
<1>3. Got(s)' = Append(Got(s), Exit)
  <2>1. events'[s] = Append(events[s], Exit)
    BY <1>1 DEF SendExit, TypeOK
  <2>2. returned'[s] = returned[s] /\ pending'[s] = pending[s]
    BY DEF SendExit, managerVars, resultVars
  <2>3. \A a, b, c \in Seq(ExitOrOutput) : \A p \in ExitOrOutput :
          (a \o b) \o Append(c, p) = Append((a \o b) \o c, p)
    OBVIOUS
  <2>4. /\ returned[s] \in Seq(ExitOrOutput) /\ pending[s] \in Seq(ExitOrOutput)
        /\ events[s] \in Seq(ExitOrOutput)
    BY <1>1, SessionTypes
  <2>5. (returned[s] \o pending[s]) \o Append(events[s], Exit)
          = Append((returned[s] \o pending[s]) \o events[s], Exit)
    BY <1>1, <2>3, <2>4
  <2> QED
    BY <2>1, <2>2, <2>5 DEF Got
<1>4. Ordered(Append(Got(s), Exit)) /\ Range(Append(Got(s), Exit)) = Range(Got(s)) \cup {Exit}
  <2>1. Exit.stream = "exit" /\ Ordered(Got(s))
    BY DEF Exit, OutputAt
  <2> QED
    BY <1>1, <1>2, <2>1, AppendOrdered
<1>5. cut'[s] = cut[s] /\ ReadOf(s)' = ReadOf(s)
  BY DEF SendExit, managerVars, resultVars, ReadOf
<1> QED
  BY <1>3, <1>4, <1>5 DEF OutputAt

\* apply_event moves output to the end of the pending output, where it was in the
\* order of the events already, and drops the exit.
LEMMA ApplyKeepsOutput ==
  ASSUME ProcessInv, NEW s \in Sessions, OutputAt(s), Apply(s), UNCHANGED <<read, returned, cut>>
  PROVE  OutputAt(s)'
<1> DEFINE h == Head(events[s])
           t == Tail(events[s])
<1>1. /\ TypeOK /\ events[s] = <<h>> \o t /\ h \in ExitOrOutput /\ t \in Seq(ExitOrOutput)
      /\ h # Exit => h \in Outputs
      /\ returned[s] \in Seq(ExitOrOutput) /\ pending[s] \in Seq(ExitOrOutput)
  BY HeadAndTail, SessionTypes DEF ProcessInv, Apply
<1>2. events'[s] = t /\ returned'[s] = returned[s] /\ ReadOf(s)' = ReadOf(s) /\ cut'[s] = cut[s]
  BY <1>1 DEF Apply, TypeOK, ReadOf
<1>3. CASE h = Exit
  <2>1. pending'[s] = pending[s]
    BY <1>3 DEF Apply
  <2> HIDE DEF h, t
  <2>2. Got(s)' = (returned[s] \o pending[s]) \o t
    BY <1>2, <2>1 DEF Got
  <2> DEFINE a == returned[s] \o pending[s]
  <2>3. a \in Seq(ExitOrOutput) /\ <<h>> \in Seq(ExitOrOutput)
    BY <1>1
  <2>4. Got(s) = (a \o <<h>>) \o t
    <3> HIDE DEF a
    <3>1. a \o (<<h>> \o t) = (a \o <<h>>) \o t
      BY <1>1, <2>3
    <3> QED
      BY <1>1, <3>1 DEF Got, a
  <2>5. Range(<<h>>) = {Exit}
    BY <1>3 DEF Range
  <2> HIDE DEF a
  <2>6. Ordered(a \o t) /\ Range(Got(s)) = Range(a \o t) \cup {Exit}
    <3>1. Ordered((a \o <<h>>) \o t)
      BY <2>4 DEF OutputAt
    <3>2. /\ Ordered(a \o t)
          /\ Range((a \o <<h>>) \o t) = Range(a \o t) \cup Range(<<h>>)
      BY <1>1, <2>3, <3>1, RemoveOrdered
    <3> QED
      BY <2>4, <2>5, <3>2
  <2>7. Got(s)' = a \o t
    BY <2>2 DEF a
  <2> QED
    BY <1>2, <2>6, <2>7 DEF OutputAt
<1>4. CASE h # Exit
  <2>1. pending'[s] = Append(pending[s], h)
    BY <1>1, <1>4 DEF Apply, TypeOK
  <2> HIDE DEF h, t
  <2>2. \A a, b, c \in Seq(ExitOrOutput) : \A p \in ExitOrOutput :
          (a \o Append(b, p)) \o c = (a \o b) \o (<<p>> \o c)
    <3> SUFFICES ASSUME NEW a \in Seq(ExitOrOutput), NEW b \in Seq(ExitOrOutput),
                        NEW c \in Seq(ExitOrOutput), NEW p \in ExitOrOutput
                 PROVE  (a \o Append(b, p)) \o c = (a \o b) \o (<<p>> \o c)
      OBVIOUS
    <3>1. Append(b, p) = b \o <<p>> /\ <<p>> \in Seq(ExitOrOutput) /\ a \o b \in Seq(ExitOrOutput)
      BY AppendIsConcat
    <3>2. a \o (b \o <<p>>) = (a \o b) \o <<p>>
      BY <3>1, ConcatAssociative
    <3>3. ((a \o b) \o <<p>>) \o c = (a \o b) \o (<<p>> \o c)
      BY <3>1, ConcatAssociative
    <3> QED
      BY <3>1, <3>2, <3>3
  <2>3. Got(s)' = (returned[s] \o Append(pending[s], h)) \o t
    BY <1>2, <2>1 DEF Got
  <2>4. Got(s) = (returned[s] \o pending[s]) \o (<<h>> \o t)
    BY <1>1 DEF Got
  <2>5. Got(s)' = Got(s)
    BY <1>1, <2>2, <2>3, <2>4
  <2> QED
    BY <1>2, <2>5 DEF OutputAt
<1> QED
  BY <1>3, <1>4

\* A result returns the first of the pending output and cuts off the others.
LEMMA ReturnKeepsOutput ==
  ASSUME ProcessInv, NEW s \in Sessions, OutputAt(s), NEW l \in Nat, HandOver(s, l),
         UNCHANGED <<read, events>>
  PROVE  OutputAt(s)'
<1> DEFINE k == Smaller(l, Len(pending[s]))
           kept == SubSeq(pending[s], 1, k)
           rest == SubSeq(pending[s], k + 1, Len(pending[s]))
           a == returned[s] \o kept
<1>1. /\ TypeOK /\ events[s] \in Seq(ExitOrOutput) /\ pending[s] \in Seq(Outputs)
      /\ returned[s] \in Seq(ExitOrOutput)
  BY SessionTypes DEF ProcessInv
<1>2. /\ kept \in Seq(Outputs) /\ rest \in Seq(Outputs) /\ pending[s] = kept \o rest
      /\ Range(rest) = {pending[s][i] : i \in l + 1 .. Len(pending[s])}
  BY <1>1, LimitSplits
<1>3. /\ returned'[s] = a /\ pending'[s] = <<>> /\ cut'[s] = cut[s] \cup Range(rest)
      /\ events'[s] = events[s] /\ ReadOf(s)' = ReadOf(s)
  <2>1. /\ returned' = [returned EXCEPT ![s] = @ \o kept] /\ pending' = [pending EXCEPT ![s] = <<>>]
        /\ cut' = [cut EXCEPT ![s] = @ \cup Range(rest)]
    BY <1>2 DEF HandOver
  <2> HIDE DEF kept, rest
  <2>2. ReadOf(s)' = ReadOf(s) /\ events'[s] = events[s]
    BY DEF ReadOf
  <2> QED
    BY <1>1, <2>1, <2>2 DEF TypeOK
<1> HIDE DEF k, kept, rest
<1>4. kept \in Seq(ExitOrOutput) /\ rest \in Seq(ExitOrOutput)
  <2>1. \A q \in Seq(Outputs) : q \in Seq(ExitOrOutput)
    BY DEF ExitOrOutput
  <2> QED
    BY <1>2, <2>1
<1>5. a \in Seq(ExitOrOutput)
  BY <1>1, <1>4
<1>6. Got(s) = (a \o rest) \o events[s]
  <2>1. \A p, q, r \in Seq(ExitOrOutput) : p \o (q \o r) = (p \o q) \o r
    BY ConcatAssociative
  <2>2. returned[s] \o (kept \o rest) = (returned[s] \o kept) \o rest
    BY <1>1, <1>4, <2>1
  <2> QED
    BY <1>2, <2>2 DEF Got, a
<1> HIDE DEF a
<1>7. Got(s)' = a \o events[s]
  <2>1. a \o <<>> = a
    BY <1>5
  <2> QED
    BY <1>3, <2>1 DEF Got
<1>8. /\ Ordered(a \o events[s])
      /\ Range(Got(s)) = Range(a \o events[s]) \cup Range(rest)
      /\ Range(a \o events[s]) \cap Range(rest) = {}
  BY <1>1, <1>4, <1>5, <1>6, RemoveOrdered DEF OutputAt
<1>9. Exit \notin Range(rest)
  <2>1. Exit \notin Outputs
    BY CommandAssumption DEF Exit, Outputs
  <2> QED
    BY <1>2, <2>1, RangeOfSeq
<1> QED
  BY <1>3, <1>7, <1>8, <1>9 DEF OutputAt

\* No step loses, repeats or reorders output.
LEMMA OutputStep ==
  ASSUME ProcessInv, OutputOnce, [Next]_vars
  PROVE  OutputOnce'
<1>1. TypeOK /\ \A s \in Sessions : OutputAt(s)
  BY DEF ProcessInv, OutputOnce, OutputAt, Ordered
<1> SUFFICES \A r \in Sessions : OutputAt(r)'
  BY DEF OutputOnce, OutputAt, Ordered
<1> USE DEF processVars, callVars, resultVars, managerVars
<1>2. ASSUME NEW s \in Sessions, Process(s) PROVE \A r \in Sessions : OutputAt(r)'
  <2>1. \A r \in Sessions \ {s} : OutputAt(r)'
    <3> SUFFICES ASSUME NEW r \in Sessions \ {s} PROVE OutputAt(r)'
      OBVIOUS
    <3>1. /\ returned'[r] = returned[r] /\ pending'[r] = pending[r] /\ cut'[r] = cut[r]
          /\ events'[r] = events[r] /\ read'[r] = read[r]
      BY <1>1, <1>2
         DEF Process, Write, ProcessExits, ReadStream, SendExit, TakeInput, TypeOK
    <3> QED
      BY <1>1, <3>1, OtherSession
  <2>2. OutputAt(s)'
    <3>1. CASE UNCHANGED <<returned, pending, events, read, cut>>
      BY <1>1, <3>1, OtherSession
    <3>2. CASE \E st \in StreamsOf[s] : ReadStream(s, st)
      BY <1>1, <3>2, ReadKeepsOutput
    <3>3. CASE SendExit(s)
      BY <1>1, <3>3, ExitKeepsOutput
    <3> QED
      BY <1>2, <3>1, <3>2, <3>3 DEF Process, Write, ProcessExits, TakeInput
  <2> QED
    BY <2>1, <2>2
<1>3. ASSUME NEW s \in Sessions, Start(s) PROVE \A r \in Sessions : OutputAt(r)'
  BY <1>1, <1>3, OtherSession DEF Start, ExecCommand, Poll, WriteStdin, Collect
<1>4. ASSUME NEW s \in Sessions, Continue(s) PROVE \A r \in Sessions : OutputAt(r)'
  <2>1. CASE Apply(s) /\ UNCHANGED <<read, returned, cut>>
    <3>1. \A r \in Sessions \ {s} : OutputAt(r)'
      <4> SUFFICES ASSUME NEW r \in Sessions \ {s} PROVE OutputAt(r)'
        OBVIOUS
      <4>1. pending'[r] = pending[r] /\ events'[r] = events[r]
        BY <1>1, <2>1 DEF Apply, TypeOK
      <4> QED
        BY <1>1, <2>1, <4>1, OtherSession
    <3> QED
      BY <1>1, <2>1, <3>1, ApplyKeepsOutput
  <2>2. ASSUME NEW l \in Nat, HandOver(s, l), UNCHANGED <<read, events>>
        PROVE  \A r \in Sessions : OutputAt(r)'
    <3>1. \A r \in Sessions \ {s} : OutputAt(r)'
      <4> SUFFICES ASSUME NEW r \in Sessions \ {s} PROVE OutputAt(r)'
        OBVIOUS
      <4>1. returned'[r] = returned[r] /\ pending'[r] = pending[r] /\ cut'[r] = cut[r]
        BY <1>1, <2>2 DEF HandOver, TypeOK
      <4> QED
        BY <1>1, <2>2, <4>1, OtherSession
    <3> QED
      BY <1>1, <2>2, <3>1, ReturnKeepsOutput
  <2>3. CASE UNCHANGED <<returned, pending, events, read, cut>>
    BY <1>1, <2>3, OtherSession
  <2>4. \A l \in Limits : l \in Nat
    BY CommandAssumption
  <2> QED
    BY <1>4, <2>1, <2>2, <2>3, <2>4
       DEF Continue, TakeNext, Drained, Receive, Return, Refresh, Refreshed
<1>5. ASSUME ListUnreadTasks \/ Deadline \/ UNCHANGED vars PROVE \A r \in Sessions : OutputAt(r)'
  BY <1>1, <1>5, OtherSession DEF ListUnreadTasks, Deadline, vars
<1> QED
  BY <1>2, <1>3, <1>4, <1>5 DEF Next

\* Whatever the limits of the calls, the deadlines and the exits: what was read of
\* a process is returned, or waits to be, once and in order, or was cut off by the
\* limit of one call and is in no other.
THEOREM ProcessOutputOnce == Spec => []OutputOnce
<1>1. Init => OutputOnce
  <2> SUFFICES ASSUME Init, NEW s \in Sessions PROVE OutputAt(s)
    BY DEF OutputOnce, OutputAt, Ordered
  <2>1. Got(s) = <<>> /\ cut[s] = {} /\ \A st \in Streams : read[s][st] = 0
    BY DEF Init, Got
  <2>2. ReadOf(s) = {}
    BY <2>1 DEF ReadOf
  <2> QED
    BY <2>1, <2>2 DEF OutputAt, Ordered, Range
<1>2. ProcessInv /\ OutputOnce /\ [Next]_vars => OutputOnce'
  BY OutputStep
<1> QED
  BY <1>1, <1>2, ProcessInvariant, PTL DEF Spec
=============================================================================
