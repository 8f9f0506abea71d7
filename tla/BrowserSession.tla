--------------------------- MODULE BrowserSession ---------------------------
(***************************************************************************)
(* The browser session of one thread: the tools (agent/tool/browser/tool.rs)*)
(* over the BrowserSessionManager (session.rs), the BrowserSidecarService   *)
(* (service.rs) and its line protocol (protocol.rs), and the sidecar, a     *)
(* child process that answers one line for each request.                    *)
(*                                                                          *)
(* A thread has one call at a time.  A call sends its requests one after    *)
(* the other and reads one line for each.  What the sidecar prints besides  *)
(* its answers (noise) is read like an answer, so an answer can be left     *)
(* over in the pipe for a later call.                                       *)
(***************************************************************************)
EXTENDS Naturals, Sequences, SequencesExt

CONSTANTS
  BrowserTools, \* the tools that are called
  MaxRequests,  \* bound on the requests of one service
  MaxNoise,     \* bound on the lines that are no answers
  MaxDirs       \* bound on the session directories

\* What each tool asks of the sidecar.  close is closing the session.
Steps ==
  [browser__navigate |-> <<"navigate", "snapshot">>,
   browser__snapshot |-> <<"snapshot">>,
   browser__click_ref |-> <<"click_ref">>,
   browser__click_match |-> <<"snapshot", "click_ref">>,
   browser__type_ref |-> <<"type_ref">>,
   browser__type_match |-> <<"snapshot", "type_ref">>,
   browser__screenshot |-> <<"screenshot">>,
   browser__close |-> <<"close">>]

Matching == {"browser__click_match", "browser__type_match"}

ASSUME BrowserAssumption ==
  /\ BrowserTools \subseteq DOMAIN Steps
  /\ MaxRequests \in Nat /\ MaxNoise \in Nat /\ MaxDirs \in Nat

VARIABLES
  session,  \* the directory of the thread's session; 0: it has none
  dirs,     \* the session directories on disk
  made,     \* how many were ever made
  child,    \* the child of the service: none, up, or dead and not noticed
  requests, \* the requests the sidecar has not answered
  pipe,     \* the lines that have not been read
  nextId,   \* next_request_id
  noise,    \* how many lines were no answers
  op        \* the call: [tool, at, dir, sent, got]

serviceVars == <<child, requests, pipe, nextId>>
browserVars == <<session, dirs, made, serviceVars, noise, op>>

NoOp == [tool |-> "none", at |-> "idle", dir |-> 0, sent |-> <<>>, got |-> <<>>]

BrowserInit ==
  /\ session = 0 /\ dirs = {} /\ made = 0
  /\ child = "none" /\ requests = <<>> /\ pipe = <<>> /\ nextId = 1
  /\ noise = 0 /\ op = NoOp

\* A line: the id it names, the request it truly answers, what it carries.
Line(r, kind) == [id |-> r.id, action |-> r.action, kind |-> kind]
Noise == [id |-> 0, action |-> "none", kind |-> "noise"]
-----------------------------------------------------------------------------
(* The sidecar *)

\* An answer is a result, an error, or the result of another action.
AnswerRequest ==
  /\ child = "up" /\ requests # <<>>
  /\ \E kind \in {"ok", "error", "other"} :
       pipe' = Append(pipe, Line(Head(requests), kind))
  /\ requests' = Tail(requests)
  /\ UNCHANGED <<session, dirs, made, child, nextId, noise, op>>

PrintNoise ==
  /\ child = "up" /\ noise < MaxNoise
  /\ noise' = noise + 1 /\ pipe' = Append(pipe, Noise)
  /\ UNCHANGED <<session, dirs, made, child, requests, nextId, op>>

SidecarDies ==
  /\ child = "up" /\ child' = "dead" /\ requests' = <<>>
  /\ UNCHANGED <<session, dirs, made, pipe, nextId, noise, op>>
-----------------------------------------------------------------------------
(* A call *)

BrowserCall(tool) ==
  /\ op = NoOp /\ tool # "browser__close"
  /\ op' = [NoOp EXCEPT !.tool = tool, !.at = "session"]
  /\ UNCHANGED <<session, dirs, made, serviceVars, noise>>

\* session_for_thread: the first call makes the directory of a new session.
UseSession ==
  /\ op.at = "session"
  /\ IF session # 0
     THEN op' = [op EXCEPT !.at = "start", !.dir = session]
            /\ UNCHANGED <<session, dirs, made, nextId>>
     ELSE /\ made < MaxDirs
          /\ made' = made + 1 /\ dirs' = dirs \cup {made'} /\ session' = made'
          /\ nextId' = 1
          /\ op' = [op EXCEPT !.at = "start", !.dir = made']
  /\ UNCHANGED <<child, requests, pipe, noise>>

\* ensure_started: a child that died is still there.
EnsureStarted ==
  /\ op.at = "start"
  /\ child' = IF child = "none" THEN "up" ELSE child
  /\ op' = [op EXCEPT !.at = "send"]
  /\ UNCHANGED <<session, dirs, made, requests, pipe, nextId, noise>>

Fail == op' = [op EXCEPT !.at = "failed"]

\* The directory cannot be made, or the sidecar cannot be spawned.
StartFails ==
  /\ \/ op.at = "session" /\ session = 0
     \/ op.at = "start" /\ child = "none"
  /\ Fail
  /\ UNCHANGED <<session, dirs, made, serviceVars, noise>>

Request == [id |-> nextId, action |-> Steps[op.tool][Len(op.got) + 1]]

\* The id is spent before the request is written; a dead sidecar takes none.
Send ==
  /\ op.at = "send" /\ nextId <= MaxRequests
  /\ nextId' = nextId + 1
  /\ IF child = "up"
     THEN /\ requests' = Append(requests, Request)
          /\ op' = [op EXCEPT !.at = "read", !.sent = Append(@, Request)]
     ELSE UNCHANGED requests /\ Fail
  /\ UNCHANGED <<session, dirs, made, child, pipe, noise>>

\* Slip: any result of the action is taken.
AcceptsAnyId(line) ==
  /\ line.kind = "ok" /\ line.action = Last(op.sent).action

\* A line is the answer if it decodes, names the request, is a result, and is
\* the result of the action.
Accepts(line) ==
  /\ line.kind = "ok" /\ line.id = Last(op.sent).id

ReadAnswer ==
  /\ op.at = "read" /\ pipe # <<>>
  /\ pipe' = Tail(pipe)
  /\ op' = IF ~Accepts(Head(pipe)) THEN [op EXCEPT !.at = "failed"]
           ELSE [op EXCEPT !.got = Append(@, [id |-> Head(pipe).id,
                                              action |-> Head(pipe).action]),
                  !.at = IF Len(op.got) + 1 < Len(Steps[op.tool])
                         THEN "send" ELSE "done"]
  /\ UNCHANGED <<session, dirs, made, child, requests, nextId, noise>>

ReadNothing ==
  /\ op.at = "read" /\ pipe = <<>> /\ child = "dead"
  /\ Fail
  /\ UNCHANGED <<session, dirs, made, serviceVars, noise>>

\* resolve_element_match finds no element in the snapshot.
NoMatch ==
  /\ op.tool \in Matching /\ op.at = "send" /\ Len(op.got) = 1
  /\ Fail
  /\ UNCHANGED <<session, dirs, made, serviceVars, noise>>

ReturnTool ==
  /\ op.at \in {"done", "failed"} /\ op.tool # "browser__close"
  /\ op' = NoOp
  /\ UNCHANGED <<session, dirs, made, serviceVars, noise>>
-----------------------------------------------------------------------------
(* browser__close and unload_toolset *)

\* The session leaves the map first; one whose sidecar never started has no
\* process to ask.
Close ==
  /\ op = NoOp /\ session # 0
  /\ session' = 0
  /\ op' = [NoOp EXCEPT !.tool = "browser__close", !.dir = session,
                        !.at = IF child = "none" THEN "done" ELSE "send"]
  /\ UNCHANGED <<dirs, made, serviceVars, noise>>

\* The process is shut down whatever it answered; only if it answered well is
\* the directory removed, which may fail too.
FinishClose ==
  /\ op.tool = "browser__close" /\ op.at \in {"done", "failed"}
  /\ child' = "none" /\ requests' = <<>> /\ pipe' = <<>> /\ nextId' = 1
  /\ \/ op.at = "done" /\ dirs' = dirs \ {op.dir}
     \/ UNCHANGED dirs
  /\ op' = NoOp
  /\ UNCHANGED <<session, made, noise>>

BrowserNext ==
  \/ AnswerRequest \/ PrintNoise \/ SidecarDies
  \/ \E tool \in BrowserTools : BrowserCall(tool)
  \/ UseSession \/ EnsureStarted \/ StartFails \/ Send \/ ReadAnswer \/ ReadNothing
  \/ NoMatch \/ ReturnTool \/ Close \/ FinishClose

BrowserSpec == BrowserInit /\ [][BrowserNext]_browserVars
-----------------------------------------------------------------------------
BrowserTypeOK ==
  /\ session \in 0 .. MaxDirs /\ dirs \subseteq 1 .. made /\ made \in 0 .. MaxDirs
  /\ child \in {"none", "up", "dead"}
  /\ Len(requests) <= MaxRequests /\ Len(pipe) <= MaxRequests + MaxNoise
  /\ op.at \in {"idle", "session", "start", "send", "read", "done", "failed"}
  /\ session # 0 => session \in dirs

\* A tool that succeeds reports what the sidecar answered to its own requests,
\* one after the other, never an answer left over from a call that failed: after
\* a line that was no answer, every line is one call behind.  And a sidecar
\* never outlives its session: without a session and a call there is no child.
AnswersItsRequest ==
  /\ op.at = "done" /\ op.dir # 0 => op.got = op.sent
  /\ session = 0 /\ op = NoOp => child = "none"
=============================================================================
