--------------------------- MODULE MCAgentWorker ---------------------------
(***************************************************************************)
(* Instances of AgentWorker for TLC: two requests of one thread, an         *)
(* ordinary tool call c1 and a call c2 of the compact tool.                 *)
(***************************************************************************)
EXTENDS AgentLife, TLC

CONSTANTS r1, r2, c1, c2, echo, clear

NoFaults == {}
AllFaults == FaultKinds
CompactFaults == {"compact"}
\* Failures after which handle_request still reports the request completed.
ReportedFaults == {"llm", "hook"}

\* Nothing distinguishes one request from another.
RequestSymmetry == Permutations(Requests)
=============================================================================
