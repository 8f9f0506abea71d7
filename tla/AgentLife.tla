----------------------------- MODULE AgentLife -----------------------------
(***************************************************************************)
(* AgentWorker implements RequestLife, the view Router has of the worker.   *)
(***************************************************************************)
EXTENDS AgentWorker

Stage ==
  CASE pc = "idle" -> "idle"
    [] pc = "lock" -> "taken"
    [] pc \in {"finalSend", "complete"} -> "committed"
    [] OTHER -> "locked"

Life == INSTANCE RequestLife
          WITH busy <- req, stage <- Stage, recorded <- store.dedup,
               reported <- Len(sent)

\* The turn with its retries, failures, fallbacks, compactions and the commands
\* that run beside it looks to the router like a request that is taken, locked,
\* recorded and completed in this order, or given up before it is recorded.
ImplementsLife == Life!Spec
=============================================================================
