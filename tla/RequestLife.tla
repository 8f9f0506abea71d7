---------------------------- MODULE RequestLife ----------------------------
(***************************************************************************)
(* What the router may assume of the agent worker for the requests of one   *)
(* thread: a request it sent is taken up, runs under the thread's mutex,    *)
(* is recorded as processed, and only then reported completed.  Progress is *)
(* reported in between.  The worker may also give a request up; nothing     *)
(* more is heard of it then.  Module Router uses the worker in this form.   *)
(***************************************************************************)
EXTENDS Naturals, FiniteSets

CONSTANTS Requests, NoReq

VARIABLES busy, stage,  \* the request in work and how far it is
          recorded,     \* the requests with a deduplication record
          reported      \* events about the request in work

vars == <<busy, stage, recorded, reported>>

Init == busy = NoReq /\ stage = "idle" /\ recorded = {} /\ reported = 0

Take(r) ==
  /\ stage = "idle" /\ stage' = "taken"
  /\ busy' = r /\ reported' = 0
  /\ UNCHANGED recorded

Lock ==
  /\ stage = "taken" /\ stage' = "locked"
  /\ UNCHANGED <<busy, recorded, reported>>

Emit ==
  /\ stage \in {"locked", "committed"}
  /\ reported' = reported + 1
  /\ UNCHANGED <<busy, stage, recorded>>

CommitTurn ==
  /\ stage = "locked" /\ stage' = "committed"
  /\ recorded' = recorded \cup {busy}
  /\ UNCHANGED <<busy, reported>>

Complete ==
  /\ stage = "committed" /\ stage' = "idle"
  /\ busy' = NoReq /\ reported' = reported + 1
  /\ UNCHANGED recorded

Abandon ==
  /\ stage \in {"taken", "locked"} /\ stage' = "idle"
  /\ busy' = NoReq
  /\ UNCHANGED <<recorded, reported>>

Crash ==
  /\ stage' = "idle" /\ busy' = NoReq /\ reported' = 0
  /\ UNCHANGED recorded

Next ==
  \/ \E r \in Requests : Take(r)
  \/ Lock \/ Emit \/ CommitTurn \/ Complete \/ Abandon \/ Crash

Spec == Init /\ [][Next]_vars
=============================================================================
