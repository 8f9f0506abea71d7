-------------------------- MODULE MCCommandSession --------------------------
(***************************************************************************)
(* Instances of CommandSession for TLC: thread t1 starts s1 with pipes,     *)
(* thread t2 starts s2 with a terminal.                                     *)
(***************************************************************************)
EXTENDS CommandSession

CONSTANTS t1, t2, s1, s2

MCThreadOf == [s \in Sessions |-> IF s = s1 THEN t1 ELSE t2]
MCStreamsOf ==
  [s \in Sessions |-> IF s = s1 THEN {"stdout", "stderr"} ELSE {"terminal"}]

\* The order within a stream needs two chunks, between streams one.
MCMaxWrites == [st \in Streams |-> IF st = "stdout" THEN 2 ELSE 1]
=============================================================================
