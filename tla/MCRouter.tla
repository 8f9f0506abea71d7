------------------------------ MODULE MCRouter ------------------------------
(***************************************************************************)
(* Instances of Router for TLC.  Thread t1 gets two chats, a redelivery of  *)
(* the first one, a command and a /clear, thread t2 a chat and a message    *)
(* that is only a slash.                                                    *)
(***************************************************************************)
EXTENDS RouterLane

CONSTANTS t1, t2, m1, m2, m1again, echo, clear, other, slash, k1, k2, k3

MCThreadOf ==
  [m \in Messages |-> IF m \in {other, slash} THEN t2 ELSE t1]
MCKeyOf ==
  [m \in Messages |->
     CASE m \in {m1, m1again} -> k1 [] m = m2 -> k2 [] m = clear -> k3
       [] OTHER -> NoKey]
MCKindOf ==
  [m \in Messages |->
     CASE m \in {m1, m2, m1again, other} -> "chat" [] m = echo -> "command"
       [] m = clear -> "idleOnly" [] m = slash -> "malformed"]

NoFaults == {}
AllFaults == FaultKinds
CallFaults == {"store", "channel"}
=============================================================================
